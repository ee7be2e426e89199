------------------------------ MODULE Gate0Run ------------------------------
(***************************************************************************)
(* One paid run of the Gate 0 launchers, all its threads together:          *)
(*   tools/gate0_appserver_launch.py  main, ObservingGate0Client            *)
(*   tools/gate0_appserver_arm.py     _run_real, run_gate0_arm_turn         *)
(*   tools/gate0_appserver_client.py  connect, close, _read_loop            *)
(* composed with the live credit breaker (LiveCreditGuard).                 *)
(*                                                                          *)
(* The main thread starts the guard, spawns the child, talks the handshake, *)
(* starts the one paid turn and waits for its end; the reader thread takes  *)
(* the child's lines off the pipe and shows each to the guard before anyone *)
(* else; the guard's on_trip closes the client and kills the child.         *)
(*                                                                          *)
(* The handshake requests (initialize, thread/start) are one request.  Any  *)
(* timed wait may time out at any moment.  The child (codex app-server)     *)
(* spends only between turn/start and its terminal notification.            *)
(***************************************************************************)
EXTENDS LiveCreditGuard

CONSTANT MaxPipe    \* bound: lines in the child's stdout pipe

ASSUME RunAssumption == MaxPipe \in Nat /\ {"usage", "other"} \subseteq Kinds

VARIABLES main,      \* program counter of the main thread
          outcome,   \* how the main thread's wait for the turn ended
          report,    \* guard.result as the main thread published it
          client,    \* state["client"] is set
          pid,       \* state["pid"] is set
          transport, \* "none", "open" or "closed" (close() was called on it)
          stop,      \* Gate0AppServerClient._stop
          trip,      \* what on_trip has done so far
          child,     \* the codex process
          turn,      \* the child's turn: not started, running, over
          spent,     \* what the turn has used up
          pipe,      \* the child's stdout
          reader,    \* program counter of the reader thread
          line,      \* the line the reader is handling
          answered,  \* the response the main thread waits for has arrived
          ended      \* a terminal notification is in client.notifications

mainVars == <<main, outcome, report, client, pid>>
closeVars == <<transport, stop, trip>>
childVars == <<child, turn, spent, pipe>>
readerVars == <<reader, line, answered, ended>>
vars == <<guardVars, mainVars, closeVars, childVars, readerVars>>

Line(kind) == [kind |-> kind, total |-> 0]
UsageLine(t) == [kind |-> "usage", total |-> t]
NoLine == Line("none")
Lines == [kind : {"none", "usage", "response", "terminal", "garbage"},
          total : 0..MaxTotal]

(* What the guard makes of a line: everything that is no usage is worth 0. *)
Observed(l) == IF l.kind = "usage" THEN l ELSE Line("other")

Alive == child \in {"running", "terminating"}

Init ==
  /\ GuardInit
  /\ main = "boot" /\ outcome = "open" /\ report = NoResult
  /\ client = FALSE /\ pid = FALSE
  /\ transport = "none" /\ stop = FALSE /\ trip = "idle"
  /\ child = "none" /\ turn = "none" /\ spent = 0 /\ pipe = <<>>
  /\ reader = "off" /\ line = NoLine /\ answered = FALSE /\ ended = FALSE

-----------------------------------------------------------------------------
(* The main thread; guard.start() has been called.                          *)

CreateClient ==
  /\ main = "boot"
  /\ main' = "created"
  /\ client' = TRUE
  /\ UNCHANGED <<guardVars, outcome, report, pid, closeVars, childVars,
                 readerVars>>

(* connect(): the child is spawned, then the reader thread is started. *)
Connect ==
  /\ main = "created"
  /\ main' = "connected"
  /\ transport' = "open"
  /\ child' = "running"
  /\ reader' = "check"
  /\ UNCHANGED <<guardVars, outcome, report, client, pid, stop, trip, turn,
                 spent, pipe, line, answered, ended>>

(* A request goes out; on a closed transport, or with the child gone, the   *)
(* write raises.                                                            *)
CanSend == transport = "open" /\ child # "dead"
SendOrRaise(next) ==
  /\ main' = IF CanSend THEN next ELSE "finish"
  /\ outcome' = IF CanSend THEN outcome ELSE "raised"

(* state["pid"] is set, then the handshake request goes out. *)
RegisterPid ==
  /\ main = "connected"
  /\ pid' = TRUE
  /\ SendOrRaise("handshake")
  /\ UNCHANGED <<guardVars, report, client, closeVars, childVars, readerVars>>

(* The handshake is answered: turn/start goes out. *)
StartTurn ==
  /\ main = "handshake"
  /\ answered
  /\ answered' = FALSE
  /\ SendOrRaise("turn")
  /\ turn' = IF CanSend THEN "on" ELSE turn
  /\ UNCHANGED <<guardVars, report, client, pid, closeVars, child, spent,
                 pipe, reader, line, ended>>

TurnAnswered ==
  /\ main = "turn"
  /\ answered
  /\ answered' = FALSE
  /\ main' = "wait"
  /\ UNCHANGED <<guardVars, outcome, report, client, pid, closeVars, childVars,
                 reader, line, ended>>

(* A request is not answered in time: TimeoutError. *)
RequestTimeout ==
  /\ main \in {"handshake", "turn"}
  /\ main' = "finish"
  /\ outcome' = "raised"
  /\ UNCHANGED <<guardVars, report, client, pid, closeVars, childVars,
                 readerVars>>

(* wait_for_notification sees the terminal notification ... *)
TurnEnded ==
  /\ main = "wait"
  /\ ended
  /\ main' = "finish"
  /\ outcome' = "ended"
  /\ UNCHANGED <<guardVars, report, client, pid, closeVars, childVars,
                 readerVars>>

(* Mutant: the wait has no deadline. *)
WaitTimeoutNever == FALSE

(* ... or gives up at its deadline. *)
WaitTimeout ==
  /\ main = "wait"
  /\ main' = "finish"
  /\ outcome' = "timeout"
  /\ UNCHANGED <<guardVars, report, client, pid, closeVars, childVars,
                 readerVars>>

(* Mutant: the end marker goes to the front of the queue. *)
FinishGuardFirst ==
  /\ main = "finish"
  /\ main' = "join"
  /\ FinishFirst
  /\ UNCHANGED <<outcome, report, client, pid, closeVars, childVars, readerVars>>

(* finally: guard.finish() *)
FinishGuard ==
  /\ main = "finish"
  /\ main' = "join"
  /\ Finish
  /\ UNCHANGED <<outcome, report, client, pid, closeVars, childVars, readerVars>>

(* guard.join(timeout): the guard thread is over, or the wait is. *)
JoinReturns ==
  /\ main = "join"
  /\ main' = "close"
  /\ UNCHANGED <<guardVars, outcome, report, client, pid, closeVars, childVars,
                 readerVars>>

(* Gate0AppServerClient.close(): the reader is told to stop; a transport    *)
(* there is is closed and its process asked to terminate.                   *)
CloseEffect ==
  /\ stop' = TRUE
  /\ transport' = IF transport = "none" THEN "none" ELSE "closed"
  /\ child' = IF transport # "none" /\ child = "running"
              THEN "terminating" ELSE child

CloseClient ==
  /\ main = "close"
  /\ main' = "closed"
  /\ CloseEffect
  /\ UNCHANGED <<guardVars, outcome, report, client, pid, trip, turn, spent,
                 pipe, readerVars>>

(* The result is read and published; an exception publishes nothing. *)
Publish ==
  /\ main = "closed"
  /\ main' = IF outcome = "raised" THEN "failed" ELSE "done"
  /\ report' = IF outcome = "raised" THEN report ELSE result
  /\ UNCHANGED <<guardVars, outcome, client, pid, closeVars, childVars,
                 readerVars>>

-----------------------------------------------------------------------------
(* on_trip, on the guard thread.                                            *)

(* It closes the client it finds. *)
TripClose ==
  /\ guard = "trip"
  /\ trip = "idle"
  /\ IF client
     THEN CloseEffect /\ trip' = "closed"
     ELSE trip' = "blind" /\ UNCHANGED <<transport, stop, child>>
  /\ UNCHANGED <<guardVars, mainVars, turn, spent, pipe, readerVars>>

(* Mutant: on_trip relies on the SIGTERM of close(). *)
TripKillNever ==
  /\ trip \in {"closed", "blind"}
  /\ TripDone
  /\ UNCHANGED <<mainVars, closeVars, childVars, readerVars>>

(* Then it kills the pid it finds (SIGKILL), and returns. *)
TripKill ==
  /\ trip \in {"closed", "blind"}
  /\ TripDone
  /\ IF pid
     THEN child' = "dead" /\ trip' = "killed"
     ELSE UNCHANGED <<child, trip>>
  /\ UNCHANGED <<mainVars, transport, stop, turn, spent, pipe, readerVars>>

-----------------------------------------------------------------------------
(* The child.                                                               *)

Emit(l) == Len(pipe) < MaxPipe /\ pipe' = Append(pipe, l)

(* It answers the request the main thread waits for. *)
ChildAnswers ==
  /\ Alive
  /\ main \in {"handshake", "turn"}
  /\ ~answered /\ line.kind # "response"
  /\ \A i \in 1..Len(pipe) : pipe[i].kind # "response"
  /\ Emit(Line("response"))
  /\ UNCHANGED <<guardVars, mainVars, closeVars, child, turn, spent, readerVars>>

(* It spends, and says so in a cumulative total. *)
ChildSpends ==
  /\ Alive
  /\ turn = "on"
  /\ spent < MaxTotal
  /\ spent' = spent + 1
  /\ Emit(UsageLine(spent'))
  /\ UNCHANGED <<guardVars, mainVars, closeVars, child, turn, readerVars>>

ChildEndsTurn ==
  /\ Alive
  /\ turn = "on"
  /\ turn' = "over"
  /\ Emit(Line("terminal"))
  /\ UNCHANGED <<guardVars, mainVars, closeVars, child, spent, readerVars>>

(* It prints something that is no JSON. *)
ChildGarbles ==
  /\ Alive
  /\ \A i \in 1..Len(pipe) : pipe[i].kind # "garbage"
  /\ Emit(Line("garbage"))
  /\ UNCHANGED <<guardVars, mainVars, closeVars, child, turn, spent, readerVars>>

(* It crashes, or obeys SIGTERM. *)
ChildDies ==
  /\ Alive
  /\ child' = "dead"
  /\ UNCHANGED <<guardVars, mainVars, closeVars, turn, spent, pipe, readerVars>>

-----------------------------------------------------------------------------
(* The reader thread, _read_loop.                                           *)

(* Mutant: the stop flag is not looked at. *)
ReaderCheckNot ==
  /\ reader = "check"
  /\ reader' = "read"
  /\ UNCHANGED <<guardVars, mainVars, closeVars, childVars, line, answered,
                 ended>>

ReaderCheck ==
  /\ reader = "check"
  /\ reader' = IF stop THEN "ended" ELSE "read"
  /\ UNCHANGED <<guardVars, mainVars, closeVars, childVars, line, answered,
                 ended>>

(* readline returns a line; json.loads of garbage kills the thread. *)
ReaderReads ==
  /\ reader = "read"
  /\ pipe # <<>>
  /\ pipe' = Tail(pipe)
  /\ IF Head(pipe).kind = "garbage"
     THEN reader' = "dead" /\ line' = NoLine
     ELSE reader' = "observe" /\ line' = Head(pipe)
  /\ UNCHANGED <<guardVars, mainVars, closeVars, child, turn, spent, answered,
                 ended>>

ReaderEOF ==
  /\ reader = "read"
  /\ pipe = <<>>
  /\ child = "dead"
  /\ reader' = "ended"
  /\ UNCHANGED <<guardVars, mainVars, closeVars, childVars, line, answered,
                 ended>>

(* ObservingGate0Client.handle_message: first the credit observer ... *)
ReaderObserves ==
  /\ reader = "observe"
  /\ reader' = "dispatch"
  /\ Observe(Observed(line))
  /\ UNCHANGED <<mainVars, closeVars, childVars, line, answered, ended>>

(* ... then the notification list, or the waiting request. *)
ReaderDispatches ==
  /\ reader = "dispatch"
  /\ reader' = "check"
  /\ line' = NoLine
  /\ answered' = (answered \/ line.kind = "response")
  /\ ended' = (ended \/ line.kind = "terminal")
  /\ UNCHANGED <<guardVars, mainVars, closeVars, childVars>>

-----------------------------------------------------------------------------
Main == \/ CreateClient \/ Connect \/ RegisterPid \/ StartTurn \/ TurnAnswered
        \/ RequestTimeout \/ TurnEnded \/ WaitTimeout \/ FinishGuard
        \/ JoinReturns \/ CloseClient \/ Publish
Child == \/ ChildAnswers \/ ChildSpends \/ ChildEndsTurn \/ ChildGarbles
         \/ ChildDies
Reader == \/ ReaderCheck \/ ReaderReads \/ ReaderEOF \/ ReaderObserves
          \/ ReaderDispatches
OnTrip == TripClose \/ TripKill

GuardThreads == (Puller \/ Guard) /\ UNCHANGED <<mainVars, closeVars, childVars,
                                                 readerVars>>

Next == Main \/ Child \/ Reader \/ OnTrip \/ GuardThreads

Spec == Init /\ [][Next]_vars

(* The threads of the launcher are never starved; the child owes nothing. *)
Fairness ==
  /\ WF_vars(Main)
  /\ WF_vars(Reader)
  /\ WF_vars(Guard /\ UNCHANGED <<mainVars, closeVars, childVars, readerVars>>)
  /\ WF_vars(OnTrip)

FairSpec == Spec /\ Fairness

-----------------------------------------------------------------------------
(* A normal end prices everything: when the main thread saw the turn's end  *)
(* and publishes an untripped total, all the child spent is in it: one      *)
(* reader thread observes the lines in order, and finish() queues behind    *)
(* everything observed.                                                     *)
NormalEndPricesEverything ==
  main = "done" /\ outcome = "ended" /\ report.state = "final"
    => report.credits = Starting + spent

(* No unguarded turn: once on_trip has run, a turn is left running by a     *)
(* live child only if on_trip came before there was a client to close.      *)
NoUnguardedTurn ==
  guard = "done" /\ verdict \in {"tripped", "malformed"} /\ turn = "on"
    => child = "dead" \/ trip = "blind"

(* After on_trip has closed the client, wherever the main thread was, no    *)
(* paid turn starts any more.                                               *)
TripStopsTurn ==
  [][trip = "closed" /\ turn = "none" => turn' = "none"]_vars

(* A run whose breaker has acted is published as tripped, whatever the      *)
(* order in which the main thread, the guard and on_trip get on.            *)
TripIsPublished ==
  [][main = "closed" /\ main' = "done" /\ trip # "idle"
       => report'.state = "tripped"]_vars

(* The run's threads use the guard as its module allows: its theorems hold  *)
(* of the whole run.                                                        *)
UsesGuard == GuardSpec

(* The launcher always comes to an end, whatever the child does. *)
MainEnds == <>(main \in {"done", "failed"})

(* A trip during the turn ends in the child's death, even when the child    *)
(* ignores SIGTERM and the main thread is waiting.                          *)
TripEndsTurn == guard = "trip" /\ turn = "on" ~> child = "dead"

(* gate0_credit_breaker.py, THE KILL CONTRACT: the caller "must kill the    *)
(* codex child the instant run_breaker raises ANY breaker exception": with  *)
(* on_trip over, no paid turn runs on.                                      *)
KillContract ==
  guard = "done" /\ verdict \in {"tripped", "malformed"}
    => ~(child = "running" /\ turn = "on")
=============================================================================
