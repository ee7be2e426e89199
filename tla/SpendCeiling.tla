---------------------------- MODULE SpendCeiling ----------------------------
(***************************************************************************)
(* What the credit breaker promises, with no threads and no queues.        *)
(*                                                                         *)
(* A metered child publishes cumulative usage totals.  The ceiling vouches *)
(* for them one after the other, never going back, and takes the decision  *)
(* that stops the child at the first total it vouches for that reaches the *)
(* limit.  It may close the books as "completed" only when no more totals  *)
(* will be published and every one of them is vouched for; at any moment   *)
(* before that it may declare that it can no longer vouch ("malformed",    *)
(* or a loss of the ceiling itself, "lost").                               *)
(***************************************************************************)
EXTENDS Integers

CONSTANTS Limit,      \* the ceiling, in normalized credits
          Starting,   \* credits carried over from an earlier run
          MaxTotal    \* the largest cumulative usage total a child publishes

VARIABLES offered,    \* the usage totals published before the seal
          sealed,     \* no later total counts
          vouched,    \* the last total the ceiling accounted for
          verdict     \* "open", or how the books were closed

vars == <<offered, sealed, vouched, verdict>>

Verdicts == {"open", "tripped", "malformed", "lost", "completed"}

Init ==
  /\ offered = {}
  /\ sealed = FALSE
  /\ vouched = 0
  /\ verdict = "open"

(* The child publishes a total. *)
Offer(t) ==
  /\ ~sealed
  /\ offered' = offered \cup {t}
  /\ UNCHANGED <<sealed, vouched, verdict>>

(* No later total counts. *)
Seal ==
  /\ ~sealed
  /\ sealed' = TRUE
  /\ UNCHANGED <<offered, vouched, verdict>>

(* The next published total is accounted for; reaching the limit closes    *)
(* the books at once.                                                      *)
Vouch(t) ==
  /\ verdict = "open"
  /\ Starting + vouched < Limit
  /\ t \in offered
  /\ t >= vouched
  /\ vouched' = t
  /\ verdict' = IF Starting + t >= Limit THEN "tripped" ELSE "open"
  /\ UNCHANGED <<offered, sealed>>

(* The carried-over credits already reach the limit: nothing is consumed.  *)
TripAtStart ==
  /\ verdict = "open"
  /\ Starting >= Limit
  /\ verdict' = "tripped"
  /\ UNCHANGED <<offered, sealed, vouched>>

(* The ceiling declares that it can no longer vouch for the spend. *)
GiveUp ==
  /\ verdict = "open"
  /\ verdict' \in {"malformed", "lost"}
  /\ UNCHANGED <<offered, sealed, vouched>>

(* The books close clean. *)
Complete ==
  /\ verdict = "open"
  /\ sealed
  /\ \A t \in offered : t <= vouched
  /\ verdict' = "completed"
  /\ UNCHANGED <<offered, sealed, vouched>>

Next ==
  \/ \E t \in 0..MaxTotal : Offer(t) \/ Vouch(t)
  \/ Seal
  \/ TripAtStart
  \/ GiveUp
  \/ Complete

Spec == Init /\ [][Next]_vars
=============================================================================
