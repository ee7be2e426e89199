----------------------------- MODULE PinnedSeeds -----------------------------
(***************************************************************************)
(* What a session over a list of pinned seeds promises its scorer: the      *)
(* seeds are attempted in the order of the list, each attempt is closed     *)
(* (finished or abandoned) before the next one opens, and no seed is        *)
(* skipped or attempted again.                                              *)
(***************************************************************************)
EXTENDS Integers

CONSTANT N          \* how many seeds are pinned

VARIABLES at,       \* the attempt in progress, N once the list is used up
          closed    \* the attempts that were closed

vars == <<at, closed>>

Init == at = 0 /\ closed = {}

Close == at < N /\ closed' = closed \cup {at} /\ UNCHANGED at

Advance == at < N /\ at \in closed' /\ at' = at + 1
           /\ closed' \in {closed, closed \cup {at}}

Next == Close \/ Advance

Spec == Init /\ [][Next]_vars
=============================================================================
