----------------------------- MODULE MCPatience -----------------------------
(* An instance of Patience for TLC: two gated contexts, one that is not. *)
EXTENDS Patience

CONSTANTS dialog, battle, overworld, a, start

AllContexts == {dialog, battle, overworld}
GatedContexts == {dialog, battle}
Ladder == <<a, start>>
=============================================================================
