-------------------------- MODULE MCDoomDtcSession --------------------------
(* Instances of DoomDtcSession for TLC. *)
EXTENDS DoomDtcSession

CONSTANTS s1, s2    \* two pinned seeds

TwoSeeds == <<s1, s2>>
=============================================================================
