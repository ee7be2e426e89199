-------------------------- MODULE MCMiniWobSession --------------------------
(* Instances of MiniWobSession for TLC. *)
EXTENDS MiniWobSession

CONSTANTS s1, s2, s3    \* three pinned seeds

ThreeSeeds == <<s1, s2, s3>>
=============================================================================
