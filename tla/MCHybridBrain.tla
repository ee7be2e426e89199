---------------------------- MODULE MCHybridBrain ----------------------------
EXTENDS HybridBrain

Screen(c, p, t) == [ctx |-> c, pose |-> p, text |-> t]
MCFrames ==
  {Screen("overworld", "p", ""), Screen("overworld", "q", ""),
   Screen("dialog", "p", "A"), Screen("battle_text", "p", "B"),
   Screen("dialog", "p", ""), Screen("menu", "p", "A")}
MCWatched == <<<<"menu", "p">>, "a">>
=============================================================================
