---------------------------- MODULE MCSkillRunner ----------------------------
EXTENDS SkillRunner

Step(held, n) == [held |-> held, frames |-> n]
Once(s) == [body |-> <<s>>, when |-> NoLoop, iters |-> 1]
Loop(body, kind, n, iters) ==
  [body |-> body, when |-> [kind |-> kind, n |-> n], iters |-> iters]
Press == Step(TRUE, 1)
Wait == Step(FALSE, 3)

MCCeiling == [arc |-> 4, kirby |-> 4, nds |-> 8]
MCCandidates ==
  {<<Once(Press)>>,
   <<Loop(<<Press, Press>>, "unchanged", 3, 2), Once(Press)>>,
   <<Loop(<<Press, Press>>, "region", 1, 2), Once(Press)>>,
   <<Loop(<<Press>>, "region", 1, 3), Loop(<<Press>>, "unchanged", 2, 2)>>,
   <<Loop(<<Press>>, "moved", 1, 2), Loop(<<Press>>, "elapsed", 2, 3)>>,
   <<Loop(<<Wait>>, "idle", 4, 2), Loop(<<Wait>>, "idle", 2, 2)>>,
   <<Loop(<<Press, Wait>>, "idle", 3, 3), Once(Press)>>,
   <<Loop(<<Wait, Press>>, "elapsed", 5, 2), Once(Wait)>>,
   <<Loop(<<Wait>>, "idle", 5, 3)>>}
=============================================================================
