----------------------------- MODULE MCGateWorld -----------------------------
EXTENDS GateWorld

CONSTANTS W, H
Grid == (0..W - 1) \X (0..H - 1)
MCFrames == {[ctx |-> "overworld", pose |-> c, text |-> NoText] : c \in Grid}
MCWatched == <<<<"overworld", <<0, 0>>>>, "a">>
MCMaps ==
  {m \in [floor : {F \in SUBSET Grid : Cardinality(F) >= W * H - 1},
          start : {<<0, 0>>}, gate : Grid, item : Grid, goal : Grid] :
     /\ {m.start, m.gate, m.item, m.goal} \subseteq m.floor
     /\ Cardinality({m.start, m.gate, m.item, m.goal}) = 4}
MCPredictions == {{}, Grid, {<<1, 0>>, <<1, 2>>}}
=============================================================================
