------------------------------ MODULE MCFreeWalk ------------------------------
(* A room of three tiles and one of two, with a door between them. *)
EXTENDS FreeWalk

RoomTiles == {<<1, 0, 0>>, <<1, 1, 0>>, <<1, 2, 0>>, <<2, 0, 0>>, <<2, 0, 1>>}
RoomDoors == (<< <<1, 0, 0>>, "up">> :> <<2, 0, 1>>)
             @@ (<< <<2, 0, 1>>, "down">> :> <<1, 0, 0>>)
RoomCommands ==
  {<<"up">>, <<"right">>, <<"right", "right">>, <<"down", "left">>, <<>>}
\* enough to walk on the three tiles and to be told of a wall between them
OneCommand == {<<"right">>}
=============================================================================
