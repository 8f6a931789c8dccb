---------------------------- MODULE MCGameServer ----------------------------
(***************************************************************************)
(* Small configs for GameServer: a crossing, two roads that meet in a      *)
(* corner, and a street split in two at (1,0) where a lane leaves it.      *)
(***************************************************************************)
EXTENDS GameServer, TLC

P(x, y) == [x |-> x, y |-> y]

Crossing == <<HorizontalRoad(P(0, 0), 2), VerticalRoad(P(1, 1), -1)>>
Corner   == <<VerticalRoad(P(0, 1), 0), HorizontalRoad(P(1, 0), 0)>>
Split    == <<HorizontalRoad(P(0, 0), 1), HorizontalRoad(P(1, 0), 2),
              VerticalRoad(P(2, 0), 1), VerticalRoad(P(1, 0), -1)>>

MCRoads ==
  [m \in Maps |-> CASE m = "crossing" -> Crossing [] m = "corner" -> Corner [] m = "split" -> Split]

\* The corner has a speed of its own, the other maps take the game's.
MCSpeeds == [m \in Maps |-> IF m = "corner" THEN 9 ELSE -100]

MCBackward         == {-2, 1}

\* Tokens are told apart only by being equal or not.
Symmetry == Permutations(Tokens)
=============================================================================
