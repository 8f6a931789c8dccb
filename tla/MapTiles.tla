------------------------------ MODULE MapTiles ------------------------------
(***************************************************************************)
(* How the page draws a map: gameLoadMap of game_map.js makes a grid of    *)
(* tiles of the roads, makeRoadTile of game.js chooses a texture and a     *)
(* turn for each.  Both work on whatever list of roads the server's        *)
(* RoadList can hold.  Buildings only widen the grid, and are left out.    *)
(*                                                                         *)
(* A definition marked (fault) is no part of the model: it is the next one *)
(* with a mistake in it, that a property below tells from the real one.    *)
(***************************************************************************)
EXTENDS RoadList, FiniteSets

Sides == {"u", "r", "d", "l"}

\* The tiles a road goes over.
Cells(road) == [x : Near(road).x .. Far(road).x, y : Near(road).y .. Far(road).y]

\* (fault) The last tile of a road is open, too.
SidesOfOpen(road, cell) ==
  IF IsVertical(road)
  THEN {side \in {"u", "d"} : side = "u" => cell.y # Near(road).y}
  ELSE {side \in {"l", "r"} : side = "l" => cell.x # Near(road).x}

\* The sides at which a road leaves one of its tiles: none at its two ends.
SidesOf(road, cell) ==
  IF IsVertical(road)
  THEN {side \in {"u", "d"} : cell.y # (IF side = "u" THEN Near(road).y ELSE Far(road).y)}
  ELSE {side \in {"l", "r"} : cell.x # (IF side = "l" THEN Near(road).x ELSE Far(road).x)}

\* map_tiles: the tiles with a road, each with the sides at which some road leaves it.
RoadCells == UNION {Cells(roads[i]) : i \in DOMAIN roads}

Tile(cell) ==
  UNION {SidesOf(roads[i], cell) : i \in {k \in DOMAIN roads : cell \in Cells(roads[k])}}

-----------------------------------------------------------------------------
(* The textures as they are drawn in assets/, and what a turn by 90 around *)
(* the vertical axis does to them: counter-clockwise, as seen from above.  *)

OpenSides ==
  [roadEdge |-> {}, t |-> {"u"}, v |-> {"u", "d"}, tr |-> {"u", "r"},
   nt |-> {"l", "r", "d"}, vh |-> Sides]

\* The sides counter-clockwise.
Turn == [u |-> 0, l |-> 1, d |-> 2, r |-> 3]

Rotated(sides, quarters) ==
  {side \in Sides : \E s \in sides : Turn[side] = (Turn[s] + quarters) % 4}

Top(texture, quarters) == [texture |-> texture, quarters |-> quarters]

\* (fault) The corners are counted clockwise.
MakeRoadTileClockwise(tile) ==
  CASE Cardinality(tile) = 0 -> Top("roadEdge", 0)
    [] Cardinality(tile) = 1 ->
         Top("t", CASE "u" \in tile -> 0 [] "r" \in tile -> 1 [] "d" \in tile -> 2 [] "l" \in tile -> 3)
    [] tile = {"r", "l"} -> Top("v", 1)
    [] tile = {"u", "d"} -> Top("v", 0)
    [] tile = {"r", "d"} -> Top("tr", 1)
    [] tile = {"d", "l"} -> Top("tr", 2)
    [] tile = {"l", "u"} -> Top("tr", 3)
    [] tile = {"u", "r"} -> Top("tr", 0)
    [] Cardinality(tile) = 3 ->
         Top("nt", CASE "u" \notin tile -> 0 [] "r" \notin tile -> 1
                     [] "d" \notin tile -> 2 [] "l" \notin tile -> 3)
    [] Cardinality(tile) = 4 -> Top("vh", 0)

\* makeRoadTile: the texture on top of a tile, and its quarter turns.
MakeRoadTile(tile) ==
  CASE Cardinality(tile) = 0 -> Top("roadEdge", 0)
    [] Cardinality(tile) = 1 ->
         Top("t", CASE "u" \in tile -> 0 [] "r" \in tile -> 1 [] "d" \in tile -> 2 [] "l" \in tile -> 3)
    [] tile = {"r", "l"} -> Top("v", 1)
    [] tile = {"u", "d"} -> Top("v", 0)
    [] tile = {"r", "d"} -> Top("tr", 3)
    [] tile = {"d", "l"} -> Top("tr", 2)
    [] tile = {"l", "u"} -> Top("tr", 1)
    [] tile = {"u", "r"} -> Top("tr", 0)
    [] Cardinality(tile) = 3 ->
         Top("nt", CASE "u" \notin tile -> 0 [] "r" \notin tile -> 1
                     [] "d" \notin tile -> 2 [] "l" \notin tile -> 3)
    [] Cardinality(tile) = 4 -> Top("vh", 0)

\* The sides at which a tile is drawn open.
Drawn(tile) ==
  LET top == MakeRoadTile(tile) IN Rotated(OpenSides[top.texture], top.quarters)

-----------------------------------------------------------------------------
(* Properties.                                                             *)

Beside(cell, side) ==
  CASE side = "u" -> [cell EXCEPT !.y = @ - 1]
    [] side = "d" -> [cell EXCEPT !.y = @ + 1]
    [] side = "l" -> [cell EXCEPT !.x = @ - 1]
    [] side = "r" -> [cell EXCEPT !.x = @ + 1]

Opposite(side) == CASE side = "u" -> "d" [] side = "d" -> "u" [] side = "l" -> "r" [] side = "r" -> "l"

\* No tile is open towards a place without road, or towards a tile that is not open
\* towards it: the ends and crossings of all the roads fit together.
TilesMeet ==
  \A cell \in RoadCells : \A side \in Tile(cell) :
    Beside(cell, side) \in RoadCells /\ Opposite(side) \in Tile(Beside(cell, side))

Heading == [u |-> "U", d |-> "D", l |-> "L", r |-> "R"]

Centre(cell) == [x |-> Cell * cell.x, y |-> Cell * cell.y]

\* A road along side ends in the middle of cell: where the tile is open all the same,
\* another road continues it there.
Ends(cell, side) ==
  /\ side \in {"d", "r"}
  /\ \E i \in DOMAIN roads : IsVertical(roads[i]) = (side = "d") /\ Far(roads[i]) = cell

\* Page and server agree on the map: a tile is open towards a side exactly if the server
\* lets a dog that stands in the middle of it walk to the middle of the next one there.
\* They disagree at one kind of place, the joint of a street split in two: it is drawn
\* open both ways, but FindRoads finds the road that ends there, and whose border stops
\* a dog that heads down or right.
OpenWhereDogsWalk ==
  \A cell \in RoadCells, side \in Sides :
    LET dir == Heading[side]
        dog == [loc |-> Centre(cell), dir |-> dir, speed |-> SpeedTowards(dir, 1)]
    IN  side \in Tile(cell) /\ ~Ends(cell, side) <=>
          UpdateDogLocation(index, dog, Cell).loc = Centre(Beside(cell, side))

\* One side to the left or right is open and the opposite is not, on a tile with an odd
\* number of open sides.
Sideways(tile) == Cardinality(tile) % 2 = 1 /\ ("l" \in tile) # ("r" \in tile)

Mirrored(tile) == {IF side \in {"l", "r"} THEN Opposite(side) ELSE side : side \in tile}

\* Tiles are drawn open where they are, but for the dead ends and junctions that face a
\* side: those the page draws mirrored.
TilesDrawn ==
  \A cell \in RoadCells :
    LET tile == Tile(cell)
    IN  Drawn(tile) = IF Sideways(tile) THEN Mirrored(tile) ELSE tile
=============================================================================
