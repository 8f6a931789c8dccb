------------------------------ MODULE RoadList ------------------------------
(***************************************************************************)
(* A map taking in the roads of its config one by one (Map::AddRoads), and *)
(* what FindRoads and UpdateDogLocation compute on every list it can hold. *)
(***************************************************************************)
EXTENDS Roads

CONSTANTS
  Coords,     \* coordinates a config may use
  MaxRoads,   \* bound on the length of the list
  Paces,      \* speeds of a dog
  Times       \* durations of a tick, none negative

ASSUME ListAssumption ==
  /\ Coords \subseteq Int
  /\ MaxRoads \in Nat
  /\ Paces \subseteq Nat
  /\ Times \subseteq Nat

VARIABLES
  roads,   \* Map::roads_
  index    \* Map::horizontal_roads_ and Map::vertical_roads_

Init == roads = <<>> /\ index = [horizontal |-> {}, vertical |-> {}]

\* (fault) A comparator of one coordinate; as in Roads, not part of the model.
InsertIntoNoTie(set, road) ==
  IF \E q \in set : UpperBorder(q).y = UpperBorder(road).y THEN set ELSE set \cup {road}

\* set::insert leaves the set alone when it holds an equivalent road.
InsertInto(set, road) ==
  IF \E q \in set : UpperBorder(q) = UpperBorder(road) THEN set ELSE set \cup {road}

\* Map::AddRoad.
AddRoad(road) ==
  /\ roads' = Append(roads, road)
  /\ index' = IF IsVertical(road)
              THEN [index EXCEPT !.vertical = InsertInto(@, road)]
              ELSE [index EXCEPT !.horizontal = InsertInto(@, road)]

AddHorizontal ==
  \E x, y, endX \in Coords : AddRoad(HorizontalRoad([x |-> x, y |-> y], endX))

AddVertical ==
  \E x, y, endY \in Coords : AddRoad(VerticalRoad([x |-> x, y |-> y], endY))

\* Configs outside WellFormed are not explored.
Next ==
  /\ Len(roads) < MaxRoads
  /\ AddHorizontal \/ AddVertical
  /\ WellFormed(roads')

Spec == Init /\ [][Next]_<<roads, index>>

-----------------------------------------------------------------------------
(* Properties.                                                             *)

\* The coordinates that matter around a road: its axis, its borders and just outside.
Around == UNION {{Cell * c + d : d \in {-Width - 1, -Width, 0, Width, Width + 1}} : c \in Coords}
Points == [x : Around, y : Around]

\* A location is found on a road of an orientation exactly if one covers it, and on
\* one that covers it: neither index, ordered by upper borders only, loses a road.
FindExact ==
  \A p \in Points :
    LET hor  == FindHorizontal(index, p)
        vert == FindVertical(index, p)
        on(vertical) == {i \in DOMAIN roads : IsVertical(roads[i]) = vertical /\ Covers(roads[i], p)}
    IN  /\ \A r \in hor \cup vert : Covers(r, p)
        /\ hor # {} <=> on(FALSE) # {}
        /\ vert # {} <=> on(TRUE) # {}

\* What std::set::find with a location takes for granted, and the compiler cannot check:
\* the roads before a location come first in the set, those that it is before come last,
\* and none is both.  A descent of the tree then finds the road that FindRoads means,
\* whatever the tree's shape, although the comparators order roads by their upper corners
\* and locations by both.
IndexPartitioned ==
  \A p \in Points :
    /\ \A r \in index.horizontal :
         /\ ~(RowBeforePoint(r, p) /\ PointBeforeRow(p, r))
         /\ \A q \in index.horizontal : RowOrder(q, r) =>
              /\ RowBeforePoint(r, p) => RowBeforePoint(q, p)
              /\ PointBeforeRow(p, q) => PointBeforeRow(p, r)
    /\ \A r \in index.vertical :
         /\ ~(ColumnBeforePoint(r, p) /\ PointBeforeColumn(p, r))
         /\ \A q \in index.vertical : ColumnOrder(q, r) =>
              /\ ColumnBeforePoint(r, p) => ColumnBeforePoint(q, p)
              /\ PointBeforeColumn(p, q) => PointBeforeColumn(p, r)

\* One tick does to a dog what two ticks do that last as long together, so that the
\* ticker's period does not change where a dog gets: on every list for a dog that heads
\* down or right or stands, and for one that heads up or left where no road continues
\* another.  On a street split in two it does matter to the latter: the joint stops it
\* in a tick that goes over it, not after one that ended within it.
TickSplit ==
  \A p \in {q \in Points : OnRoad(roads, q)}, dir \in Directions, pace \in Paces :
    LET dog == [loc |-> p, dir |-> dir, speed |-> SpeedTowards(dir, pace)]
    IN  (dir \in {"U", "L"} => Unjointed(roads)) =>
          \A a, b \in Times :
            UpdateDogLocation(index, dog, a + b) =
              UpdateDogLocation(index, UpdateDogLocation(index, dog, a), b)
=============================================================================
