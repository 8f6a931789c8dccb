------------------------------- MODULE Roads -------------------------------
(***************************************************************************)
(* The road geometry of a map and the walk of one dog along it: classes    *)
(* model::Road and model::Map (its two ordered road indexes) and           *)
(* GameSession::UpdateDogLocation.                                         *)
(*                                                                         *)
(* The config gives integer coordinates, the program walks in doubles.     *)
(* Here positions lie on a grid of Cell steps per unit of the config, on   *)
(* which every border of a road is a grid point; rounding of doubles is    *)
(* not modelled.  Y grows downwards: "D" increases y, "U" decreases it.    *)
(*                                                                         *)
(* A definition marked (fault) is no part of the model: it is the next one *)
(* with a mistake in it, that a property of the project tells from it.     *)
(***************************************************************************)
EXTENDS Integers, Sequences

CONSTANTS
  Cell,    \* grid steps per unit of the config's coordinates
  Width    \* Road::width (0.4 of a unit): from the axis of a road to its side

\* Two parallel roads one unit apart do not overlap: 0.4 + 0.4 < 1.
ASSUME GridAssumption ==
  /\ Cell \in Nat
  /\ Width \in Nat \ {0}
  /\ 2 * Width < Cell

Point == [x : Int, y : Int]

Origin == [x |-> 0, y |-> 0]

-----------------------------------------------------------------------------
(* A road: two points in config coordinates that share x or y.             *)

HorizontalRoad(start, endX) ==
  [start |-> start, end |-> [x |-> endX, y |-> start.y]]

VerticalRoad(start, endY) ==
  [start |-> start, end |-> [x |-> start.x, y |-> endY]]

RoadType ==
  {r \in [start : Point, end : Point] :
     r.start.x = r.end.x \/ r.start.y = r.end.y}

IsVertical(road) == road.start.x = road.end.x

\* Point::operator<, which is an order only on the two ends of one road.
PointLess(a, b) == a.x < b.x \/ a.y < b.y

\* The end with the smaller, the larger varying coordinate (Road::SetBorders).
Near(road) == IF PointLess(road.end, road.start) THEN road.end ELSE road.start
Far(road)  == IF PointLess(road.end, road.start) THEN road.start ELSE road.end

LowerBorder(road) ==
  [x |-> Cell * Near(road).x - Width, y |-> Cell * Near(road).y - Width]

UpperBorder(road) ==
  [x |-> Cell * Far(road).x + Width, y |-> Cell * Far(road).y + Width]

\* The rectangle of the road, its sides included.
Covers(road, p) ==
  /\ LowerBorder(road).x <= p.x /\ p.x <= UpperBorder(road).x
  /\ LowerBorder(road).y <= p.y /\ p.y <= UpperBorder(road).y

OnRoad(roads, p) == \E i \in DOMAIN roads : Covers(roads[i], p)

-----------------------------------------------------------------------------
(* The two std::set indexes of a Map.  AddRoad inserts the roads in config *)
(* order; a road whose upper corner a set already holds is not inserted.   *)

IndexedBefore(roads, i) ==
  \E j \in DOMAIN roads :
    /\ j < i
    /\ IsVertical(roads[j]) = IsVertical(roads[i])
    /\ UpperBorder(roads[j]) = UpperBorder(roads[i])

\* Map::AddRoad over the whole list: horizontal_roads_ and vertical_roads_.
HorizontalRoads(roads) ==
  {roads[i] : i \in {k \in DOMAIN roads :
                       ~IsVertical(roads[k]) /\ ~IndexedBefore(roads, k)}}

VerticalRoads(roads) ==
  {roads[i] : i \in {k \in DOMAIN roads :
                       IsVertical(roads[k]) /\ ~IndexedBefore(roads, k)}}

\* The two indexes of a map.
IndexOf(roads) ==
  [horizontal |-> HorizontalRoads(roads), vertical |-> VerticalRoads(roads)]

(* Comparator_horizontal: its order on roads and its two comparisons with  *)
(* a location.                                                             *)
RowOrder(q, r) ==
  \/ UpperBorder(q).y < UpperBorder(r).y
  \/ UpperBorder(q).y = UpperBorder(r).y /\ UpperBorder(q).x < UpperBorder(r).x

PointBeforeRow(p, r) ==
  /\ p.y <= UpperBorder(r).y
  /\ p.y < LowerBorder(r).y \/ p.x < LowerBorder(r).x

\* (fault) Comparator_horizontal leaves x out.
RowBeforePointYOnly(r, p) ==
  /\ LowerBorder(r).y <= p.y
  /\ UpperBorder(r).y < p.y

\* (fault) Comparator_horizontal does not ask whether the location is above the road.
RowBeforePointUnguarded(r, p) == UpperBorder(r).y < p.y \/ UpperBorder(r).x < p.x

RowBeforePoint(r, p) ==
  /\ LowerBorder(r).y <= p.y
  /\ UpperBorder(r).y < p.y \/ UpperBorder(r).x < p.x

(* Comparator_vertical.                                                    *)
ColumnOrder(q, r) ==
  \/ UpperBorder(q).x < UpperBorder(r).x
  \/ UpperBorder(q).x = UpperBorder(r).x /\ UpperBorder(q).y < UpperBorder(r).y

PointBeforeColumn(p, r) ==
  /\ p.x <= UpperBorder(r).x
  /\ p.y < LowerBorder(r).y \/ p.x < LowerBorder(r).x

ColumnBeforePoint(r, p) ==
  /\ LowerBorder(r).x <= p.x
  /\ UpperBorder(r).x < p.x \/ UpperBorder(r).y < p.y

(* Map::FindRoads.  std::set::find(p) takes the first road that is not     *)
(* before p and keeps it if p is not before it.  Each set below has at     *)
(* most one element; it is empty where the code returns nullopt.           *)
FindHorizontal(index, p) ==
  {r \in index.horizontal :
     /\ ~RowBeforePoint(r, p)
     /\ ~PointBeforeRow(p, r)
     /\ \A q \in index.horizontal : RowOrder(q, r) => RowBeforePoint(q, p)}

FindVertical(index, p) ==
  {r \in index.vertical :
     /\ ~ColumnBeforePoint(r, p)
     /\ ~PointBeforeColumn(p, r)
     /\ \A q \in index.vertical : ColumnOrder(q, r) => ColumnBeforePoint(q, p)}

-----------------------------------------------------------------------------
(* Dogs.  Directions are the letters of DogDirection; "S" is a dog told to *)
(* stop (the request's empty string).                                      *)

Directions == {"U", "D", "L", "R", "S"}

Still == [x |-> 0, y |-> 0]

\* (fault) Y taken to grow upwards.
SpeedTowardsFlipped(dir, standard) ==
  CASE dir = "U" -> [x |-> 0, y |-> standard]
    [] dir = "D" -> [x |-> 0, y |-> -standard]
    [] dir = "L" -> [x |-> -standard, y |-> 0]
    [] dir = "R" -> [x |-> standard, y |-> 0]
    [] dir = "S" -> Still

\* Dog::SetDirection: the speed a dog gets with a direction.
SpeedTowards(dir, standard) ==
  CASE dir = "U" -> [x |-> 0, y |-> -standard]
    [] dir = "D" -> [x |-> 0, y |-> standard]
    [] dir = "L" -> [x |-> -standard, y |-> 0]
    [] dir = "R" -> [x |-> standard, y |-> 0]
    [] dir = "S" -> Still

Abs(n) == IF n < 0 THEN -n ELSE n

\* (fault) No border.
WalkUntilFree(from, to, border) == to

\* Where a walk from `from` towards `to` ends when `border` is in the way.
WalkUntil(from, to, border) ==
  IF Abs(to - from) < Abs(border - from) THEN to ELSE border

\* (fault) The horizontal road first, whatever the heading.
LaneOfHorizontal(hor, vert, dir) ==
  LET lane == IF hor # {} THEN hor ELSE vert
  IN  CHOOSE r \in lane : TRUE

\* The road whose border stops a dog: the one along its heading, if it is on one.
LaneOf(hor, vert, dir) ==
  LET lane == IF dir \in {"U", "D"} THEN (IF vert # {} THEN vert ELSE hor)
                                    ELSE (IF hor # {} THEN hor ELSE vert)
  IN  CHOOSE r \in lane : TRUE

\* new_location of UpdateDogLocation: where the dog would get with nothing in the way.
Target(dog, time) ==
  [x |-> dog.loc.x + dog.speed.x * time, y |-> dog.loc.y + dog.speed.y * time]

\* The switch of UpdateDogLocation.  It has no case for "S", whose speed is zero.
Arrival(lane, dog, time) ==
  LET there == Target(dog, time)
  IN  CASE dog.dir = "D" ->
             [there EXCEPT !.y = WalkUntil(dog.loc.y, there.y, UpperBorder(lane).y)]
        [] dog.dir = "U" ->
             [there EXCEPT !.y = WalkUntil(dog.loc.y, there.y, LowerBorder(lane).y)]
        [] dog.dir = "L" ->
             [there EXCEPT !.x = WalkUntil(dog.loc.x, there.x, LowerBorder(lane).x)]
        [] dog.dir = "R" ->
             [there EXCEPT !.x = WalkUntil(dog.loc.x, there.x, UpperBorder(lane).x)]
        [] dog.dir = "S" -> dog.loc

\* (fault) The dog is not stopped.
WalkUnstopped(lane, dog, time) == [dog EXCEPT !.loc = Arrival(lane, dog, time)]

\* A dog walks along lane, and stops if it did not get where it was going.
Walk(lane, dog, time) ==
  LET arrival == Arrival(lane, dog, time)
  IN  [dog EXCEPT !.loc   = arrival,
                  !.speed = IF arrival = Target(dog, time) THEN @ ELSE Still]

\* GameSession::UpdateDogLocation: a dog on no road stays as it is.
UpdateDogLocation(index, dog, time) ==
  LET hor  == FindHorizontal(index, dog.loc)
      vert == FindVertical(index, dog.loc)
  IN  IF hor = {} /\ vert = {}
      THEN dog
      ELSE Walk(LaneOf(hor, vert, dog.dir), dog, time)

-----------------------------------------------------------------------------
(* What README.md calls a logical list of roads: every road has a length,  *)
(* and two roads of one orientation on one line share at most an end.      *)
WellFormed(roads) ==
  /\ \A i \in DOMAIN roads : roads[i].start # roads[i].end
  /\ \A i, j \in DOMAIN roads :
       i # j /\ IsVertical(roads[i]) = IsVertical(roads[j]) =>
         IF IsVertical(roads[i])
         THEN roads[i].start.x = roads[j].start.x =>
                \/ Far(roads[i]).y <= Near(roads[j]).y
                \/ Far(roads[j]).y <= Near(roads[i]).y
         ELSE roads[i].start.y = roads[j].start.y =>
                \/ Far(roads[i]).x <= Near(roads[j]).x
                \/ Far(roads[j]).x <= Near(roads[i]).x

\* No two roads of one orientation continue each other: (0,0)-(5,0), (5,0)-(9,0).
Unjointed(roads) ==
  \A i, j \in DOMAIN roads :
    i # j /\ IsVertical(roads[i]) = IsVertical(roads[j]) => Far(roads[i]) # Near(roads[j])
=============================================================================
