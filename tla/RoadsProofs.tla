---------------------------- MODULE RoadsProofs ----------------------------
(***************************************************************************)
(* What holds of the road lookup and of the walk for every list of roads.  *)
(***************************************************************************)
EXTENDS Roads, TLAPS

\* Borders are points, the lower one left of and above the upper one.
LEMMA RoadBorders ==
  ASSUME NEW r \in RoadType
  PROVE  /\ Near(r) \in Point /\ Far(r) \in Point
         /\ LowerBorder(r) \in Point /\ UpperBorder(r) \in Point
         /\ Near(r).x <= Far(r).x /\ Near(r).y <= Far(r).y
         /\ LowerBorder(r).x <= UpperBorder(r).x
         /\ LowerBorder(r).y <= UpperBorder(r).y
<1>1. /\ Near(r) \in Point /\ Far(r) \in Point
      /\ Near(r).x <= Far(r).x /\ Near(r).y <= Far(r).y
  BY DEF RoadType, Point, Near, Far, PointLess
<1>2. Cell \in Nat /\ Width \in Nat
  BY GridAssumption
<1>3. \A a, b \in Int : a <= b => Cell * a <= Cell * b
  BY <1>2
<1>4. \A a \in Int : Cell * a \in Int
  BY <1>2
<1>5. /\ Cell * Near(r).x <= Cell * Far(r).x /\ Cell * Near(r).y <= Cell * Far(r).y
      /\ Cell * Near(r).x \in Int /\ Cell * Far(r).x \in Int
      /\ Cell * Near(r).y \in Int /\ Cell * Far(r).y \in Int
  BY <1>1, <1>3, <1>4 DEF Point
<1> QED
  BY <1>1, <1>2, <1>5 DEF Point, LowerBorder, UpperBorder

\* An index holds roads of the list only.
LEMMA IndexSound ==
  ASSUME NEW roads \in Seq(RoadType),
         NEW r \in IndexOf(roads).horizontal \cup IndexOf(roads).vertical
  PROVE  r \in RoadType /\ \E i \in DOMAIN roads : roads[i] = r
  BY DEF IndexOf, HorizontalRoads, VerticalRoads

\* A road that the lookup returns covers the location (Map::FindRoads).
LEMMA FoundCovers ==
  ASSUME NEW roads \in Seq(RoadType), NEW p \in Point,
         NEW r \in FindHorizontal(IndexOf(roads), p) \cup FindVertical(IndexOf(roads), p)
  PROVE  /\ r \in RoadType /\ Covers(r, p)
         /\ \E i \in DOMAIN roads : roads[i] = r
<1>1. r \in RoadType /\ \E i \in DOMAIN roads : roads[i] = r
  BY IndexSound DEF FindHorizontal, FindVertical
<1>2. /\ LowerBorder(r) \in Point /\ UpperBorder(r) \in Point
      /\ LowerBorder(r).x <= UpperBorder(r).x /\ LowerBorder(r).y <= UpperBorder(r).y
  BY <1>1, RoadBorders
<1>3. CASE r \in FindHorizontal(IndexOf(roads), p)
  <2>1. ~RowBeforePoint(r, p) /\ ~PointBeforeRow(p, r)
    BY <1>3 DEF FindHorizontal
  <2> QED
    BY <1>1, <1>2, <2>1 DEF RowBeforePoint, PointBeforeRow, Covers, Point
<1>4. CASE r \in FindVertical(IndexOf(roads), p)
  <2>1. ~ColumnBeforePoint(r, p) /\ ~PointBeforeColumn(p, r)
    BY <1>4 DEF FindVertical
  <2> QED
    BY <1>1, <1>2, <2>1 DEF ColumnBeforePoint, PointBeforeColumn, Covers, Point
<1> QED
  BY <1>3, <1>4

-----------------------------------------------------------------------------
(* The walk.                                                               *)

WalkerType == [loc : Point, dir : Directions, speed : Point, standard : Int]

\* A dog that stands still or runs the way it faces.
Walks(dog) ==
  /\ dog \in WalkerType
  /\ dog.standard >= 0
  /\ dog.speed \in {Still, SpeedTowards(dog.dir, dog.standard)}

\* In no time or more, such a dog's target is ahead of it (new_location).
LEMMA TargetAhead ==
  ASSUME NEW dog, Walks(dog), NEW time \in Nat
  PROVE  /\ Target(dog, time) \in Point
         /\ dog.dir = "D" => Target(dog, time).x = dog.loc.x /\ Target(dog, time).y >= dog.loc.y
         /\ dog.dir = "U" => Target(dog, time).x = dog.loc.x /\ Target(dog, time).y <= dog.loc.y
         /\ dog.dir = "R" => Target(dog, time).y = dog.loc.y /\ Target(dog, time).x >= dog.loc.x
         /\ dog.dir = "L" => Target(dog, time).y = dog.loc.y /\ Target(dog, time).x <= dog.loc.x
         /\ dog.dir = "S" => Target(dog, time) = dog.loc
<1> DEFINE far == dog.standard * time
<1>1. /\ dog.loc \in Point /\ dog.loc = [x |-> dog.loc.x, y |-> dog.loc.y]
      /\ dog.standard \in Nat /\ dog.dir \in Directions
  BY DEF Walks, WalkerType, Point
<1>2. far \in Nat /\ (-dog.standard) * time = -far /\ 0 * time = 0
  BY <1>1
<1>3. CASE dog.speed = Still
  BY <1>1, <1>2, <1>3 DEF Target, Still, Point
<1>4. CASE dog.speed = SpeedTowards(dog.dir, dog.standard)
  <2>1. CASE dog.dir = "D"
    BY <1>1, <1>2, <1>4, <2>1 DEF Target, SpeedTowards, Point
  <2>2. CASE dog.dir = "U"
    BY <1>1, <1>2, <1>4, <2>2 DEF Target, SpeedTowards, Point
  <2>3. CASE dog.dir = "R"
    BY <1>1, <1>2, <1>4, <2>3 DEF Target, SpeedTowards, Point
  <2>4. CASE dog.dir = "L"
    BY <1>1, <1>2, <1>4, <2>4 DEF Target, SpeedTowards, Point
  <2>5. CASE dog.dir = "S"
    BY <1>1, <1>2, <1>4, <2>5 DEF Target, SpeedTowards, Still, Point
  <2> QED
    BY <1>1, <2>1, <2>2, <2>3, <2>4, <2>5 DEF Directions
<1> QED
  BY <1>3, <1>4 DEF Walks

\* A walk along a road that covers the dog ends on that road.
LEMMA ArrivalCovered ==
  ASSUME NEW dog, Walks(dog), NEW time \in Nat,
         NEW lane \in RoadType, Covers(lane, dog.loc)
  PROVE  Arrival(lane, dog, time) \in Point /\ Covers(lane, Arrival(lane, dog, time))
<1> DEFINE there == Target(dog, time)
<1>1. /\ dog.loc \in Point /\ dog.dir \in Directions /\ there \in Point
      /\ LowerBorder(lane) \in Point /\ UpperBorder(lane) \in Point
  BY TargetAhead, RoadBorders DEF Walks, WalkerType
<1>2. CASE dog.dir = "D"
  BY <1>1, <1>2, TargetAhead DEF Arrival, WalkUntil, Abs, Covers, Point
<1>3. CASE dog.dir = "U"
  BY <1>1, <1>3, TargetAhead DEF Arrival, WalkUntil, Abs, Covers, Point
<1>4. CASE dog.dir = "R"
  BY <1>1, <1>4, TargetAhead DEF Arrival, WalkUntil, Abs, Covers, Point
<1>5. CASE dog.dir = "L"
  BY <1>1, <1>5, TargetAhead DEF Arrival, WalkUntil, Abs, Covers, Point
<1>6. CASE dog.dir = "S"
  BY <1>1, <1>6 DEF Arrival
<1> QED
  BY <1>1, <1>2, <1>3, <1>4, <1>5, <1>6 DEF Directions

\* LaneOf picks one of the roads it is given.
LEMMA LaneFound ==
  ASSUME NEW hor, NEW vert, NEW dir, hor # {} \/ vert # {}
  PROVE  LaneOf(hor, vert, dir) \in hor \cup vert
  BY DEF LaneOf

\* GameSession::UpdateDogLocation, for any time: a dog stays a dog, keeps its direction
\* and standard speed, and keeps its speed or stops.
THEOREM UpdateKeepsDog ==
  ASSUME NEW roads \in Seq(RoadType), NEW dog \in WalkerType, NEW time \in Int
  PROVE  LET moved == UpdateDogLocation(IndexOf(roads), dog, time)
         IN  /\ moved \in WalkerType
             /\ moved.dir = dog.dir /\ moved.standard = dog.standard
             /\ moved.speed \in {dog.speed, Still}
<1> DEFINE hor   == FindHorizontal(IndexOf(roads), dog.loc)
           vert  == FindVertical(IndexOf(roads), dog.loc)
           lane  == LaneOf(hor, vert, dog.dir)
           moved == UpdateDogLocation(IndexOf(roads), dog, time)
<1>1. CASE hor = {} /\ vert = {}
  BY <1>1 DEF UpdateDogLocation
<1>2. CASE hor # {} \/ vert # {}
  <2>1. dog.loc \in Point /\ dog.speed \in Point /\ dog.dir \in Directions
    BY DEF WalkerType
  <2>2. lane \in RoadType
    <3>1. lane \in hor \cup vert
      BY <1>2, LaneFound
    <3> HIDE DEF lane
    <3> QED BY <2>1, <3>1, FoundCovers
  <2>3. moved = Walk(lane, dog, time)
    BY <1>2 DEF UpdateDogLocation
  <2> HIDE DEF lane, moved
  <2> DEFINE arrival == Arrival(lane, dog, time)
             speed   == IF arrival = Target(dog, time) THEN dog.speed ELSE Still
             there   == Target(dog, time)
  <2>4. there \in Point
    BY <2>1 DEF Target, Point
  <2>5. LowerBorder(lane) \in Point /\ UpperBorder(lane) \in Point
    BY <2>2, RoadBorders
  <2>6. arrival \in Point
    <3> DEFINE east  == WalkUntil(dog.loc.x, there.x, UpperBorder(lane).x)
               west  == WalkUntil(dog.loc.x, there.x, LowerBorder(lane).x)
               south == WalkUntil(dog.loc.y, there.y, UpperBorder(lane).y)
               north == WalkUntil(dog.loc.y, there.y, LowerBorder(lane).y)
    <3>1. east \in Int /\ west \in Int /\ south \in Int /\ north \in Int
      <4>1. /\ there.x \in Int /\ there.y \in Int
            /\ LowerBorder(lane).x \in Int /\ LowerBorder(lane).y \in Int
            /\ UpperBorder(lane).x \in Int /\ UpperBorder(lane).y \in Int
        BY <2>4, <2>5 DEF Point
      <4> QED
        BY <4>1 DEF WalkUntil
    <3>2. arrival \in {dog.loc, [there EXCEPT !.x = east], [there EXCEPT !.x = west],
                       [there EXCEPT !.y = south], [there EXCEPT !.y = north]}
      BY <2>1, Zenon DEF Arrival, Directions
    <3> HIDE DEF arrival, there, east, west, south, north
    <3> QED
      BY <2>1, <2>4, <3>1, <3>2 DEF Point
  <2>7. moved = [dog EXCEPT !.loc = arrival, !.speed = speed]
    BY <2>3, Zenon DEF Walk
  <2>8. speed \in {dog.speed, Still} /\ Still \in Point
    BY DEF Still, Point
  <2> HIDE DEF arrival, speed
  <2> QED
    BY <2>1, <2>6, <2>7, <2>8 DEF WalkerType, moved
<1> QED
  BY <1>1, <1>2

\* GameSession::UpdateDogLocation keeps the dog's direction and standard speed, leaves
\* its speed or stops it, and takes it along one road.
THEOREM UpdateStaysOnOneRoad ==
  ASSUME NEW roads \in Seq(RoadType), NEW dog, Walks(dog), NEW time \in Nat,
         OnRoad(roads, dog.loc)
  PROVE  LET moved == UpdateDogLocation(IndexOf(roads), dog, time)
         IN  /\ Walks(moved)
             /\ moved.dir = dog.dir /\ moved.standard = dog.standard
             /\ \E i \in DOMAIN roads :
                  Covers(roads[i], dog.loc) /\ Covers(roads[i], moved.loc)
<1> DEFINE hor   == FindHorizontal(IndexOf(roads), dog.loc)
           vert  == FindVertical(IndexOf(roads), dog.loc)
           lane  == LaneOf(hor, vert, dog.dir)
           moved == UpdateDogLocation(IndexOf(roads), dog, time)
<1>1. Walks(moved) /\ moved.dir = dog.dir /\ moved.standard = dog.standard
  <2>1. dog \in WalkerType /\ time \in Int
    BY DEF Walks
  <2>2. /\ moved \in WalkerType /\ moved.dir = dog.dir /\ moved.standard = dog.standard
        /\ moved.speed \in {dog.speed, Still}
    BY <2>1, UpdateKeepsDog
  <2> HIDE DEF moved
  <2> QED
    BY <2>2 DEF Walks
<1>2. CASE hor = {} /\ vert = {}
  <2>1. moved = dog
    BY <1>2 DEF UpdateDogLocation
  <2> QED
    BY <1>1, <2>1 DEF OnRoad
<1>3. CASE hor # {} \/ vert # {}
  <2>1. dog \in WalkerType /\ dog.loc \in Point
    BY DEF Walks, WalkerType
  <2>2. lane \in hor \cup vert
    BY <1>3, LaneFound
  <2>3. lane \in RoadType /\ Covers(lane, dog.loc) /\ \E i \in DOMAIN roads : roads[i] = lane
    <3> HIDE DEF lane
    <3> QED BY <2>1, <2>2, FoundCovers
  <2>4. moved = Walk(lane, dog, time)
    BY <1>3 DEF UpdateDogLocation
  <2> HIDE DEF lane, moved
  <2>5. Arrival(lane, dog, time) \in Point /\ Covers(lane, Arrival(lane, dog, time))
    BY <2>3, ArrivalCovered
  <2>6. moved.loc = Arrival(lane, dog, time)
    BY <2>1, <2>4 DEF Walk, WalkerType
  <2> QED
    BY <1>1, <2>3, <2>5, <2>6 DEF moved
<1> QED
  BY <1>2, <1>3
-----------------------------------------------------------------------------
(* The lookup finds every road there is, on a well-formed list.            *)

\* Config coordinates that differ are further apart than two half-widths.
LEMMA Apart ==
  ASSUME NEW a \in Int, NEW b \in Int
  PROVE  /\ Cell * a \in Int /\ Cell * b \in Int
         /\ a <= b => Cell * a <= Cell * b
         /\ a < b => Cell * a + Width < Cell * b - Width
<1>1. Cell \in Nat /\ Width \in Nat /\ 2 * Width < Cell
  BY GridAssumption
<1>2. Cell * a \in Int /\ Cell * b \in Int /\ Cell * (a + 1) = Cell * a + Cell
  BY <1>1
<1>3. a <= b => Cell * a <= Cell * b
  BY <1>1
<1>4. a < b => Cell * (a + 1) <= Cell * b
  BY <1>1
<1> QED
  BY <1>1, <1>2, <1>3, <1>4

\* The upper borders of two roads are ordered as their coordinates are.
LEMMA Scale ==
  ASSUME NEW a \in Int, NEW b \in Int
  PROVE  /\ Cell * a + Width < Cell * b + Width => a < b
         /\ Cell * a + Width = Cell * b + Width => a = b
<1>1. /\ Cell * a \in Int /\ Cell * b \in Int /\ Width \in Nat
      /\ a < b => Cell * a + Width < Cell * b - Width
      /\ b < a => Cell * b + Width < Cell * a - Width
      /\ b <= a => Cell * b <= Cell * a
  BY Apart, GridAssumption
<1> DEFINE ca == Cell * a
           cb == Cell * b
<1>2. /\ ca \in Int /\ cb \in Int /\ Width \in Nat
      /\ a < b => ca + Width < cb - Width
      /\ b < a => cb + Width < ca - Width
      /\ b <= a => cb <= ca
  BY <1>1
<1> HIDE DEF ca, cb
<1>3. ca + Width < cb + Width => a < b
  BY <1>2
<1>4. ca + Width = cb + Width => a = b
  BY <1>2
<1> QED
  BY <1>3, <1>4 DEF ca, cb

\* A road with a length runs along one line, from Near to Far.
LEMMA RoadLine ==
  ASSUME NEW r \in RoadType, r.start # r.end
  PROVE  /\ IsVertical(r) => /\ Near(r).x = r.start.x /\ Far(r).x = r.start.x
                             /\ Near(r).y < Far(r).y
         /\ ~IsVertical(r) => /\ Near(r).y = r.start.y /\ Far(r).y = r.start.y
                              /\ Near(r).x < Far(r).x
<1>1. /\ r.start \in Point /\ r.end \in Point
      /\ r.start.x = r.end.x \/ r.start.y = r.end.y
  BY DEF RoadType
<1>2. r.start.x # r.end.x \/ r.start.y # r.end.y
  BY <1>1 DEF Point
<1> QED
  BY <1>1, <1>2 DEF IsVertical, Near, Far, PointLess, Point

\* Two roads of one orientation never share the corner their set is ordered by.
LEMMA CornersDiffer ==
  ASSUME NEW roads \in Seq(RoadType), WellFormed(roads),
         NEW i \in DOMAIN roads, NEW j \in DOMAIN roads, i # j,
         IsVertical(roads[j]) = IsVertical(roads[i])
  PROVE  UpperBorder(roads[j]) # UpperBorder(roads[i])
<1> SUFFICES ASSUME UpperBorder(roads[j]) = UpperBorder(roads[i])
             PROVE  FALSE
  OBVIOUS
<1>0. \A k \in DOMAIN roads : roads[k] \in RoadType /\ roads[k].start # roads[k].end
  BY DEF WellFormed
<1>1. /\ Far(roads[i]) \in Point /\ Far(roads[j]) \in Point
      /\ Near(roads[i]) \in Point /\ Near(roads[j]) \in Point
      /\ Width \in Nat
  BY <1>0, RoadBorders, GridAssumption
<1>2. Far(roads[i]).x = Far(roads[j]).x /\ Far(roads[i]).y = Far(roads[j]).y
  <2>1. /\ Cell * Far(roads[i]).x + Width = Cell * Far(roads[j]).x + Width
        /\ Cell * Far(roads[i]).y + Width = Cell * Far(roads[j]).y + Width
    BY DEF UpperBorder
  <2>2. \A a, b \in Int : Cell * a + Width = Cell * b + Width => a = b
    <3> SUFFICES ASSUME NEW a \in Int, NEW b \in Int, Cell * a + Width = Cell * b + Width
                 PROVE  a = b
      OBVIOUS
    <3> QED BY Apart, GridAssumption
  <2> QED
    BY <1>1, <2>1, <2>2 DEF Point
<1>3. CASE IsVertical(roads[i])
  <2>1. Near(roads[i]).y < Far(roads[i]).y /\ Near(roads[j]).y < Far(roads[j]).y
    BY <1>0, <1>3, RoadLine
  <2>2. roads[i].start.x = roads[j].start.x
    BY <1>0, <1>2, <1>3, RoadLine
  <2>3. Far(roads[i]).y <= Near(roads[j]).y \/ Far(roads[j]).y <= Near(roads[i]).y
    BY <1>3, <2>2 DEF WellFormed
  <2> QED
    BY <1>1, <1>2, <2>1, <2>3 DEF Point
<1>4. CASE ~IsVertical(roads[i])
  <2>1. Near(roads[i]).x < Far(roads[i]).x /\ Near(roads[j]).x < Far(roads[j]).x
    BY <1>0, <1>4, RoadLine
  <2>2. roads[i].start.y = roads[j].start.y
    BY <1>0, <1>2, <1>4, RoadLine
  <2>3. Far(roads[i]).x <= Near(roads[j]).x \/ Far(roads[j]).x <= Near(roads[i]).x
    BY <1>4, <2>2 DEF WellFormed
  <2> QED
    BY <1>1, <1>2, <2>1, <2>3 DEF Point
<1> QED
  BY <1>3, <1>4

\* Each road of the list is in the index of its orientation: none hides another.
LEMMA IndexComplete ==
  ASSUME NEW roads \in Seq(RoadType), WellFormed(roads), NEW i \in DOMAIN roads
  PROVE  /\ ~IndexedBefore(roads, i)
         /\ IsVertical(roads[i]) => roads[i] \in IndexOf(roads).vertical
         /\ ~IsVertical(roads[i]) => roads[i] \in IndexOf(roads).horizontal
<1>1. ~IndexedBefore(roads, i)
  <2> SUFFICES ASSUME NEW j \in DOMAIN roads, j < i,
                      IsVertical(roads[j]) = IsVertical(roads[i])
               PROVE  UpperBorder(roads[j]) # UpperBorder(roads[i])
    BY DEF IndexedBefore
  <2> QED
    BY CornersDiffer
<1> QED
  BY <1>1 DEF IndexOf, HorizontalRoads, VerticalRoads

\* Members of the index of horizontal roads: two on one line meet at most at an end.
LEMMA HorizontalMembers ==
  ASSUME NEW roads \in Seq(RoadType), WellFormed(roads),
         NEW r \in IndexOf(roads).horizontal
  PROVE  /\ r \in RoadType /\ ~IsVertical(r) /\ r.start # r.end
         /\ \A q \in IndexOf(roads).horizontal :
              q # r /\ q.start.y = r.start.y =>
                Far(q).x <= Near(r).x \/ Far(r).x <= Near(q).x
<1>1. \A q \in IndexOf(roads).horizontal :
        ~IsVertical(q) /\ \E i \in DOMAIN roads : roads[i] = q
  BY DEF IndexOf, HorizontalRoads
<1>2. PICK i \in DOMAIN roads : roads[i] = r
  BY <1>1
<1>3. r \in RoadType /\ ~IsVertical(r) /\ r.start # r.end
  BY <1>1, <1>2 DEF WellFormed
<1>4. ASSUME NEW q \in IndexOf(roads).horizontal, q # r, q.start.y = r.start.y
      PROVE  Far(q).x <= Near(r).x \/ Far(r).x <= Near(q).x
  <2>1. PICK j \in DOMAIN roads : roads[j] = q
    BY <1>1
  <2>2. ~IsVertical(q) /\ i # j /\ IsVertical(roads[j]) = IsVertical(roads[i])
    BY <1>1, <1>2, <1>3, <1>4, <2>1 DEF IsVertical
  <2> QED
    BY <1>2, <1>3, <1>4, <2>1, <2>2 DEF WellFormed
<1> QED
  BY <1>3, <1>4

\* The horizontal roads before one that covers a location are before the location, or
\* cover it too.
LEMMA HorizontalBefore ==
  ASSUME NEW roads \in Seq(RoadType), WellFormed(roads), NEW p \in Point,
         NEW r \in IndexOf(roads).horizontal, Covers(r, p),
         NEW q \in IndexOf(roads).horizontal, RowOrder(q, r)
  PROVE  /\ RowBeforePoint(q, p) \/ Covers(q, p)
         /\ Covers(q, p) => /\ q.start.y = r.start.y
                            /\ Far(q).x <= Near(r).x
<1>1. /\ r \in RoadType /\ ~IsVertical(r) /\ r.start # r.end
      /\ q \in RoadType /\ ~IsVertical(q) /\ q.start # q.end
  BY HorizontalMembers
<1>2. /\ Near(r) \in Point /\ Far(r) \in Point /\ Near(q) \in Point /\ Far(q) \in Point
      /\ LowerBorder(r) \in Point /\ UpperBorder(r) \in Point
      /\ LowerBorder(q) \in Point /\ UpperBorder(q) \in Point
      /\ LowerBorder(q).y <= UpperBorder(q).y
      /\ Width \in Nat /\ Cell \in Nat
  BY <1>1, RoadBorders, GridAssumption
<1>3. /\ Near(r).y = r.start.y /\ Far(r).y = r.start.y /\ Near(r).x < Far(r).x
      /\ Near(q).y = q.start.y /\ Far(q).y = q.start.y /\ Near(q).x < Far(q).x
  BY <1>1, RoadLine
<1>4. /\ r.start.y \in Int /\ q.start.y \in Int
      /\ Far(q).x \in Int /\ Far(r).x \in Int /\ Near(q).x \in Int /\ Near(r).x \in Int
  BY <1>2, <1>3 DEF Point
<1>5. /\ UpperBorder(q).y = Cell * q.start.y + Width
      /\ UpperBorder(r).y = Cell * r.start.y + Width
      /\ LowerBorder(q).y = Cell * q.start.y - Width
      /\ LowerBorder(r).y = Cell * r.start.y - Width
      /\ UpperBorder(q).x = Cell * Far(q).x + Width
      /\ UpperBorder(r).x = Cell * Far(r).x + Width
      /\ LowerBorder(q).x = Cell * Near(q).x - Width
      /\ LowerBorder(r).x = Cell * Near(r).x - Width
  BY <1>3 DEF UpperBorder, LowerBorder
<1>6. /\ LowerBorder(r).x <= p.x /\ LowerBorder(r).y <= p.y
      /\ p.y <= UpperBorder(r).y
      /\ p.x \in Int /\ p.y \in Int
      /\ LowerBorder(q).x \in Int /\ LowerBorder(q).y \in Int
      /\ UpperBorder(q).x \in Int /\ UpperBorder(q).y \in Int
      /\ LowerBorder(r).x \in Int /\ LowerBorder(r).y \in Int
      /\ LowerBorder(q).y <= UpperBorder(q).y
  <2>1. p \in Point /\ Covers(r, p)
    OBVIOUS
  <2>2. p.x \in Int /\ p.y \in Int
    BY <2>1 DEF Point
  <2>3. \A l \in Point : l.x \in Int /\ l.y \in Int
    BY DEF Point
  <2> QED
    BY <1>2, <2>1, <2>2, <2>3 DEF Covers
<1>7. CASE UpperBorder(q).y < UpperBorder(r).y
  <2>1. q.start.y < r.start.y
    BY <1>4, <1>5, <1>7, Scale
  <2>2. UpperBorder(q).y < LowerBorder(r).y
    BY <1>4, <1>5, <2>1, Apart
  <2>3. LowerBorder(q).y <= p.y /\ UpperBorder(q).y < p.y
    BY <1>6, <2>2
  <2>4. RowBeforePoint(q, p)
    BY <2>3 DEF RowBeforePoint
  <2>5. ~(p.y <= UpperBorder(q).y)
    BY <1>6, <2>3
  <2>6. ~Covers(q, p)
    BY <2>5 DEF Covers
  <2> QED
    BY <2>4, <2>6
<1>8. CASE UpperBorder(q).y = UpperBorder(r).y /\ UpperBorder(q).x < UpperBorder(r).x
  <2>1. Far(q).x < Far(r).x
    BY <1>4, <1>5, <1>8, Scale
  <2>2. q.start.y = r.start.y
    BY <1>4, <1>5, <1>8, Scale
  <2>3. Far(q).x <= Near(r).x
    BY <1>3, <1>4, <2>1, <2>2, HorizontalMembers
  <2>4. LowerBorder(q).x <= LowerBorder(r).x
    <3>1. Near(q).x <= Near(r).x
      BY <1>3, <1>4, <2>3
    <3> QED
      BY <1>2, <1>4, <1>5, <3>1, Apart
  <2>5. LowerBorder(q).y = LowerBorder(r).y /\ UpperBorder(q).y = UpperBorder(r).y
    BY <1>5, <2>2
  <2>6. LowerBorder(q).y <= p.y /\ p.y <= UpperBorder(q).y
    BY <1>6, <2>5
  <2>7. LowerBorder(q).x <= p.x
    BY <1>6, <2>4
  <2>8. UpperBorder(q).x < p.x \/ p.x <= UpperBorder(q).x
    BY <1>6
  <2>9. RowBeforePoint(q, p) \/ Covers(q, p)
    BY <2>6, <2>7, <2>8 DEF Covers, RowBeforePoint
  <2> QED
    BY <2>2, <2>3, <2>9
<1> QED
  BY <1>7, <1>8 DEF RowOrder

\* Where a horizontal road of the list covers a location, the lookup finds one.
LEMMA FindHorizontalComplete ==
  ASSUME NEW roads \in Seq(RoadType), WellFormed(roads), NEW p \in Point,
         NEW r \in IndexOf(roads).horizontal, Covers(r, p)
  PROVE  FindHorizontal(IndexOf(roads), p) # {}
<1> DEFINE index == IndexOf(roads).horizontal
<1>1. ASSUME NEW s \in index, Covers(s, p),
             \A q \in index : RowOrder(q, s) => ~Covers(q, p)
      PROVE  s \in FindHorizontal(IndexOf(roads), p)
  <2>1. \A q \in index : RowOrder(q, s) => RowBeforePoint(q, p)
    BY <1>1, HorizontalBefore
  <2>2. LowerBorder(s) \in Point /\ UpperBorder(s) \in Point
    BY <1>1, HorizontalMembers, RoadBorders
  <2>3. ~RowBeforePoint(s, p) /\ ~PointBeforeRow(p, s)
    BY <1>1, <2>2 DEF Covers, RowBeforePoint, PointBeforeRow, Point
  <2> QED
    BY <2>1, <2>3 DEF FindHorizontal
<1>2. CASE \A q \in index : RowOrder(q, r) => ~Covers(q, p)
  BY <1>1, <1>2
<1>3. CASE \E q \in index : RowOrder(q, r) /\ Covers(q, p)
  <2>1. PICK q \in index : RowOrder(q, r) /\ Covers(q, p)
    BY <1>3
  <2>2. ASSUME NEW s \in index, RowOrder(s, q), Covers(s, p)
        PROVE  FALSE
    <3>1. /\ Far(s).x <= Near(q).x /\ Far(q).x <= Near(r).x
      BY <2>1, <2>2, HorizontalBefore
    <3>2. /\ Near(q) \in Point /\ Far(q) \in Point /\ Near(r) \in Point /\ Far(s) \in Point
          /\ Near(q).x < Far(q).x
          /\ UpperBorder(s) \in Point /\ LowerBorder(r) \in Point
      <4>1. q \in RoadType /\ ~IsVertical(q) /\ q.start # q.end /\ r \in RoadType /\ s \in RoadType
        BY <2>1, <2>2, HorizontalMembers
      <4> QED
        BY <4>1, RoadBorders, RoadLine
    <3>3. Far(s).x < Near(r).x /\ Far(s).x \in Int /\ Near(r).x \in Int
      BY <3>1, <3>2 DEF Point
    <3>4. UpperBorder(s).x < LowerBorder(r).x
      BY <3>3, Apart DEF UpperBorder, LowerBorder
    <3> QED
      BY <2>2, <3>2, <3>4 DEF Covers, Point
  <2> QED
    BY <1>1, <2>1, <2>2
<1> QED
  BY <1>2, <1>3

\* Members of the index of vertical roads: two on one line meet at most at an end.
LEMMA VerticalMembers ==
  ASSUME NEW roads \in Seq(RoadType), WellFormed(roads),
         NEW r \in IndexOf(roads).vertical
  PROVE  /\ r \in RoadType /\ IsVertical(r) /\ r.start # r.end
         /\ \A q \in IndexOf(roads).vertical :
              q # r /\ q.start.x = r.start.x =>
                Far(q).y <= Near(r).y \/ Far(r).y <= Near(q).y
<1>1. \A q \in IndexOf(roads).vertical :
        IsVertical(q) /\ \E i \in DOMAIN roads : roads[i] = q
  BY DEF IndexOf, VerticalRoads
<1>2. PICK i \in DOMAIN roads : roads[i] = r
  BY <1>1
<1>3. r \in RoadType /\ IsVertical(r) /\ r.start # r.end
  BY <1>1, <1>2 DEF WellFormed
<1>4. ASSUME NEW q \in IndexOf(roads).vertical, q # r, q.start.x = r.start.x
      PROVE  Far(q).y <= Near(r).y \/ Far(r).y <= Near(q).y
  <2>1. PICK j \in DOMAIN roads : roads[j] = q
    BY <1>1
  <2>2. IsVertical(q) /\ i # j /\ IsVertical(roads[j]) = IsVertical(roads[i])
    BY <1>1, <1>2, <1>3, <1>4, <2>1 DEF IsVertical
  <2> QED
    BY <1>2, <1>3, <1>4, <2>1, <2>2 DEF WellFormed
<1> QED
  BY <1>3, <1>4

\* The vertical roads before one that covers a location are before the location, or
\* cover it too.
LEMMA VerticalBefore ==
  ASSUME NEW roads \in Seq(RoadType), WellFormed(roads), NEW p \in Point,
         NEW r \in IndexOf(roads).vertical, Covers(r, p),
         NEW q \in IndexOf(roads).vertical, ColumnOrder(q, r)
  PROVE  /\ ColumnBeforePoint(q, p) \/ Covers(q, p)
         /\ Covers(q, p) => /\ q.start.x = r.start.x
                            /\ Far(q).y <= Near(r).y
<1>1. /\ r \in RoadType /\ IsVertical(r) /\ r.start # r.end
      /\ q \in RoadType /\ IsVertical(q) /\ q.start # q.end
  BY VerticalMembers
<1>2. /\ Near(r) \in Point /\ Far(r) \in Point /\ Near(q) \in Point /\ Far(q) \in Point
      /\ LowerBorder(r) \in Point /\ UpperBorder(r) \in Point
      /\ LowerBorder(q) \in Point /\ UpperBorder(q) \in Point
      /\ LowerBorder(q).x <= UpperBorder(q).x
      /\ Width \in Nat /\ Cell \in Nat
  BY <1>1, RoadBorders, GridAssumption
<1>3. /\ Near(r).x = r.start.x /\ Far(r).x = r.start.x /\ Near(r).y < Far(r).y
      /\ Near(q).x = q.start.x /\ Far(q).x = q.start.x /\ Near(q).y < Far(q).y
  BY <1>1, RoadLine
<1>4. /\ r.start.x \in Int /\ q.start.x \in Int
      /\ Far(q).y \in Int /\ Far(r).y \in Int /\ Near(q).y \in Int /\ Near(r).y \in Int
  BY <1>2, <1>3 DEF Point
<1>5. /\ UpperBorder(q).x = Cell * q.start.x + Width
      /\ UpperBorder(r).x = Cell * r.start.x + Width
      /\ LowerBorder(q).x = Cell * q.start.x - Width
      /\ LowerBorder(r).x = Cell * r.start.x - Width
      /\ UpperBorder(q).y = Cell * Far(q).y + Width
      /\ UpperBorder(r).y = Cell * Far(r).y + Width
      /\ LowerBorder(q).y = Cell * Near(q).y - Width
      /\ LowerBorder(r).y = Cell * Near(r).y - Width
  BY <1>3 DEF UpperBorder, LowerBorder
<1>6. /\ LowerBorder(r).x <= p.x /\ LowerBorder(r).y <= p.y
      /\ p.x <= UpperBorder(r).x
      /\ p.x \in Int /\ p.y \in Int
      /\ LowerBorder(q).x \in Int /\ LowerBorder(q).y \in Int
      /\ UpperBorder(q).x \in Int /\ UpperBorder(q).y \in Int
      /\ LowerBorder(r).x \in Int /\ LowerBorder(r).y \in Int
      /\ LowerBorder(q).x <= UpperBorder(q).x
  <2>1. p \in Point /\ Covers(r, p)
    OBVIOUS
  <2>2. p.x \in Int /\ p.y \in Int
    BY <2>1 DEF Point
  <2>3. \A l \in Point : l.x \in Int /\ l.y \in Int
    BY DEF Point
  <2> QED
    BY <1>2, <2>1, <2>2, <2>3 DEF Covers
<1>7. CASE UpperBorder(q).x < UpperBorder(r).x
  <2>1. q.start.x < r.start.x
    BY <1>4, <1>5, <1>7, Scale
  <2>2. UpperBorder(q).x < LowerBorder(r).x
    BY <1>4, <1>5, <2>1, Apart
  <2>3. LowerBorder(q).x <= p.x /\ UpperBorder(q).x < p.x
    BY <1>6, <2>2
  <2>4. ColumnBeforePoint(q, p)
    BY <2>3 DEF ColumnBeforePoint
  <2>5. ~(p.x <= UpperBorder(q).x)
    BY <1>6, <2>3
  <2>6. ~Covers(q, p)
    BY <2>5 DEF Covers
  <2> QED
    BY <2>4, <2>6
<1>8. CASE UpperBorder(q).x = UpperBorder(r).x /\ UpperBorder(q).y < UpperBorder(r).y
  <2>1. Far(q).y < Far(r).y
    BY <1>4, <1>5, <1>8, Scale
  <2>2. q.start.x = r.start.x
    BY <1>4, <1>5, <1>8, Scale
  <2>3. Far(q).y <= Near(r).y
    BY <1>3, <1>4, <2>1, <2>2, VerticalMembers
  <2>4. LowerBorder(q).y <= LowerBorder(r).y
    <3>1. Near(q).y <= Near(r).y
      BY <1>3, <1>4, <2>3
    <3> QED
      BY <1>2, <1>4, <1>5, <3>1, Apart
  <2>5. LowerBorder(q).x = LowerBorder(r).x /\ UpperBorder(q).x = UpperBorder(r).x
    BY <1>5, <2>2
  <2>6. LowerBorder(q).x <= p.x /\ p.x <= UpperBorder(q).x
    BY <1>6, <2>5
  <2>7. LowerBorder(q).y <= p.y
    BY <1>6, <2>4
  <2>8. UpperBorder(q).y < p.y \/ p.y <= UpperBorder(q).y
    BY <1>6
  <2>9. ColumnBeforePoint(q, p) \/ Covers(q, p)
    BY <2>6, <2>7, <2>8 DEF Covers, ColumnBeforePoint
  <2> QED
    BY <2>2, <2>3, <2>9
<1> QED
  BY <1>7, <1>8 DEF ColumnOrder

\* Where a vertical road of the list covers a location, the lookup finds one.
LEMMA FindVerticalComplete ==
  ASSUME NEW roads \in Seq(RoadType), WellFormed(roads), NEW p \in Point,
         NEW r \in IndexOf(roads).vertical, Covers(r, p)
  PROVE  FindVertical(IndexOf(roads), p) # {}
<1> DEFINE index == IndexOf(roads).vertical
<1>1. ASSUME NEW s \in index, Covers(s, p),
             \A q \in index : ColumnOrder(q, s) => ~Covers(q, p)
      PROVE  s \in FindVertical(IndexOf(roads), p)
  <2>1. \A q \in index : ColumnOrder(q, s) => ColumnBeforePoint(q, p)
    BY <1>1, VerticalBefore
  <2>2. LowerBorder(s) \in Point /\ UpperBorder(s) \in Point
    BY <1>1, VerticalMembers, RoadBorders
  <2>3. ~ColumnBeforePoint(s, p) /\ ~PointBeforeColumn(p, s)
    BY <1>1, <2>2 DEF Covers, ColumnBeforePoint, PointBeforeColumn, Point
  <2> QED
    BY <2>1, <2>3 DEF FindVertical
<1>2. CASE \A q \in index : ColumnOrder(q, r) => ~Covers(q, p)
  BY <1>1, <1>2
<1>3. CASE \E q \in index : ColumnOrder(q, r) /\ Covers(q, p)
  <2>1. PICK q \in index : ColumnOrder(q, r) /\ Covers(q, p)
    BY <1>3
  <2>2. ASSUME NEW s \in index, ColumnOrder(s, q), Covers(s, p)
        PROVE  FALSE
    <3>1. /\ Far(s).y <= Near(q).y /\ Far(q).y <= Near(r).y
      BY <2>1, <2>2, VerticalBefore
    <3>2. /\ Near(q) \in Point /\ Far(q) \in Point /\ Near(r) \in Point /\ Far(s) \in Point
          /\ Near(q).y < Far(q).y
          /\ UpperBorder(s) \in Point /\ LowerBorder(r) \in Point
      <4>1. q \in RoadType /\ IsVertical(q) /\ q.start # q.end /\ r \in RoadType /\ s \in RoadType
        BY <2>1, <2>2, VerticalMembers
      <4> QED
        BY <4>1, RoadBorders, RoadLine
    <3>3. Far(s).y < Near(r).y /\ Far(s).y \in Int /\ Near(r).y \in Int
      BY <3>1, <3>2 DEF Point
    <3>4. UpperBorder(s).y < LowerBorder(r).y
      BY <3>3, Apart DEF UpperBorder, LowerBorder
    <3> QED
      BY <2>2, <3>2, <3>4 DEF Covers, Point
  <2> QED
    BY <1>1, <2>1, <2>2
<1> QED
  BY <1>2, <1>3
\* Map::FindRoads finds a road of an orientation exactly where one covers the location.
THEOREM LookupExact ==
  ASSUME NEW roads \in Seq(RoadType), WellFormed(roads), NEW p \in Point
  PROVE  LET hor  == FindHorizontal(IndexOf(roads), p)
             vert == FindVertical(IndexOf(roads), p)
         IN  /\ \A r \in hor \cup vert : Covers(r, p)
             /\ hor # {} <=> \E i \in DOMAIN roads : ~IsVertical(roads[i]) /\ Covers(roads[i], p)
             /\ vert # {} <=> \E i \in DOMAIN roads : IsVertical(roads[i]) /\ Covers(roads[i], p)
<1> DEFINE hor  == FindHorizontal(IndexOf(roads), p)
           vert == FindVertical(IndexOf(roads), p)
<1>1. \A r \in hor \cup vert : Covers(r, p) /\ \E i \in DOMAIN roads : roads[i] = r
  BY FoundCovers
<1>2. \A r \in hor : ~IsVertical(r)
  BY HorizontalMembers DEF FindHorizontal
<1>3. \A r \in vert : IsVertical(r)
  BY VerticalMembers DEF FindVertical
<1>4. ASSUME NEW i \in DOMAIN roads, ~IsVertical(roads[i]), Covers(roads[i], p)
      PROVE  hor # {}
  BY <1>4, IndexComplete, FindHorizontalComplete
<1>5. ASSUME NEW i \in DOMAIN roads, IsVertical(roads[i]), Covers(roads[i], p)
      PROVE  vert # {}
  BY <1>5, IndexComplete, FindVerticalComplete
<1> QED
  BY <1>1, <1>2, <1>3, <1>4, <1>5

-----------------------------------------------------------------------------
(* The end of a road: where roads are not split in two, none leads on from *)
(* there.                                                                  *)

\* Two vertical roads of a list on one line: neither runs past an end of the other.
LEMMA ColumnEnds ==
  ASSUME NEW roads \in Seq(RoadType), WellFormed(roads), Unjointed(roads),
         NEW i \in DOMAIN roads, NEW j \in DOMAIN roads,
         IsVertical(roads[i]), IsVertical(roads[j]), roads[i].start.x = roads[j].start.x
  PROVE  /\ ~ (Near(roads[i]).y <= Far(roads[j]).y /\ Far(roads[j]).y < Far(roads[i]).y)
         /\ ~ (Near(roads[i]).y < Near(roads[j]).y /\ Near(roads[j]).y <= Far(roads[i]).y)
<1>1. /\ roads[i] \in RoadType /\ roads[i].start # roads[i].end
      /\ roads[j] \in RoadType /\ roads[j].start # roads[j].end
  BY DEF WellFormed
<1>2. /\ Near(roads[i]) \in Point /\ Far(roads[i]) \in Point
      /\ Near(roads[j]) \in Point /\ Far(roads[j]) \in Point
  BY <1>1, RoadBorders
<1>3. /\ Near(roads[i]).x = Far(roads[j]).x /\ Far(roads[i]).x = Near(roads[j]).x
      /\ Near(roads[i]).y < Far(roads[i]).y /\ Near(roads[j]).y < Far(roads[j]).y
  BY <1>1, RoadLine
<1>4. CASE i = j
  BY <1>2, <1>3, <1>4 DEF Point
<1>5. CASE i # j
  <2>1. Far(roads[i]).y <= Near(roads[j]).y \/ Far(roads[j]).y <= Near(roads[i]).y
    BY <1>5 DEF WellFormed
  <2>2. Far(roads[i]) # Near(roads[j]) /\ Far(roads[j]) # Near(roads[i])
    BY <1>5 DEF Unjointed
  <2>3. Far(roads[i]).y # Near(roads[j]).y /\ Far(roads[j]).y # Near(roads[i]).y
    BY <1>2, <1>3, <2>2 DEF Point
  <2> QED
    BY <1>2, <1>3, <2>1, <2>3 DEF Point
<1> QED
  BY <1>4, <1>5

\* Two horizontal roads of a list on one line: neither runs past an end of the other.
LEMMA RowEnds ==
  ASSUME NEW roads \in Seq(RoadType), WellFormed(roads), Unjointed(roads),
         NEW i \in DOMAIN roads, NEW j \in DOMAIN roads,
         ~IsVertical(roads[i]), ~IsVertical(roads[j]), roads[i].start.y = roads[j].start.y
  PROVE  /\ ~ (Near(roads[i]).x <= Far(roads[j]).x /\ Far(roads[j]).x < Far(roads[i]).x)
         /\ ~ (Near(roads[i]).x < Near(roads[j]).x /\ Near(roads[j]).x <= Far(roads[i]).x)
<1>1. /\ roads[i] \in RoadType /\ roads[i].start # roads[i].end
      /\ roads[j] \in RoadType /\ roads[j].start # roads[j].end
  BY DEF WellFormed
<1>2. /\ Near(roads[i]) \in Point /\ Far(roads[i]) \in Point
      /\ Near(roads[j]) \in Point /\ Far(roads[j]) \in Point
  BY <1>1, RoadBorders
<1>3. /\ Near(roads[i]).y = Far(roads[j]).y /\ Far(roads[i]).y = Near(roads[j]).y
      /\ Near(roads[i]).x < Far(roads[i]).x /\ Near(roads[j]).x < Far(roads[j]).x
  BY <1>1, RoadLine
<1>4. CASE i = j
  BY <1>2, <1>3, <1>4 DEF Point
<1>5. CASE i # j
  <2>0. IsVertical(roads[i]) = IsVertical(roads[j])
    BY DEF IsVertical
  <2>1. Far(roads[i]).x <= Near(roads[j]).x \/ Far(roads[j]).x <= Near(roads[i]).x
    BY <1>5, <2>0 DEF WellFormed
  <2>2. Far(roads[i]) # Near(roads[j]) /\ Far(roads[j]) # Near(roads[i])
    BY <1>5, <2>0 DEF Unjointed
  <2>3. Far(roads[i]).x # Near(roads[j]).x /\ Far(roads[j]).x # Near(roads[i]).x
    BY <1>2, <1>3, <2>2 DEF Point
  <2> QED
    BY <1>2, <1>3, <2>1, <2>3 DEF Point
<1> QED
  BY <1>4, <1>5

\* What the borders of two roads say of their coordinates.
LEMMA Borders ==
  ASSUME NEW a \in Int, NEW b \in Int
  PROVE  /\ a <= b => /\ Cell * a - Width <= Cell * b - Width
                      /\ Cell * a + Width <= Cell * b + Width
         /\ Cell * a - Width <= Cell * b + Width => a <= b
         /\ Cell * a + Width < Cell * b + Width => a < b
         /\ Cell * a - Width < Cell * b - Width => a < b
<1> DEFINE ca == Cell * a
           cb == Cell * b
<1>1. /\ ca \in Int /\ cb \in Int /\ Width \in Nat
      /\ b < a => cb + Width < ca - Width
      /\ b <= a => cb <= ca
      /\ a <= b => ca <= cb
  BY Apart, GridAssumption
<1> HIDE DEF ca, cb
<1>2. /\ a <= b => ca - Width <= cb - Width /\ ca + Width <= cb + Width
      /\ ca - Width <= cb + Width => a <= b
      /\ ca + Width < cb + Width => a < b
      /\ ca - Width < cb - Width => a < b
  BY <1>1
<1> QED
  BY <1>2 DEF ca, cb

\* The corners of a road in numbers.
LEMMA Corners ==
  ASSUME NEW r \in RoadType
  PROVE  /\ Near(r).x \in Int /\ Near(r).y \in Int /\ Far(r).x \in Int /\ Far(r).y \in Int
         /\ LowerBorder(r).x = Cell * Near(r).x - Width /\ LowerBorder(r).x \in Int
         /\ LowerBorder(r).y = Cell * Near(r).y - Width /\ LowerBorder(r).y \in Int
         /\ UpperBorder(r).x = Cell * Far(r).x + Width /\ UpperBorder(r).x \in Int
         /\ UpperBorder(r).y = Cell * Far(r).y + Width /\ UpperBorder(r).y \in Int
<1>1. /\ Near(r) \in Point /\ Far(r) \in Point
      /\ LowerBorder(r) \in Point /\ UpperBorder(r) \in Point
  BY RoadBorders
<1> QED
  BY <1>1 DEF Point, LowerBorder, UpperBorder

\* A dog at p that faces up or down and walks along road j to its end: no road leads on.
LEMMA NoColumnOnward ==
  ASSUME NEW roads \in Seq(RoadType), WellFormed(roads), Unjointed(roads),
         NEW i \in DOMAIN roads, NEW j \in DOMAIN roads,
         NEW p \in Point, Covers(roads[j], p),
         \/ IsVertical(roads[j])
         \/ \A k \in DOMAIN roads : Covers(roads[k], p) => ~IsVertical(roads[k])
  PROVE  /\ ~ /\ Covers(roads[i], [x |-> p.x, y |-> UpperBorder(roads[j]).y])
              /\ Covers(roads[i], [x |-> p.x, y |-> UpperBorder(roads[j]).y + 1])
         /\ ~ /\ Covers(roads[i], [x |-> p.x, y |-> LowerBorder(roads[j]).y])
              /\ Covers(roads[i], [x |-> p.x, y |-> LowerBorder(roads[j]).y - 1])
<1> DEFINE r    == roads[i]
           lane == roads[j]
           past == \/ /\ Near(r).y <= Far(lane).y /\ Far(lane).y < Far(r).y
                      /\ UpperBorder(lane).y <= UpperBorder(r).y
                   \/ /\ Near(r).y < Near(lane).y /\ Near(lane).y <= Far(r).y
                      /\ LowerBorder(r).y <= LowerBorder(lane).y
           beside == LowerBorder(r).x <= p.x /\ p.x <= UpperBorder(r).x
<1>0. /\ r \in RoadType /\ lane \in RoadType
      /\ r.start # r.end /\ lane.start # lane.end
  BY DEF WellFormed
<1>1. p.x \in Int /\ p.y \in Int
  BY DEF Point
<1>2. /\ LowerBorder(lane).x <= p.x /\ p.x <= UpperBorder(lane).x
      /\ LowerBorder(lane).y <= p.y /\ p.y <= UpperBorder(lane).y
  BY DEF Covers
<1>3. /\ LowerBorder(r).x \in Int /\ LowerBorder(r).y \in Int
      /\ UpperBorder(r).x \in Int /\ UpperBorder(r).y \in Int
      /\ LowerBorder(lane).x \in Int /\ LowerBorder(lane).y \in Int
      /\ UpperBorder(lane).x \in Int /\ UpperBorder(lane).y \in Int
  BY <1>0, Corners
<1>4. ASSUME past, beside
      PROVE  FALSE
  <2>0. beside
    BY <1>4
  <2>1. /\ Near(r).y < Far(r).y
        /\ Near(r).y \in Int /\ Far(r).y \in Int /\ Near(lane).y \in Int /\ Far(lane).y \in Int
        /\ Near(lane).y <= Far(lane).y
    BY <1>0, <1>4, Corners, RoadBorders
  <2>2. IsVertical(r) /\ Near(r).x = r.start.x /\ Far(r).x = r.start.x
    BY <1>0, <2>1, RoadLine
  <2>3. CASE IsVertical(lane)
    <3>1. Near(lane).x = lane.start.x /\ Far(lane).x = lane.start.x
      BY <1>0, <2>3, RoadLine
    <3>2. /\ LowerBorder(r).x <= UpperBorder(lane).x
          /\ LowerBorder(lane).x <= UpperBorder(r).x
      BY <1>1, <1>2, <1>3, <2>0, SMTT(30)
    <3>3. r.start.x = lane.start.x
      <4>1. /\ r.start.x \in Int /\ lane.start.x \in Int
            /\ Cell * r.start.x - Width <= Cell * lane.start.x + Width
            /\ Cell * lane.start.x - Width <= Cell * r.start.x + Width
        BY <1>0, <2>2, <3>1, <3>2, Corners
      <4> QED
        BY <4>1, Borders
    <3> QED
      BY <1>4, <2>2, <2>3, <3>3, ColumnEnds
  <2>4. CASE ~IsVertical(lane)
    <3>1. Near(lane).y = Far(lane).y
      BY <1>0, <2>4, RoadLine
    <3>2. Near(r).y <= Near(lane).y /\ Far(lane).y <= Far(r).y
      BY <1>4, <2>1, <3>1
    <3>3. LowerBorder(r).y <= LowerBorder(lane).y /\ UpperBorder(lane).y <= UpperBorder(r).y
      BY <1>0, <2>1, <3>2, Borders, Corners
    <3>4. LowerBorder(r).y <= p.y /\ p.y <= UpperBorder(r).y
      BY <1>1, <1>2, <1>3, <3>3, SMTT(30)
    <3>5. Covers(r, p)
      BY <2>0, <3>4 DEF Covers
    <3> QED
      BY <2>2, <2>4, <3>5
  <2> QED
    BY <2>3, <2>4
<1>5. ASSUME Covers(r, [x |-> p.x, y |-> UpperBorder(roads[j]).y]),
             Covers(r, [x |-> p.x, y |-> UpperBorder(roads[j]).y + 1])
      PROVE  past /\ beside
  <2>1. /\ LowerBorder(r).y <= UpperBorder(lane).y
        /\ UpperBorder(lane).y + 1 <= UpperBorder(r).y /\ beside
    BY <1>5 DEF Covers
  <2>2. UpperBorder(lane).y < UpperBorder(r).y /\ UpperBorder(lane).y <= UpperBorder(r).y
    BY <1>3, <2>1
  <2>3. Near(r).y <= Far(lane).y /\ Far(lane).y < Far(r).y
    BY <1>0, <2>1, <2>2, Corners, Borders
  <2> QED
    BY <2>1, <2>2, <2>3
<1>6. ASSUME Covers(r, [x |-> p.x, y |-> LowerBorder(roads[j]).y]),
             Covers(r, [x |-> p.x, y |-> LowerBorder(roads[j]).y - 1])
      PROVE  past /\ beside
  <2>1. /\ LowerBorder(lane).y <= UpperBorder(r).y
        /\ LowerBorder(r).y <= LowerBorder(lane).y - 1 /\ beside
    BY <1>6 DEF Covers
  <2>2. LowerBorder(r).y < LowerBorder(lane).y /\ LowerBorder(r).y <= LowerBorder(lane).y
    BY <1>3, <2>1
  <2>3. Near(r).y < Near(lane).y /\ Near(lane).y <= Far(r).y
    BY <1>0, <2>1, <2>2, Corners, Borders
  <2> QED
    BY <2>1, <2>2, <2>3
<1> QED
  BY <1>4, <1>5, <1>6

\* A dog at p that faces left or right and walks along road j to its end: no road leads on.
LEMMA NoRowOnward ==
  ASSUME NEW roads \in Seq(RoadType), WellFormed(roads), Unjointed(roads),
         NEW i \in DOMAIN roads, NEW j \in DOMAIN roads,
         NEW p \in Point, Covers(roads[j], p),
         \/ ~IsVertical(roads[j])
         \/ \A k \in DOMAIN roads : Covers(roads[k], p) => IsVertical(roads[k])
  PROVE  /\ ~ /\ Covers(roads[i], [x |-> UpperBorder(roads[j]).x, y |-> p.y])
              /\ Covers(roads[i], [x |-> UpperBorder(roads[j]).x + 1, y |-> p.y])
         /\ ~ /\ Covers(roads[i], [x |-> LowerBorder(roads[j]).x, y |-> p.y])
              /\ Covers(roads[i], [x |-> LowerBorder(roads[j]).x - 1, y |-> p.y])
<1> DEFINE r    == roads[i]
           lane == roads[j]
           past == \/ /\ Near(r).x <= Far(lane).x /\ Far(lane).x < Far(r).x
                      /\ UpperBorder(lane).x <= UpperBorder(r).x
                   \/ /\ Near(r).x < Near(lane).x /\ Near(lane).x <= Far(r).x
                      /\ LowerBorder(r).x <= LowerBorder(lane).x
           beside == LowerBorder(r).y <= p.y /\ p.y <= UpperBorder(r).y
<1>0. /\ r \in RoadType /\ lane \in RoadType
      /\ r.start # r.end /\ lane.start # lane.end
  BY DEF WellFormed
<1>1. p.x \in Int /\ p.y \in Int
  BY DEF Point
<1>2. /\ LowerBorder(lane).x <= p.x /\ p.x <= UpperBorder(lane).x
      /\ LowerBorder(lane).y <= p.y /\ p.y <= UpperBorder(lane).y
  BY DEF Covers
<1>3. /\ LowerBorder(r).x \in Int /\ LowerBorder(r).y \in Int
      /\ UpperBorder(r).x \in Int /\ UpperBorder(r).y \in Int
      /\ LowerBorder(lane).x \in Int /\ LowerBorder(lane).y \in Int
      /\ UpperBorder(lane).x \in Int /\ UpperBorder(lane).y \in Int
  BY <1>0, Corners
<1>4. ASSUME past, beside
      PROVE  FALSE
  <2>0. beside
    BY <1>4
  <2>1. /\ Near(r).x < Far(r).x
        /\ Near(r).x \in Int /\ Far(r).x \in Int /\ Near(lane).x \in Int /\ Far(lane).x \in Int
        /\ Near(lane).x <= Far(lane).x
    BY <1>0, <1>4, Corners, RoadBorders
  <2>2. ~IsVertical(r) /\ Near(r).y = r.start.y /\ Far(r).y = r.start.y
    BY <1>0, <2>1, RoadLine
  <2>3. CASE ~IsVertical(lane)
    <3>1. Near(lane).y = lane.start.y /\ Far(lane).y = lane.start.y
      BY <1>0, <2>3, RoadLine
    <3>2. /\ LowerBorder(r).y <= UpperBorder(lane).y
          /\ LowerBorder(lane).y <= UpperBorder(r).y
      BY <1>1, <1>2, <1>3, <2>0, SMTT(30)
    <3>3. r.start.y = lane.start.y
      <4>1. /\ r.start.y \in Int /\ lane.start.y \in Int
            /\ Cell * r.start.y - Width <= Cell * lane.start.y + Width
            /\ Cell * lane.start.y - Width <= Cell * r.start.y + Width
        BY <1>0, <2>2, <3>1, <3>2, Corners
      <4> QED
        BY <4>1, Borders
    <3> QED
      BY <1>4, <2>2, <2>3, <3>3, RowEnds
  <2>4. CASE IsVertical(lane)
    <3>1. Near(lane).x = Far(lane).x
      BY <1>0, <2>4, RoadLine
    <3>2. Near(r).x <= Near(lane).x /\ Far(lane).x <= Far(r).x
      BY <1>4, <2>1, <3>1
    <3>3. LowerBorder(r).x <= LowerBorder(lane).x /\ UpperBorder(lane).x <= UpperBorder(r).x
      BY <1>0, <2>1, <3>2, Borders, Corners
    <3>4. LowerBorder(r).x <= p.x /\ p.x <= UpperBorder(r).x
      BY <1>1, <1>2, <1>3, <3>3, SMTT(30)
    <3>5. Covers(r, p)
      BY <2>0, <3>4 DEF Covers
    <3> QED
      BY <2>2, <2>4, <3>5
  <2> QED
    BY <2>3, <2>4
<1>5. ASSUME Covers(r, [x |-> UpperBorder(roads[j]).x, y |-> p.y]),
             Covers(r, [x |-> UpperBorder(roads[j]).x + 1, y |-> p.y])
      PROVE  past /\ beside
  <2>1. /\ LowerBorder(r).x <= UpperBorder(lane).x
        /\ UpperBorder(lane).x + 1 <= UpperBorder(r).x /\ beside
    BY <1>5 DEF Covers
  <2>2. UpperBorder(lane).x < UpperBorder(r).x /\ UpperBorder(lane).x <= UpperBorder(r).x
    BY <1>3, <2>1
  <2>3. Near(r).x <= Far(lane).x /\ Far(lane).x < Far(r).x
    BY <1>0, <2>1, <2>2, Corners, Borders
  <2> QED
    BY <2>1, <2>2, <2>3
<1>6. ASSUME Covers(r, [x |-> LowerBorder(roads[j]).x, y |-> p.y]),
             Covers(r, [x |-> LowerBorder(roads[j]).x - 1, y |-> p.y])
      PROVE  past /\ beside
  <2>1. /\ LowerBorder(lane).x <= UpperBorder(r).x
        /\ LowerBorder(r).x <= LowerBorder(lane).x - 1 /\ beside
    BY <1>6 DEF Covers
  <2>2. LowerBorder(r).x < LowerBorder(lane).x /\ LowerBorder(r).x <= LowerBorder(lane).x
    BY <1>3, <2>1
  <2>3. Near(r).x < Near(lane).x /\ Near(lane).x <= Far(r).x
    BY <1>0, <2>1, <2>2, Corners, Borders
  <2> QED
    BY <2>1, <2>2, <2>3
<1> QED
  BY <1>4, <1>5, <1>6

\* Of the vertical roads that cover a location the lookup finds the one that ends first.
LEMMA FirstColumn ==
  ASSUME NEW roads \in Seq(RoadType), WellFormed(roads), NEW p \in Point,
         NEW r \in FindVertical(IndexOf(roads), p),
         NEW k \in DOMAIN roads, IsVertical(roads[k]), Covers(roads[k], p)
  PROVE  r.start.x = roads[k].start.x /\ Far(r).y <= Far(roads[k]).y
<1> DEFINE s == roads[k]
<1>1. /\ r \in IndexOf(roads).vertical /\ Covers(r, p)
      /\ \A q \in IndexOf(roads).vertical : ColumnOrder(q, r) => ColumnBeforePoint(q, p)
  BY FoundCovers DEF FindVertical
<1>2. s \in IndexOf(roads).vertical /\ Covers(s, p)
  BY IndexComplete
<1> HIDE DEF s
<1>3. /\ r \in RoadType /\ IsVertical(r) /\ r.start # r.end
      /\ s \in RoadType /\ IsVertical(s) /\ s.start # s.end
  BY <1>1, <1>2, VerticalMembers
<1>4. /\ Near(r).x = r.start.x /\ Far(r).x = r.start.x /\ Near(r).y < Far(r).y
      /\ Near(s).x = s.start.x /\ Far(s).x = s.start.x /\ Near(s).y < Far(s).y
  BY <1>3, RoadLine
<1>5. /\ Near(s).y \in Int /\ Far(s).y \in Int /\ Far(r).y \in Int
      /\ Far(s).x \in Int /\ Far(r).x \in Int
      /\ UpperBorder(r).x = Cell * Far(r).x + Width /\ UpperBorder(r).x \in Int
      /\ UpperBorder(r).y = Cell * Far(r).y + Width /\ UpperBorder(r).y \in Int
      /\ UpperBorder(s).x = Cell * Far(s).x + Width /\ UpperBorder(s).x \in Int
      /\ UpperBorder(s).y = Cell * Far(s).y + Width /\ UpperBorder(s).y \in Int
  BY <1>3, Corners
<1>6. CASE ColumnOrder(s, r)
  <2>1. ColumnBeforePoint(s, p)
    BY <1>1, <1>2, <1>6
  <2>2. p.x \in Int /\ p.y \in Int
    BY DEF Point
  <2> QED
    BY <1>2, <1>5, <2>1, <2>2 DEF ColumnBeforePoint, Covers
<1>7. CASE ColumnOrder(r, s)
  <2>1. r.start.x = s.start.x /\ Far(r).y <= Near(s).y
    BY <1>1, <1>2, <1>7, VerticalBefore
  <2> QED
    BY <1>4, <1>5, <2>1 DEF s
<1>8. CASE UpperBorder(r).x = UpperBorder(s).x /\ UpperBorder(r).y = UpperBorder(s).y
  <2>1. Far(r).x = Far(s).x /\ Far(r).y = Far(s).y
    BY <1>5, <1>8, Scale
  <2> QED
    BY <1>4, <1>5, <2>1 DEF s
<1> QED
  BY <1>5, <1>6, <1>7, <1>8 DEF ColumnOrder

\* Of the horizontal roads that cover a location the lookup finds the one that ends first.
LEMMA FirstRow ==
  ASSUME NEW roads \in Seq(RoadType), WellFormed(roads), NEW p \in Point,
         NEW r \in FindHorizontal(IndexOf(roads), p),
         NEW k \in DOMAIN roads, ~IsVertical(roads[k]), Covers(roads[k], p)
  PROVE  r.start.y = roads[k].start.y /\ Far(r).x <= Far(roads[k]).x
<1> DEFINE s == roads[k]
<1>1. /\ r \in IndexOf(roads).horizontal /\ Covers(r, p)
      /\ \A q \in IndexOf(roads).horizontal : RowOrder(q, r) => RowBeforePoint(q, p)
  BY FoundCovers DEF FindHorizontal
<1>2. s \in IndexOf(roads).horizontal /\ Covers(s, p)
  BY IndexComplete
<1> HIDE DEF s
<1>3. /\ r \in RoadType /\ ~IsVertical(r) /\ r.start # r.end
      /\ s \in RoadType /\ ~IsVertical(s) /\ s.start # s.end
  BY <1>1, <1>2, HorizontalMembers
<1>4. /\ Near(r).y = r.start.y /\ Far(r).y = r.start.y /\ Near(r).x < Far(r).x
      /\ Near(s).y = s.start.y /\ Far(s).y = s.start.y /\ Near(s).x < Far(s).x
  BY <1>3, RoadLine
<1>5. /\ Near(s).x \in Int /\ Far(s).x \in Int /\ Far(r).x \in Int
      /\ Far(s).y \in Int /\ Far(r).y \in Int
      /\ UpperBorder(r).y = Cell * Far(r).y + Width /\ UpperBorder(r).y \in Int
      /\ UpperBorder(r).x = Cell * Far(r).x + Width /\ UpperBorder(r).x \in Int
      /\ UpperBorder(s).y = Cell * Far(s).y + Width /\ UpperBorder(s).y \in Int
      /\ UpperBorder(s).x = Cell * Far(s).x + Width /\ UpperBorder(s).x \in Int
  BY <1>3, Corners
<1>6. CASE RowOrder(s, r)
  <2>1. RowBeforePoint(s, p)
    BY <1>1, <1>2, <1>6
  <2>2. p.y \in Int /\ p.x \in Int
    BY DEF Point
  <2> QED
    BY <1>2, <1>5, <2>1, <2>2 DEF RowBeforePoint, Covers
<1>7. CASE RowOrder(r, s)
  <2>1. r.start.y = s.start.y /\ Far(r).x <= Near(s).x
    BY <1>1, <1>2, <1>7, HorizontalBefore
  <2> QED
    BY <1>4, <1>5, <2>1 DEF s
<1>8. CASE UpperBorder(r).y = UpperBorder(s).y /\ UpperBorder(r).x = UpperBorder(s).x
  <2>1. Far(r).y = Far(s).y /\ Far(r).x = Far(s).x
    BY <1>5, <1>8, Scale
  <2> QED
    BY <1>4, <1>5, <2>1 DEF s
<1> QED
  BY <1>5, <1>6, <1>7, <1>8 DEF RowOrder

\* The road that stops a dog covers it, lies along its heading if one does, and of those
\* that cover it as well is the one that ends first.
LEMMA LaneAlong ==
  ASSUME NEW roads \in Seq(RoadType), WellFormed(roads), NEW p \in Point, NEW dir,
         FindHorizontal(IndexOf(roads), p) # {} \/ FindVertical(IndexOf(roads), p) # {}
  PROVE  \E j \in DOMAIN roads :
           /\ roads[j] = LaneOf(FindHorizontal(IndexOf(roads), p),
                                FindVertical(IndexOf(roads), p), dir)
           /\ Covers(roads[j], p)
           /\ dir \in {"U", "D"} =>
                \/ IsVertical(roads[j])
                \/ \A k \in DOMAIN roads : Covers(roads[k], p) => ~IsVertical(roads[k])
           /\ dir \notin {"U", "D"} =>
                \/ ~IsVertical(roads[j])
                \/ \A k \in DOMAIN roads : Covers(roads[k], p) => IsVertical(roads[k])
           /\ \A k \in DOMAIN roads : Covers(roads[k], p) =>
                /\ IsVertical(roads[j]) /\ IsVertical(roads[k]) =>
                     roads[j].start.x = roads[k].start.x /\ Far(roads[j]).y <= Far(roads[k]).y
                /\ ~IsVertical(roads[j]) /\ ~IsVertical(roads[k]) =>
                     roads[j].start.y = roads[k].start.y /\ Far(roads[j]).x <= Far(roads[k]).x
<1> DEFINE hor  == FindHorizontal(IndexOf(roads), p)
           vert == FindVertical(IndexOf(roads), p)
           lane == LaneOf(hor, vert, dir)
<1>1. /\ hor # {} <=> \E i \in DOMAIN roads : ~IsVertical(roads[i]) /\ Covers(roads[i], p)
      /\ vert # {} <=> \E i \in DOMAIN roads : IsVertical(roads[i]) /\ Covers(roads[i], p)
  BY LookupExact
<1>2. (\A r \in hor : ~IsVertical(r)) /\ (\A r \in vert : IsVertical(r))
  BY HorizontalMembers, VerticalMembers DEF FindHorizontal, FindVertical
<1>3. \A r \in hor \cup vert : Covers(r, p) /\ \E j \in DOMAIN roads : roads[j] = r
  BY FoundCovers
<1> HIDE DEF hor, vert
<1>4. /\ lane \in hor \cup vert
      /\ dir \in {"U", "D"} => lane \in vert \/ vert = {}
      /\ dir \notin {"U", "D"} => lane \in hor \/ hor = {}
  BY DEF LaneOf, hor, vert
<1> HIDE DEF lane
<1>5. PICK j \in DOMAIN roads : roads[j] = lane
  BY <1>3, <1>4
<1>6. /\ dir \in {"U", "D"} =>
             \/ IsVertical(roads[j])
             \/ \A k \in DOMAIN roads : Covers(roads[k], p) => ~IsVertical(roads[k])
      /\ dir \notin {"U", "D"} =>
             \/ ~IsVertical(roads[j])
             \/ \A k \in DOMAIN roads : Covers(roads[k], p) => IsVertical(roads[k])
  BY <1>1, <1>2, <1>4, <1>5
<1>7. ASSUME NEW k \in DOMAIN roads, Covers(roads[k], p)
      PROVE  /\ IsVertical(roads[j]) /\ IsVertical(roads[k]) =>
                  roads[j].start.x = roads[k].start.x /\ Far(roads[j]).y <= Far(roads[k]).y
             /\ ~IsVertical(roads[j]) /\ ~IsVertical(roads[k]) =>
                  roads[j].start.y = roads[k].start.y /\ Far(roads[j]).x <= Far(roads[k]).x
  <2>1. CASE roads[j] \in vert
    BY <1>2, <1>7, <2>1, FirstColumn DEF vert
  <2>2. CASE roads[j] \in hor
    BY <1>2, <1>7, <2>2, FirstRow DEF hor
  <2> QED
    BY <1>4, <1>5, <2>1, <2>2
<1> QED
  BY <1>3, <1>4, <1>5, <1>6, <1>7 DEF lane, hor, vert

-----------------------------------------------------------------------------
(* The walk in two ticks.                                                  *)

\* Two vertical roads of a list do not cover one point.
LEMMA OneColumnAt ==
  ASSUME NEW roads \in Seq(RoadType), WellFormed(roads), Unjointed(roads),
         NEW i \in DOMAIN roads, NEW j \in DOMAIN roads, NEW q \in Point,
         IsVertical(roads[i]), IsVertical(roads[j]),
         Covers(roads[i], q), Covers(roads[j], q)
  PROVE  roads[i] = roads[j]
<1> DEFINE r == roads[i]
           s == roads[j]
<1>0. r \in RoadType /\ s \in RoadType /\ r.start # r.end /\ s.start # s.end
  BY DEF WellFormed
<1>1. /\ Near(r).x = r.start.x /\ Far(r).x = r.start.x /\ Near(r).y < Far(r).y
      /\ Near(s).x = s.start.x /\ Far(s).x = s.start.x /\ Near(s).y < Far(s).y
  BY <1>0, RoadLine
<1>2. /\ LowerBorder(r).x <= UpperBorder(s).x /\ LowerBorder(s).x <= UpperBorder(r).x
      /\ LowerBorder(r).y <= UpperBorder(s).y /\ LowerBorder(s).y <= UpperBorder(r).y
  <2>1. /\ q.x \in Int /\ q.y \in Int
        /\ LowerBorder(r) \in Point /\ UpperBorder(r) \in Point
        /\ LowerBorder(s) \in Point /\ UpperBorder(s) \in Point
    BY <1>0, RoadBorders DEF Point
  <2> QED
    BY <2>1 DEF Covers, Point
<1>3. r.start.x = s.start.x
  <2>1. /\ r.start.x \in Int /\ s.start.x \in Int
        /\ Cell * r.start.x - Width <= Cell * s.start.x + Width
        /\ Cell * s.start.x - Width <= Cell * r.start.x + Width
    BY <1>0, <1>1, <1>2, Corners
  <2>2. r.start.x <= s.start.x /\ s.start.x <= r.start.x
    BY <2>1, Borders
  <2> QED
    BY <2>1, <2>2
<1>4. Near(r).y <= Far(s).y /\ Near(s).y <= Far(r).y
  <2>1. /\ Near(r).y \in Int /\ Far(r).y \in Int /\ Near(s).y \in Int /\ Far(s).y \in Int
        /\ Cell * Near(r).y - Width <= Cell * Far(s).y + Width
        /\ Cell * Near(s).y - Width <= Cell * Far(r).y + Width
    BY <1>0, <1>2, Corners
  <2> QED
    BY <2>1, Borders
<1>5. /\ ~ (Near(r).y <= Far(s).y /\ Far(s).y < Far(r).y)
      /\ ~ (Near(s).y <= Far(r).y /\ Far(r).y < Far(s).y)
      /\ ~ (Near(r).y < Near(s).y /\ Near(s).y <= Far(r).y)
      /\ ~ (Near(s).y < Near(r).y /\ Near(r).y <= Far(s).y)
  BY <1>3, ColumnEnds
<1>6. Near(r).y = Near(s).y /\ Far(r).y = Far(s).y
  BY <1>0, <1>4, <1>5, Corners
<1>7. CASE i = j
  BY <1>7
<1>8. CASE i # j
  <2>1. IsVertical(r) = IsVertical(s)
    BY DEF IsVertical
  <2>2. Far(r).y <= Near(s).y \/ Far(s).y <= Near(r).y
    BY <1>3, <1>8, <2>1 DEF WellFormed
  <2> QED
    BY <1>0, <1>1, <1>6, <2>2, Corners
<1> QED
  BY <1>7, <1>8

\* Two horizontal roads of a list do not cover one point.
LEMMA OneRowAt ==
  ASSUME NEW roads \in Seq(RoadType), WellFormed(roads), Unjointed(roads),
         NEW i \in DOMAIN roads, NEW j \in DOMAIN roads, NEW q \in Point,
         ~IsVertical(roads[i]), ~IsVertical(roads[j]),
         Covers(roads[i], q), Covers(roads[j], q)
  PROVE  roads[i] = roads[j]
<1> DEFINE r == roads[i]
           s == roads[j]
<1>0. r \in RoadType /\ s \in RoadType /\ r.start # r.end /\ s.start # s.end
  BY DEF WellFormed
<1>1. /\ Near(r).y = r.start.y /\ Far(r).y = r.start.y /\ Near(r).x < Far(r).x
      /\ Near(s).y = s.start.y /\ Far(s).y = s.start.y /\ Near(s).x < Far(s).x
  BY <1>0, RoadLine
<1>2. /\ LowerBorder(r).x <= UpperBorder(s).x /\ LowerBorder(s).x <= UpperBorder(r).x
      /\ LowerBorder(r).y <= UpperBorder(s).y /\ LowerBorder(s).y <= UpperBorder(r).y
  <2>1. /\ q.x \in Int /\ q.y \in Int
        /\ LowerBorder(r) \in Point /\ UpperBorder(r) \in Point
        /\ LowerBorder(s) \in Point /\ UpperBorder(s) \in Point
    BY <1>0, RoadBorders DEF Point
  <2> QED
    BY <2>1 DEF Covers, Point
<1>3. r.start.y = s.start.y
  <2>1. /\ r.start.y \in Int /\ s.start.y \in Int
        /\ Cell * r.start.y - Width <= Cell * s.start.y + Width
        /\ Cell * s.start.y - Width <= Cell * r.start.y + Width
    BY <1>0, <1>1, <1>2, Corners
  <2>2. r.start.y <= s.start.y /\ s.start.y <= r.start.y
    BY <2>1, Borders
  <2> QED
    BY <2>1, <2>2
<1>4. Near(r).x <= Far(s).x /\ Near(s).x <= Far(r).x
  <2>1. /\ Near(r).x \in Int /\ Far(r).x \in Int /\ Near(s).x \in Int /\ Far(s).x \in Int
        /\ Cell * Near(r).x - Width <= Cell * Far(s).x + Width
        /\ Cell * Near(s).x - Width <= Cell * Far(r).x + Width
    BY <1>0, <1>2, Corners
  <2> QED
    BY <2>1, Borders
<1>5. /\ ~ (Near(r).x <= Far(s).x /\ Far(s).x < Far(r).x)
      /\ ~ (Near(s).x <= Far(r).x /\ Far(r).x < Far(s).x)
      /\ ~ (Near(r).x < Near(s).x /\ Near(s).x <= Far(r).x)
      /\ ~ (Near(s).x < Near(r).x /\ Near(r).x <= Far(s).x)
  BY <1>3, RowEnds
<1>6. Near(r).x = Near(s).x /\ Far(r).x = Far(s).x
  BY <1>0, <1>4, <1>5, Corners
<1>7. CASE i = j
  BY <1>7
<1>8. CASE i # j
  <2>1. IsVertical(r) = IsVertical(s)
    BY DEF IsVertical
  <2>2. Far(r).x <= Near(s).x \/ Far(s).x <= Near(r).x
    BY <1>3, <1>8, <2>1 DEF WellFormed
  <2> QED
    BY <1>0, <1>1, <1>6, <2>2, Corners
<1> QED
  BY <1>7, <1>8

\* A vertical road that crosses a horizontal one covers it from side to side.
LEMMA ColumnAcross ==
  ASSUME NEW r \in RoadType, r.start # r.end, IsVertical(r),
         NEW lane \in RoadType, lane.start # lane.end, ~IsVertical(lane),
         NEW p \in Point, NEW q \in Point, p.x = q.x,
         Covers(r, q), Covers(lane, q), Covers(lane, p)
  PROVE  Covers(r, p)
<1>1. /\ p.x \in Int /\ p.y \in Int /\ q.x \in Int /\ q.y \in Int
      /\ LowerBorder(r).x \in Int /\ LowerBorder(r).y \in Int
      /\ UpperBorder(r).x \in Int /\ UpperBorder(r).y \in Int
      /\ LowerBorder(lane).x \in Int /\ LowerBorder(lane).y \in Int
      /\ UpperBorder(lane).x \in Int /\ UpperBorder(lane).y \in Int
  BY Corners DEF Point
<1>2. /\ LowerBorder(r).y <= UpperBorder(lane).y /\ LowerBorder(lane).y <= UpperBorder(r).y
      /\ LowerBorder(r).x <= p.x /\ p.x <= UpperBorder(r).x
      /\ LowerBorder(lane).y <= p.y /\ p.y <= UpperBorder(lane).y
  BY <1>1 DEF Covers
<1>3. Near(lane).y = Far(lane).y
  BY RoadLine
<1>4. Near(r).y <= Near(lane).y /\ Far(lane).y <= Far(r).y
  <2>1. /\ Near(r).y \in Int /\ Far(r).y \in Int /\ Near(lane).y \in Int /\ Far(lane).y \in Int
        /\ Cell * Near(r).y - Width <= Cell * Far(lane).y + Width
        /\ Cell * Near(lane).y - Width <= Cell * Far(r).y + Width
    BY <1>2, Corners
  <2> QED
    BY <1>3, <2>1, Borders
<1>5. LowerBorder(r).y <= LowerBorder(lane).y /\ UpperBorder(lane).y <= UpperBorder(r).y
  BY <1>4, Corners, Borders
<1>6. LowerBorder(r).y <= p.y /\ p.y <= UpperBorder(r).y
  BY <1>1, <1>2, <1>5
<1> QED
  BY <1>2, <1>6 DEF Covers

\* A horizontal road that crosses a vertical one covers it from side to side.
LEMMA RowAcross ==
  ASSUME NEW r \in RoadType, r.start # r.end, ~IsVertical(r),
         NEW lane \in RoadType, lane.start # lane.end, IsVertical(lane),
         NEW p \in Point, NEW q \in Point, p.y = q.y,
         Covers(r, q), Covers(lane, q), Covers(lane, p)
  PROVE  Covers(r, p)
<1>1. /\ p.x \in Int /\ p.y \in Int /\ q.x \in Int /\ q.y \in Int
      /\ LowerBorder(r).x \in Int /\ LowerBorder(r).y \in Int
      /\ UpperBorder(r).x \in Int /\ UpperBorder(r).y \in Int
      /\ LowerBorder(lane).x \in Int /\ LowerBorder(lane).y \in Int
      /\ UpperBorder(lane).x \in Int /\ UpperBorder(lane).y \in Int
  BY Corners DEF Point
<1>2. /\ LowerBorder(r).x <= UpperBorder(lane).x /\ LowerBorder(lane).x <= UpperBorder(r).x
      /\ LowerBorder(r).y <= p.y /\ p.y <= UpperBorder(r).y
      /\ LowerBorder(lane).x <= p.x /\ p.x <= UpperBorder(lane).x
  BY <1>1 DEF Covers
<1>3. Near(lane).x = Far(lane).x
  BY RoadLine
<1>4. Near(r).x <= Near(lane).x /\ Far(lane).x <= Far(r).x
  <2>1. /\ Near(r).x \in Int /\ Far(r).x \in Int /\ Near(lane).x \in Int /\ Far(lane).x \in Int
        /\ Cell * Near(r).x - Width <= Cell * Far(lane).x + Width
        /\ Cell * Near(lane).x - Width <= Cell * Far(r).x + Width
    BY <1>2, Corners
  <2> QED
    BY <1>3, <2>1, Borders
<1>5. LowerBorder(r).x <= LowerBorder(lane).x /\ UpperBorder(lane).x <= UpperBorder(r).x
  BY <1>4, Corners, Borders
<1>6. LowerBorder(r).x <= p.x /\ p.x <= UpperBorder(r).x
  BY <1>1, <1>2, <1>5
<1> QED
  BY <1>2, <1>6 DEF Covers

\* Two vertical roads on one line that end at one place are one.
LEMMA SameColumn ==
  ASSUME NEW roads \in Seq(RoadType), WellFormed(roads),
         NEW i \in DOMAIN roads, NEW j \in DOMAIN roads,
         IsVertical(roads[i]), IsVertical(roads[j]),
         roads[i].start.x = roads[j].start.x, Far(roads[i]).y = Far(roads[j]).y
  PROVE  roads[i] = roads[j]
<1>1. Far(roads[i]).x = Far(roads[j]).x
  BY RoadLine DEF WellFormed
<1>2. UpperBorder(roads[i]) = UpperBorder(roads[j])
  BY <1>1 DEF UpperBorder
<1>3. IsVertical(roads[j]) = IsVertical(roads[i])
  BY DEF IsVertical
<1> QED
  BY <1>2, <1>3, CornersDiffer

\* Two horizontal roads on one line that end at one place are one.
LEMMA SameRow ==
  ASSUME NEW roads \in Seq(RoadType), WellFormed(roads),
         NEW i \in DOMAIN roads, NEW j \in DOMAIN roads,
         ~IsVertical(roads[i]), ~IsVertical(roads[j]),
         roads[i].start.y = roads[j].start.y, Far(roads[i]).x = Far(roads[j]).x
  PROVE  roads[i] = roads[j]
<1>1. Far(roads[i]).y = Far(roads[j]).y
  BY RoadLine DEF WellFormed
<1>2. UpperBorder(roads[i]) = UpperBorder(roads[j])
  BY <1>1 DEF UpperBorder
<1>3. IsVertical(roads[j]) = IsVertical(roads[i])
  BY DEF IsVertical
<1> QED
  BY <1>2, <1>3, CornersDiffer

\* The road that stops a dog at p stops it at every point q that it gets to on its way.
LEMMA ColumnKept ==
  ASSUME NEW roads \in Seq(RoadType), WellFormed(roads),
         NEW p \in Point, NEW q \in Point, p.x = q.x, NEW dir \in {"U", "D"},
         FindHorizontal(IndexOf(roads), p) # {} \/ FindVertical(IndexOf(roads), p) # {},
         NEW lane, lane = LaneOf(FindHorizontal(IndexOf(roads), p),
                                 FindVertical(IndexOf(roads), p), dir),
         Covers(lane, q),
         Unjointed(roads) \/ (dir = "D" /\ p.y <= q.y)
  PROVE  /\ FindHorizontal(IndexOf(roads), q) # {} \/ FindVertical(IndexOf(roads), q) # {}
         /\ LaneOf(FindHorizontal(IndexOf(roads), q),
                   FindVertical(IndexOf(roads), q), dir) = lane
<1> DEFINE next == LaneOf(FindHorizontal(IndexOf(roads), q),
                          FindVertical(IndexOf(roads), q), dir)
<1>1. PICK j \in DOMAIN roads :
        /\ roads[j] = lane
        /\ Covers(roads[j], p)
        /\ \/ IsVertical(roads[j])
           \/ \A k \in DOMAIN roads : Covers(roads[k], p) => ~IsVertical(roads[k])
        /\ \A m \in DOMAIN roads : Covers(roads[m], p) =>
             /\ IsVertical(roads[j]) /\ IsVertical(roads[m]) =>
                  roads[j].start.x = roads[m].start.x /\ Far(roads[j]).y <= Far(roads[m]).y
             /\ ~IsVertical(roads[j]) /\ ~IsVertical(roads[m]) =>
                  roads[j].start.y = roads[m].start.y /\ Far(roads[j]).x <= Far(roads[m]).x
  BY LaneAlong
<1>2. FindHorizontal(IndexOf(roads), q) # {} \/ FindVertical(IndexOf(roads), q) # {}
  BY <1>1, LookupExact
<1>3. PICK k \in DOMAIN roads :
        /\ roads[k] = next
        /\ Covers(roads[k], q)
        /\ \/ IsVertical(roads[k])
           \/ \A m \in DOMAIN roads : Covers(roads[m], q) => ~IsVertical(roads[m])
        /\ \A m \in DOMAIN roads : Covers(roads[m], q) =>
             /\ IsVertical(roads[k]) /\ IsVertical(roads[m]) =>
                  roads[k].start.x = roads[m].start.x /\ Far(roads[k]).y <= Far(roads[m]).y
             /\ ~IsVertical(roads[k]) /\ ~IsVertical(roads[m]) =>
                  roads[k].start.y = roads[m].start.y /\ Far(roads[k]).x <= Far(roads[m]).x
  BY <1>2, LaneAlong
<1> HIDE DEF next
<1>4. /\ roads[j] \in RoadType /\ roads[j].start # roads[j].end
      /\ roads[k] \in RoadType /\ roads[k].start # roads[k].end
  BY DEF WellFormed
<1>5. /\ p.x \in Int /\ p.y \in Int /\ q.x \in Int /\ q.y \in Int
      /\ LowerBorder(roads[j]).x \in Int /\ LowerBorder(roads[j]).y \in Int
      /\ UpperBorder(roads[j]).x \in Int /\ UpperBorder(roads[j]).y \in Int
      /\ LowerBorder(roads[k]).x \in Int /\ LowerBorder(roads[k]).y \in Int
      /\ UpperBorder(roads[k]).x \in Int /\ UpperBorder(roads[k]).y \in Int
      /\ Near(roads[j]).y \in Int /\ Far(roads[j]).y \in Int
      /\ Near(roads[k]).y \in Int /\ Far(roads[k]).y \in Int
      /\ Near(roads[j]).x \in Int /\ Far(roads[j]).x \in Int
      /\ Near(roads[k]).x \in Int /\ Far(roads[k]).x \in Int
  BY <1>4, Corners DEF Point
<1>6. CASE IsVertical(roads[j])
  <2>1. IsVertical(roads[k]) /\ Covers(roads[j], q)
    BY <1>1, <1>3, <1>6
  <2>2. CASE Unjointed(roads)
    BY <1>1, <1>2, <1>3, <1>6, <2>1, <2>2, OneColumnAt DEF next
  <2>3. CASE dir = "D" /\ p.y <= q.y
    <3>1. roads[k].start.x = roads[j].start.x /\ Far(roads[k]).y <= Far(roads[j]).y
      BY <1>3, <1>6, <2>1
    <3>2. CASE Far(roads[k]).y = Far(roads[j]).y
      BY <1>1, <1>2, <1>3, <1>6, <2>1, <3>1, <3>2, SameColumn DEF next
    <3>3. CASE Far(roads[k]).y < Far(roads[j]).y
      <4>1. /\ Near(roads[j]).y < Far(roads[j]).y /\ Near(roads[k]).y < Far(roads[k]).y
            /\ Near(roads[k]).x = Near(roads[j]).x /\ Far(roads[k]).x = Far(roads[j]).x
        BY <1>4, <1>6, <2>1, <3>1, RoadLine
      <4>2. Near(roads[k]).y <= Near(roads[j]).y
        <5>1. IsVertical(roads[k]) = IsVertical(roads[j]) /\ k # j
          BY <1>5, <1>6, <2>1, <3>3 DEF IsVertical
        <5>2. Far(roads[k]).y <= Near(roads[j]).y \/ Far(roads[j]).y <= Near(roads[k]).y
          BY <1>6, <3>1, <5>1 DEF WellFormed
        <5>3. /\ Near(roads[j]).y \in Int /\ Far(roads[j]).y \in Int
              /\ Near(roads[k]).y \in Int /\ Far(roads[k]).y \in Int
          BY <1>5
        <5> QED
          BY <3>3, <4>1, <5>2, <5>3
      <4>3. /\ LowerBorder(roads[k]).y <= LowerBorder(roads[j]).y
            /\ LowerBorder(roads[k]).x = LowerBorder(roads[j]).x
            /\ UpperBorder(roads[k]).x = UpperBorder(roads[j]).x
        <5>1. /\ LowerBorder(roads[k]).y = Cell * Near(roads[k]).y - Width
              /\ LowerBorder(roads[j]).y = Cell * Near(roads[j]).y - Width
              /\ LowerBorder(roads[k]).x = Cell * Near(roads[k]).x - Width
              /\ LowerBorder(roads[j]).x = Cell * Near(roads[j]).x - Width
              /\ UpperBorder(roads[k]).x = Cell * Far(roads[k]).x + Width
              /\ UpperBorder(roads[j]).x = Cell * Far(roads[j]).x + Width
              /\ Near(roads[k]).y \in Int /\ Near(roads[j]).y \in Int
          BY <1>4, Corners
        <5>2. Cell * Near(roads[k]).y - Width <= Cell * Near(roads[j]).y - Width
          BY <4>2, <5>1, Borders
        <5> QED
          BY <4>1, <5>1, <5>2
      <4>4. Covers(roads[k], p)
        <5>1. /\ LowerBorder(roads[j]).x <= p.x /\ p.x <= UpperBorder(roads[j]).x
              /\ LowerBorder(roads[j]).y <= p.y /\ q.y <= UpperBorder(roads[k]).y
          BY <1>1, <1>3 DEF Covers
        <5>2. /\ p.y \in Int /\ q.y \in Int /\ UpperBorder(roads[k]).y \in Int
              /\ LowerBorder(roads[j]).y \in Int /\ LowerBorder(roads[k]).y \in Int
          BY <1>5
        <5>3. LowerBorder(roads[k]).y <= p.y /\ p.y <= UpperBorder(roads[k]).y
          BY <2>3, <4>3, <5>1, <5>2
        <5> QED
          BY <4>3, <5>1, <5>3 DEF Covers
      <4>5. Far(roads[j]).y <= Far(roads[k]).y
        BY <1>1, <1>6, <2>1, <4>4
      <4> QED
        BY <1>5, <3>3, <4>5
    <3> QED
      BY <1>5, <3>1, <3>2, <3>3
  <2> QED
    BY <2>2, <2>3
<1>7. CASE ~IsVertical(roads[j])
  <2>1. ~IsVertical(roads[k]) /\ Covers(roads[j], q)
    <3> SUFFICES ASSUME IsVertical(roads[k]) PROVE FALSE
      BY <1>1
    <3>1. Covers(roads[k], p)
      BY <1>1, <1>3, <1>4, <1>7, ColumnAcross
    <3> QED
      BY <1>1, <1>7, <3>1
  <2>2. roads[k].start.y = roads[j].start.y /\ Far(roads[k]).x <= Far(roads[j]).x
    BY <1>3, <1>7, <2>1
  <2>3. Near(roads[k]).y = Near(roads[j]).y /\ Far(roads[k]).y = Far(roads[j]).y
    BY <1>4, <1>7, <2>1, <2>2, RoadLine
  <2>4. /\ LowerBorder(roads[k]).y = LowerBorder(roads[j]).y
        /\ UpperBorder(roads[k]).y = UpperBorder(roads[j]).y
    BY <1>4, <2>3, Corners
  <2>5. Covers(roads[k], p)
    BY <1>1, <1>3, <1>5, <2>4 DEF Covers
  <2>6. Far(roads[j]).x <= Far(roads[k]).x
    BY <1>1, <1>7, <2>1, <2>5
  <2>7. Far(roads[j]).x = Far(roads[k]).x
    BY <1>5, <2>2, <2>6
  <2> QED
    BY <1>1, <1>2, <1>3, <1>7, <2>1, <2>2, <2>7, SameRow DEF next
<1> QED
  BY <1>6, <1>7

\* The road that stops a dog at p stops it at every point q that it gets to on its way.
LEMMA RowKept ==
  ASSUME NEW roads \in Seq(RoadType), WellFormed(roads),
         NEW p \in Point, NEW q \in Point, p.y = q.y, NEW dir \in {"L", "R"},
         FindHorizontal(IndexOf(roads), p) # {} \/ FindVertical(IndexOf(roads), p) # {},
         NEW lane, lane = LaneOf(FindHorizontal(IndexOf(roads), p),
                                 FindVertical(IndexOf(roads), p), dir),
         Covers(lane, q),
         Unjointed(roads) \/ (dir = "R" /\ p.x <= q.x)
  PROVE  /\ FindHorizontal(IndexOf(roads), q) # {} \/ FindVertical(IndexOf(roads), q) # {}
         /\ LaneOf(FindHorizontal(IndexOf(roads), q),
                   FindVertical(IndexOf(roads), q), dir) = lane
<1> DEFINE next == LaneOf(FindHorizontal(IndexOf(roads), q),
                          FindVertical(IndexOf(roads), q), dir)
<1>1. PICK j \in DOMAIN roads :
        /\ roads[j] = lane
        /\ Covers(roads[j], p)
        /\ \/ ~IsVertical(roads[j])
           \/ \A k \in DOMAIN roads : Covers(roads[k], p) => IsVertical(roads[k])
        /\ \A m \in DOMAIN roads : Covers(roads[m], p) =>
             /\ IsVertical(roads[j]) /\ IsVertical(roads[m]) =>
                  roads[j].start.x = roads[m].start.x /\ Far(roads[j]).y <= Far(roads[m]).y
             /\ ~IsVertical(roads[j]) /\ ~IsVertical(roads[m]) =>
                  roads[j].start.y = roads[m].start.y /\ Far(roads[j]).x <= Far(roads[m]).x
  BY LaneAlong
<1>2. FindHorizontal(IndexOf(roads), q) # {} \/ FindVertical(IndexOf(roads), q) # {}
  BY <1>1, LookupExact
<1>3. PICK k \in DOMAIN roads :
        /\ roads[k] = next
        /\ Covers(roads[k], q)
        /\ \/ ~IsVertical(roads[k])
           \/ \A m \in DOMAIN roads : Covers(roads[m], q) => IsVertical(roads[m])
        /\ \A m \in DOMAIN roads : Covers(roads[m], q) =>
             /\ IsVertical(roads[k]) /\ IsVertical(roads[m]) =>
                  roads[k].start.x = roads[m].start.x /\ Far(roads[k]).y <= Far(roads[m]).y
             /\ ~IsVertical(roads[k]) /\ ~IsVertical(roads[m]) =>
                  roads[k].start.y = roads[m].start.y /\ Far(roads[k]).x <= Far(roads[m]).x
  BY <1>2, LaneAlong
<1> HIDE DEF next
<1>4. /\ roads[j] \in RoadType /\ roads[j].start # roads[j].end
      /\ roads[k] \in RoadType /\ roads[k].start # roads[k].end
  BY DEF WellFormed
<1>5. /\ p.y \in Int /\ p.x \in Int /\ q.y \in Int /\ q.x \in Int
      /\ LowerBorder(roads[j]).y \in Int /\ LowerBorder(roads[j]).x \in Int
      /\ UpperBorder(roads[j]).y \in Int /\ UpperBorder(roads[j]).x \in Int
      /\ LowerBorder(roads[k]).y \in Int /\ LowerBorder(roads[k]).x \in Int
      /\ UpperBorder(roads[k]).y \in Int /\ UpperBorder(roads[k]).x \in Int
      /\ Near(roads[j]).x \in Int /\ Far(roads[j]).x \in Int
      /\ Near(roads[k]).x \in Int /\ Far(roads[k]).x \in Int
      /\ Near(roads[j]).y \in Int /\ Far(roads[j]).y \in Int
      /\ Near(roads[k]).y \in Int /\ Far(roads[k]).y \in Int
  BY <1>4, Corners DEF Point
<1>6. CASE ~IsVertical(roads[j])
  <2>1. ~IsVertical(roads[k]) /\ Covers(roads[j], q)
    BY <1>1, <1>3, <1>6
  <2>2. CASE Unjointed(roads)
    BY <1>1, <1>2, <1>3, <1>6, <2>1, <2>2, OneRowAt DEF next
  <2>3. CASE dir = "R" /\ p.x <= q.x
    <3>1. roads[k].start.y = roads[j].start.y /\ Far(roads[k]).x <= Far(roads[j]).x
      BY <1>3, <1>6, <2>1
    <3>2. CASE Far(roads[k]).x = Far(roads[j]).x
      BY <1>1, <1>2, <1>3, <1>6, <2>1, <3>1, <3>2, SameRow DEF next
    <3>3. CASE Far(roads[k]).x < Far(roads[j]).x
      <4>1. /\ Near(roads[j]).x < Far(roads[j]).x /\ Near(roads[k]).x < Far(roads[k]).x
            /\ Near(roads[k]).y = Near(roads[j]).y /\ Far(roads[k]).y = Far(roads[j]).y
        BY <1>4, <1>6, <2>1, <3>1, RoadLine
      <4>2. Near(roads[k]).x <= Near(roads[j]).x
        <5>1. IsVertical(roads[k]) = IsVertical(roads[j]) /\ k # j
          BY <1>5, <1>6, <2>1, <3>3 DEF IsVertical
        <5>2. Far(roads[k]).x <= Near(roads[j]).x \/ Far(roads[j]).x <= Near(roads[k]).x
          BY <1>6, <3>1, <5>1 DEF WellFormed
        <5>3. /\ Near(roads[j]).x \in Int /\ Far(roads[j]).x \in Int
              /\ Near(roads[k]).x \in Int /\ Far(roads[k]).x \in Int
          BY <1>5
        <5> QED
          BY <3>3, <4>1, <5>2, <5>3
      <4>3. /\ LowerBorder(roads[k]).x <= LowerBorder(roads[j]).x
            /\ LowerBorder(roads[k]).y = LowerBorder(roads[j]).y
            /\ UpperBorder(roads[k]).y = UpperBorder(roads[j]).y
        <5>1. /\ LowerBorder(roads[k]).x = Cell * Near(roads[k]).x - Width
              /\ LowerBorder(roads[j]).x = Cell * Near(roads[j]).x - Width
              /\ LowerBorder(roads[k]).y = Cell * Near(roads[k]).y - Width
              /\ LowerBorder(roads[j]).y = Cell * Near(roads[j]).y - Width
              /\ UpperBorder(roads[k]).y = Cell * Far(roads[k]).y + Width
              /\ UpperBorder(roads[j]).y = Cell * Far(roads[j]).y + Width
              /\ Near(roads[k]).x \in Int /\ Near(roads[j]).x \in Int
          BY <1>4, Corners
        <5>2. Cell * Near(roads[k]).x - Width <= Cell * Near(roads[j]).x - Width
          BY <4>2, <5>1, Borders
        <5> QED
          BY <4>1, <5>1, <5>2
      <4>4. Covers(roads[k], p)
        <5>1. /\ LowerBorder(roads[j]).y <= p.y /\ p.y <= UpperBorder(roads[j]).y
              /\ LowerBorder(roads[j]).x <= p.x /\ q.x <= UpperBorder(roads[k]).x
          BY <1>1, <1>3 DEF Covers
        <5>2. /\ p.x \in Int /\ q.x \in Int /\ UpperBorder(roads[k]).x \in Int
              /\ LowerBorder(roads[j]).x \in Int /\ LowerBorder(roads[k]).x \in Int
          BY <1>5
        <5>3. LowerBorder(roads[k]).x <= p.x /\ p.x <= UpperBorder(roads[k]).x
          BY <2>3, <4>3, <5>1, <5>2
        <5> QED
          BY <4>3, <5>1, <5>3 DEF Covers
      <4>5. Far(roads[j]).x <= Far(roads[k]).x
        BY <1>1, <1>6, <2>1, <4>4
      <4> QED
        BY <1>5, <3>3, <4>5
    <3> QED
      BY <1>5, <3>1, <3>2, <3>3
  <2> QED
    BY <2>2, <2>3
<1>7. CASE IsVertical(roads[j])
  <2>1. IsVertical(roads[k]) /\ Covers(roads[j], q)
    <3> SUFFICES ASSUME ~IsVertical(roads[k]) PROVE FALSE
      BY <1>1
    <3>1. Covers(roads[k], p)
      BY <1>1, <1>3, <1>4, <1>7, RowAcross
    <3> QED
      BY <1>1, <1>7, <3>1
  <2>2. roads[k].start.x = roads[j].start.x /\ Far(roads[k]).y <= Far(roads[j]).y
    BY <1>3, <1>7, <2>1
  <2>3. Near(roads[k]).x = Near(roads[j]).x /\ Far(roads[k]).x = Far(roads[j]).x
    BY <1>4, <1>7, <2>1, <2>2, RoadLine
  <2>4. /\ LowerBorder(roads[k]).x = LowerBorder(roads[j]).x
        /\ UpperBorder(roads[k]).x = UpperBorder(roads[j]).x
    BY <1>4, <2>3, Corners
  <2>5. Covers(roads[k], p)
    BY <1>1, <1>3, <1>5, <2>4 DEF Covers
  <2>6. Far(roads[j]).y <= Far(roads[k]).y
    BY <1>1, <1>7, <2>1, <2>5
  <2>7. Far(roads[j]).y = Far(roads[k]).y
    BY <1>5, <2>2, <2>6
  <2> QED
    BY <1>1, <1>2, <1>3, <1>7, <2>1, <2>2, <2>7, SameColumn DEF next
<1> QED
  BY <1>6, <1>7

\* Two legs towards a border that is ahead are one leg as long as both.
LEMMA TwoLegs ==
  ASSUME NEW from \in Int, NEW border \in Int, NEW u \in Int, NEW w \in Int,
         \/ from <= border /\ u >= 0 /\ w >= 0
         \/ border <= from /\ u <= 0 /\ w <= 0,
         NEW first, first = WalkUntil(from, from + u, border),
         NEW second, second = WalkUntil(first, first + w, border),
         NEW whole, whole = WalkUntil(from, from + (u + w), border)
  PROVE  /\ first \in Int /\ second \in Int /\ whole \in Int
         /\ from <= border => from <= first /\ first <= border
         /\ border <= from => border <= first /\ first <= from
         /\ first = from + u =>
              /\ second = whole
              /\ second = first + w <=> whole = from + (u + w)
         /\ first # from + u => whole = first /\ whole # from + (u + w)
         /\ WalkUntil(first, first, border) = first
BY DEF WalkUntil, Abs

\* Where a walk up or down ends.
ColumnEnd(lane, p, dir, far) ==
  WalkUntil(p.y, far, IF dir = "D" THEN UpperBorder(lane).y ELSE LowerBorder(lane).y)

\* A walk up or down in numbers.
LEMMA ColumnWalk ==
  ASSUME NEW lane, NEW p, NEW dir, dir = "U" \/ dir = "D", NEW speed, NEW time, NEW far,
         NEW dog, dog = [loc |-> p, dir |-> dir, speed |-> speed],
         Target(dog, time) = [x |-> p.x, y |-> far]
  PROVE  Walk(lane, dog, time) =
           [loc |-> [x |-> p.x, y |-> ColumnEnd(lane, p, dir, far)], dir |-> dir,
            speed |-> IF ColumnEnd(lane, p, dir, far) = far THEN speed ELSE Still]
<1> DEFINE there   == Target(dog, time)
           arrival == Arrival(lane, dog, time)
           end     == ColumnEnd(lane, p, dir, far)
           stop    == IF end = far THEN speed ELSE Still
<1>1. there = [x |-> p.x, y |-> far]
  OBVIOUS
<1>2. end = IF dir = "D" THEN WalkUntil(p.y, far, UpperBorder(lane).y)
                        ELSE WalkUntil(p.y, far, LowerBorder(lane).y)
  BY DEF ColumnEnd
<1> HIDE DEF end, there
<1>3. arrival = [there EXCEPT !.y = end]
  BY <1>1, <1>2 DEF Arrival, there
<1>4. arrival = [x |-> p.x, y |-> end]
  BY <1>1, <1>3
<1>5. arrival = there <=> end = far
  BY <1>1, <1>4
<1>6. dog.speed = speed
  OBVIOUS
<1>7. stop = IF arrival = there THEN dog.speed ELSE Still
  BY <1>5, <1>6
<1> HIDE DEF arrival, stop
<1>8. Walk(lane, dog, time) = [dog EXCEPT !.loc = arrival, !.speed = stop]
  BY <1>7 DEF Walk, arrival, there
<1>9. Walk(lane, dog, time) = [loc |-> arrival, dir |-> dir, speed |-> stop]
  BY <1>8
<1> QED
  BY <1>4, <1>9 DEF end, stop

\* Up or down: a tick in two parts.
LEMMA ColumnSplit ==
  ASSUME NEW roads \in Seq(RoadType), WellFormed(roads),
         NEW p \in Point, OnRoad(roads, p), NEW dir \in {"U", "D"},
         NEW pace \in Nat, NEW a \in Nat, NEW b \in Nat,
         NEW dog, dog = [loc |-> p, dir |-> dir, speed |-> SpeedTowards(dir, pace)],
         Unjointed(roads) \/ dir = "D"
  PROVE  UpdateDogLocation(IndexOf(roads), dog, a + b) =
           UpdateDogLocation(IndexOf(roads), UpdateDogLocation(IndexOf(roads), dog, a), b)
<1> DEFINE index  == IndexOf(roads)
           lane   == LaneOf(FindHorizontal(index, p), FindVertical(index, p), dir)
           speed  == SpeedTowards(dir, pace)
           v      == IF dir = "D" THEN pace ELSE -pace
           border == IF dir = "D" THEN UpperBorder(lane).y ELSE LowerBorder(lane).y
           from   == p.y
           u      == v * a
           w      == v * b
           first  == WalkUntil(from, from + u, border)
           second == WalkUntil(first, first + w, border)
           whole  == WalkUntil(from, from + (u + w), border)
           q      == [x |-> p.x, y |-> first]
<1>1. FindHorizontal(index, p) # {} \/ FindVertical(index, p) # {}
  BY LookupExact DEF OnRoad
<1>2. lane \in RoadType /\ Covers(lane, p)
  BY <1>1, LaneAlong
<1> HIDE DEF lane
<1>3. /\ p.x \in Int /\ p.y \in Int /\ from \in Int /\ v \in Int /\ border \in Int
      /\ speed \in Point /\ speed.y = v /\ speed.x = 0
  BY <1>2, Corners DEF Point, SpeedTowards
<1>4. /\ LowerBorder(lane).y \in Int /\ UpperBorder(lane).y \in Int
      /\ LowerBorder(lane).y <= from /\ from <= UpperBorder(lane).y
      /\ border = IF dir = "D" THEN UpperBorder(lane).y ELSE LowerBorder(lane).y
  BY <1>2, Corners DEF Covers
<1>5. /\ v * (a + b) = u + w /\ u \in Int /\ w \in Int /\ 0 * b = 0
      /\ \/ from <= border /\ u >= 0 /\ w >= 0
         \/ border <= from /\ u <= 0 /\ w <= 0
  <2>1. /\ pace * a \in Nat /\ pace * b \in Nat /\ pace * (a + b) = pace * a + pace * b
        /\ (-pace) * a = -(pace * a) /\ (-pace) * b = -(pace * b)
        /\ (-pace) * (a + b) = -(pace * (a + b)) /\ 0 * b = 0
    OBVIOUS
  <2>2. CASE dir = "D"
    <3>1. u = pace * a /\ w = pace * b /\ v * (a + b) = pace * (a + b)
      BY <2>2
    <3>2. border = UpperBorder(lane).y
      BY <1>4, <2>2
    <3> HIDE DEF u, w, v, border, from
    <3> QED
      BY <1>4, <2>1, <3>1, <3>2
  <2>3. CASE dir # "D"
    <3>1. u = (-pace) * a /\ w = (-pace) * b /\ v * (a + b) = (-pace) * (a + b)
      BY <2>3
    <3>2. border = LowerBorder(lane).y
      BY <1>4, <2>3
    <3> HIDE DEF u, w, v, border, from
    <3> QED
      BY <1>4, <2>1, <3>1, <3>2
  <2> QED
    BY <2>2, <2>3
<1> HIDE DEF from, border, u, w, v, speed
<1> HIDE DEF first, second, whole
<1>6. /\ first \in Int /\ second \in Int /\ whole \in Int
      /\ from <= border => from <= first /\ first <= border
      /\ border <= from => border <= first /\ first <= from
      /\ first = from + u =>
           /\ second = whole
           /\ second = first + w <=> whole = from + (u + w)
      /\ first # from + u => whole = first /\ whole # from + (u + w)
      /\ WalkUntil(first, first, border) = first
  <2>1. /\ first = WalkUntil(from, from + u, border)
        /\ second = WalkUntil(first, first + w, border)
        /\ whole = WalkUntil(from, from + (u + w), border)
    BY DEF first, second, whole
  <2>2. from \in Int /\ border \in Int
    BY <1>3
  <2> QED
    BY <1>5, <2>1, <2>2 DEF WalkUntil, Abs
<1>7. q \in Point /\ q.x = p.x /\ q.y = first
  BY <1>3, <1>6 DEF Point
<1>8. Covers(lane, q)
  <2>1. LowerBorder(lane).y <= first /\ first <= UpperBorder(lane).y
    <3>1. border \in {LowerBorder(lane).y, UpperBorder(lane).y}
      BY <1>4
    <3> QED
      BY <1>3, <1>4, <1>6, <3>1
  <2> QED
    BY <1>2, <1>7, <2>1 DEF Covers
<1>9. /\ FindHorizontal(index, q) # {} \/ FindVertical(index, q) # {}
      /\ LaneOf(FindHorizontal(index, q), FindVertical(index, q), dir) = lane
  <2>1. dir = "D" => p.y <= q.y
    BY <1>4, <1>6, <1>7 DEF from
  <2> QED
    BY <1>1, <1>7, <1>8, <2>1, ColumnKept DEF lane
<1> HIDE DEF q
<1>10. \A time \in Int : UpdateDogLocation(index, dog, time) = Walk(lane, dog, time)
  BY <1>1 DEF UpdateDogLocation, lane
<1>11. UpdateDogLocation(index, dog, a + b) =
         [loc |-> [x |-> p.x, y |-> whole], dir |-> dir,
          speed |-> IF whole = from + (u + w) THEN speed ELSE Still]
  <2> DEFINE time == a + b
             far  == from + (u + w)
  <2>1. p.y + speed.y * time = far /\ p.x + speed.x * time = p.x
    <3>1. v * time = u + w /\ time \in Int
      BY <1>5
    <3> HIDE DEF time
    <3>2. speed.y * time = u + w /\ 0 * time = 0
      BY <1>3, <3>1
    <3>3. speed.x * time = 0 /\ p.x + 0 = p.x
      BY <1>3, <3>2
    <3> QED
      BY <3>2, <3>3 DEF from
  <2>2. dog = [loc |-> p, dir |-> dir, speed |-> speed]
    BY DEF speed
  <2>3. ColumnEnd(lane, p, dir, far) = whole
    BY <1>4 DEF ColumnEnd, from, whole
  <2> HIDE DEF time, far
  <2>4. Target(dog, time) = [x |-> p.x, y |-> far]
    BY <2>1, <2>2 DEF Target
  <2>5. Walk(lane, dog, time) =
          [loc |-> [x |-> p.x, y |-> ColumnEnd(lane, p, dir, far)], dir |-> dir,
           speed |-> IF ColumnEnd(lane, p, dir, far) = far THEN speed ELSE Still]
    BY <2>2, <2>4, ColumnWalk
  <2> QED
    BY <1>10, <2>1, <2>3, <2>5 DEF time, far
<1>12. UpdateDogLocation(index, dog, a) =
         [loc |-> q, dir |-> dir, speed |-> IF first = from + u THEN speed ELSE Still]
  <2> DEFINE far == from + u
  <2>1. p.y + speed.y * a = far /\ p.x + speed.x * a = p.x
    BY <1>3, <1>5 DEF from, u
  <2>2. dog = [loc |-> p, dir |-> dir, speed |-> speed]
    BY DEF speed
  <2>3. ColumnEnd(lane, p, dir, far) = first
    BY <1>4 DEF ColumnEnd, from, first
  <2> HIDE DEF far
  <2>4. Target(dog, a) = [x |-> p.x, y |-> far]
    BY <2>1, <2>2 DEF Target
  <2>5. Walk(lane, dog, a) =
          [loc |-> [x |-> p.x, y |-> ColumnEnd(lane, p, dir, far)], dir |-> dir,
           speed |-> IF ColumnEnd(lane, p, dir, far) = far THEN speed ELSE Still]
    BY <2>2, <2>4, ColumnWalk
  <2> QED
    BY <1>10, <2>3, <2>5 DEF far, q
<1>13. ASSUME NEW s, NEW far,
              NEW next, next = [loc |-> q, dir |-> dir, speed |-> s],
              Target(next, b) = [x |-> q.x, y |-> far]
       PROVE  UpdateDogLocation(index, next, b) =
                [loc |-> [x |-> q.x, y |-> ColumnEnd(lane, q, dir, far)], dir |-> dir,
                 speed |-> IF ColumnEnd(lane, q, dir, far) = far THEN s ELSE Still]
  <2>1. UpdateDogLocation(index, next, b) = Walk(lane, next, b)
    BY <1>9, <1>13 DEF UpdateDogLocation
  <2>2. Walk(lane, next, b) =
          [loc |-> [x |-> q.x, y |-> ColumnEnd(lane, q, dir, far)], dir |-> dir,
           speed |-> IF ColumnEnd(lane, q, dir, far) = far THEN s ELSE Still]
    BY <1>13, ColumnWalk
  <2> QED
    BY <2>1, <2>2
<1>14. CASE first = from + u
  <2> DEFINE next == [loc |-> q, dir |-> dir, speed |-> speed]
             far  == first + w
  <2>1. q.y + speed.y * b = far /\ q.x + speed.x * b = q.x
    BY <1>3, <1>5, <1>6, <1>7 DEF w
  <2>2. next = [loc |-> q, dir |-> dir, speed |-> speed]
    OBVIOUS
  <2>3. UpdateDogLocation(index, dog, a) = next
    BY <1>12, <1>14
  <2>4. ColumnEnd(lane, q, dir, far) = second
    BY <1>4, <1>7 DEF ColumnEnd, second
  <2> HIDE DEF next, far
  <2>5. Target(next, b) = [x |-> q.x, y |-> far]
    BY <2>1, <2>2 DEF Target
  <2>6. UpdateDogLocation(index, next, b) =
          [loc |-> [x |-> q.x, y |-> ColumnEnd(lane, q, dir, far)], dir |-> dir,
           speed |-> IF ColumnEnd(lane, q, dir, far) = far THEN speed ELSE Still]
    BY <1>13, <2>2, <2>5
  <2> QED
    BY <1>6, <1>7, <1>11, <1>14, <2>3, <2>4, <2>6 DEF far
<1>15. CASE first # from + u
  <2> DEFINE next == [loc |-> q, dir |-> dir, speed |-> Still]
  <2>1. q.y + Still.y * b = first /\ q.x + Still.x * b = q.x
    BY <1>3, <1>6, <1>7 DEF Still
  <2>2. next = [loc |-> q, dir |-> dir, speed |-> Still]
    OBVIOUS
  <2>3. UpdateDogLocation(index, dog, a) = next
    BY <1>12, <1>15
  <2>4. ColumnEnd(lane, q, dir, first) = first
    BY <1>4, <1>6, <1>7 DEF ColumnEnd
  <2> HIDE DEF next
  <2>5. Target(next, b) = [x |-> q.x, y |-> first]
    BY <2>1, <2>2 DEF Target
  <2>6. UpdateDogLocation(index, next, b) =
          [loc |-> [x |-> q.x, y |-> ColumnEnd(lane, q, dir, first)], dir |-> dir,
           speed |-> IF ColumnEnd(lane, q, dir, first) = first THEN Still ELSE Still]
    BY <1>13, <2>2, <2>5
  <2> QED
    BY <1>6, <1>7, <1>11, <1>15, <2>3, <2>4, <2>6
<1> QED
  BY <1>14, <1>15

\* Where a walk to the left or right ends.
RowEnd(lane, p, dir, far) ==
  WalkUntil(p.x, far, IF dir = "R" THEN UpperBorder(lane).x ELSE LowerBorder(lane).x)

\* A walk to the left or right in numbers.
LEMMA RowWalk ==
  ASSUME NEW lane, NEW p, NEW dir, dir = "L" \/ dir = "R", NEW speed, NEW time, NEW far,
         NEW dog, dog = [loc |-> p, dir |-> dir, speed |-> speed],
         Target(dog, time) = [x |-> far, y |-> p.y]
  PROVE  Walk(lane, dog, time) =
           [loc |-> [x |-> RowEnd(lane, p, dir, far), y |-> p.y], dir |-> dir,
            speed |-> IF RowEnd(lane, p, dir, far) = far THEN speed ELSE Still]
<1> DEFINE there   == Target(dog, time)
           arrival == Arrival(lane, dog, time)
           end     == RowEnd(lane, p, dir, far)
           stop    == IF end = far THEN speed ELSE Still
<1>1. there = [x |-> far, y |-> p.y]
  OBVIOUS
<1>2. end = IF dir = "R" THEN WalkUntil(p.x, far, UpperBorder(lane).x)
                        ELSE WalkUntil(p.x, far, LowerBorder(lane).x)
  BY DEF RowEnd
<1> HIDE DEF end, there
<1>3. arrival = [there EXCEPT !.x = end]
  BY <1>1, <1>2 DEF Arrival, there
<1>4. arrival = [x |-> end, y |-> p.y]
  BY <1>1, <1>3
<1>5. arrival = there <=> end = far
  BY <1>1, <1>4
<1>6. dog.speed = speed
  OBVIOUS
<1>7. stop = IF arrival = there THEN dog.speed ELSE Still
  BY <1>5, <1>6
<1> HIDE DEF arrival, stop
<1>8. Walk(lane, dog, time) = [dog EXCEPT !.loc = arrival, !.speed = stop]
  BY <1>7 DEF Walk, arrival, there
<1>9. Walk(lane, dog, time) = [loc |-> arrival, dir |-> dir, speed |-> stop]
  BY <1>8
<1> QED
  BY <1>4, <1>9 DEF end, stop

\* To the left or right: a tick in two parts.
LEMMA RowSplit ==
  ASSUME NEW roads \in Seq(RoadType), WellFormed(roads),
         NEW p \in Point, OnRoad(roads, p), NEW dir \in {"L", "R"},
         NEW pace \in Nat, NEW a \in Nat, NEW b \in Nat,
         NEW dog, dog = [loc |-> p, dir |-> dir, speed |-> SpeedTowards(dir, pace)],
         Unjointed(roads) \/ dir = "R"
  PROVE  UpdateDogLocation(IndexOf(roads), dog, a + b) =
           UpdateDogLocation(IndexOf(roads), UpdateDogLocation(IndexOf(roads), dog, a), b)
<1> DEFINE index  == IndexOf(roads)
           lane   == LaneOf(FindHorizontal(index, p), FindVertical(index, p), dir)
           speed  == SpeedTowards(dir, pace)
           v      == IF dir = "R" THEN pace ELSE -pace
           border == IF dir = "R" THEN UpperBorder(lane).x ELSE LowerBorder(lane).x
           from   == p.x
           u      == v * a
           w      == v * b
           first  == WalkUntil(from, from + u, border)
           second == WalkUntil(first, first + w, border)
           whole  == WalkUntil(from, from + (u + w), border)
           q      == [x |-> first, y |-> p.y]
<1>1. FindHorizontal(index, p) # {} \/ FindVertical(index, p) # {}
  BY LookupExact DEF OnRoad
<1>2. lane \in RoadType /\ Covers(lane, p)
  BY <1>1, LaneAlong
<1> HIDE DEF lane
<1>3. /\ p.x \in Int /\ p.y \in Int /\ from \in Int /\ v \in Int /\ border \in Int
      /\ speed \in Point /\ speed.x = v /\ speed.y = 0
  BY <1>2, Corners DEF Point, SpeedTowards
<1>4. /\ LowerBorder(lane).x \in Int /\ UpperBorder(lane).x \in Int
      /\ LowerBorder(lane).x <= from /\ from <= UpperBorder(lane).x
      /\ border = IF dir = "R" THEN UpperBorder(lane).x ELSE LowerBorder(lane).x
  BY <1>2, Corners DEF Covers
<1>5. /\ v * (a + b) = u + w /\ u \in Int /\ w \in Int /\ 0 * b = 0
      /\ \/ from <= border /\ u >= 0 /\ w >= 0
         \/ border <= from /\ u <= 0 /\ w <= 0
  <2>1. /\ pace * a \in Nat /\ pace * b \in Nat /\ pace * (a + b) = pace * a + pace * b
        /\ (-pace) * a = -(pace * a) /\ (-pace) * b = -(pace * b)
        /\ (-pace) * (a + b) = -(pace * (a + b)) /\ 0 * b = 0
    OBVIOUS
  <2>2. CASE dir = "R"
    <3>1. u = pace * a /\ w = pace * b /\ v * (a + b) = pace * (a + b)
      BY <2>2
    <3>2. border = UpperBorder(lane).x
      BY <1>4, <2>2
    <3> HIDE DEF u, w, v, border, from
    <3> QED
      BY <1>4, <2>1, <3>1, <3>2
  <2>3. CASE dir # "R"
    <3>1. u = (-pace) * a /\ w = (-pace) * b /\ v * (a + b) = (-pace) * (a + b)
      BY <2>3
    <3>2. border = LowerBorder(lane).x
      BY <1>4, <2>3
    <3> HIDE DEF u, w, v, border, from
    <3> QED
      BY <1>4, <2>1, <3>1, <3>2
  <2> QED
    BY <2>2, <2>3
<1> HIDE DEF from, border, u, w, v, speed
<1> HIDE DEF first, second, whole
<1>6. /\ first \in Int /\ second \in Int /\ whole \in Int
      /\ from <= border => from <= first /\ first <= border
      /\ border <= from => border <= first /\ first <= from
      /\ first = from + u =>
           /\ second = whole
           /\ second = first + w <=> whole = from + (u + w)
      /\ first # from + u => whole = first /\ whole # from + (u + w)
      /\ WalkUntil(first, first, border) = first
  <2>1. /\ first = WalkUntil(from, from + u, border)
        /\ second = WalkUntil(first, first + w, border)
        /\ whole = WalkUntil(from, from + (u + w), border)
    BY DEF first, second, whole
  <2>2. from \in Int /\ border \in Int
    BY <1>3
  <2> QED
    BY <1>5, <2>1, <2>2 DEF WalkUntil, Abs
<1>7. q \in Point /\ q.y = p.y /\ q.x = first
  BY <1>3, <1>6 DEF Point
<1>8. Covers(lane, q)
  <2>1. LowerBorder(lane).x <= first /\ first <= UpperBorder(lane).x
    <3>1. border \in {LowerBorder(lane).x, UpperBorder(lane).x}
      BY <1>4
    <3> QED
      BY <1>3, <1>4, <1>6, <3>1
  <2> QED
    BY <1>2, <1>7, <2>1 DEF Covers
<1>9. /\ FindHorizontal(index, q) # {} \/ FindVertical(index, q) # {}
      /\ LaneOf(FindHorizontal(index, q), FindVertical(index, q), dir) = lane
  <2>1. dir = "R" => p.x <= q.x
    BY <1>4, <1>6, <1>7 DEF from
  <2> QED
    BY <1>1, <1>7, <1>8, <2>1, RowKept DEF lane
<1> HIDE DEF q
<1>10. \A time \in Int : UpdateDogLocation(index, dog, time) = Walk(lane, dog, time)
  BY <1>1 DEF UpdateDogLocation, lane
<1>11. UpdateDogLocation(index, dog, a + b) =
         [loc |-> [x |-> whole, y |-> p.y], dir |-> dir,
          speed |-> IF whole = from + (u + w) THEN speed ELSE Still]
  <2> DEFINE time == a + b
             far  == from + (u + w)
  <2>1. p.x + speed.x * time = far /\ p.y + speed.y * time = p.y
    <3>1. v * time = u + w /\ time \in Int
      BY <1>5
    <3> HIDE DEF time
    <3>2. speed.x * time = u + w /\ 0 * time = 0
      BY <1>3, <3>1
    <3>3. speed.y * time = 0 /\ p.y + 0 = p.y
      BY <1>3, <3>2
    <3> QED
      BY <3>2, <3>3 DEF from
  <2>2. dog = [loc |-> p, dir |-> dir, speed |-> speed]
    BY DEF speed
  <2>3. RowEnd(lane, p, dir, far) = whole
    BY <1>4 DEF RowEnd, from, whole
  <2> HIDE DEF time, far
  <2>4. Target(dog, time) = [x |-> far, y |-> p.y]
    BY <2>1, <2>2 DEF Target
  <2>5. Walk(lane, dog, time) =
          [loc |-> [x |-> RowEnd(lane, p, dir, far), y |-> p.y], dir |-> dir,
           speed |-> IF RowEnd(lane, p, dir, far) = far THEN speed ELSE Still]
    BY <2>2, <2>4, RowWalk
  <2> QED
    BY <1>10, <2>1, <2>3, <2>5 DEF time, far
<1>12. UpdateDogLocation(index, dog, a) =
         [loc |-> q, dir |-> dir, speed |-> IF first = from + u THEN speed ELSE Still]
  <2> DEFINE far == from + u
  <2>1. p.x + speed.x * a = far /\ p.y + speed.y * a = p.y
    BY <1>3, <1>5 DEF from, u
  <2>2. dog = [loc |-> p, dir |-> dir, speed |-> speed]
    BY DEF speed
  <2>3. RowEnd(lane, p, dir, far) = first
    BY <1>4 DEF RowEnd, from, first
  <2> HIDE DEF far
  <2>4. Target(dog, a) = [x |-> far, y |-> p.y]
    BY <2>1, <2>2 DEF Target
  <2>5. Walk(lane, dog, a) =
          [loc |-> [x |-> RowEnd(lane, p, dir, far), y |-> p.y], dir |-> dir,
           speed |-> IF RowEnd(lane, p, dir, far) = far THEN speed ELSE Still]
    BY <2>2, <2>4, RowWalk
  <2> QED
    BY <1>10, <2>3, <2>5 DEF far, q
<1>13. ASSUME NEW s, NEW far,
              NEW next, next = [loc |-> q, dir |-> dir, speed |-> s],
              Target(next, b) = [x |-> far, y |-> q.y]
       PROVE  UpdateDogLocation(index, next, b) =
                [loc |-> [x |-> RowEnd(lane, q, dir, far), y |-> q.y], dir |-> dir,
                 speed |-> IF RowEnd(lane, q, dir, far) = far THEN s ELSE Still]
  <2>1. UpdateDogLocation(index, next, b) = Walk(lane, next, b)
    BY <1>9, <1>13 DEF UpdateDogLocation
  <2>2. Walk(lane, next, b) =
          [loc |-> [x |-> RowEnd(lane, q, dir, far), y |-> q.y], dir |-> dir,
           speed |-> IF RowEnd(lane, q, dir, far) = far THEN s ELSE Still]
    BY <1>13, RowWalk
  <2> QED
    BY <2>1, <2>2
<1>14. CASE first = from + u
  <2> DEFINE next == [loc |-> q, dir |-> dir, speed |-> speed]
             far  == first + w
  <2>1. q.x + speed.x * b = far /\ q.y + speed.y * b = q.y
    BY <1>3, <1>5, <1>6, <1>7 DEF w
  <2>2. next = [loc |-> q, dir |-> dir, speed |-> speed]
    OBVIOUS
  <2>3. UpdateDogLocation(index, dog, a) = next
    BY <1>12, <1>14
  <2>4. RowEnd(lane, q, dir, far) = second
    BY <1>4, <1>7 DEF RowEnd, second
  <2> HIDE DEF next, far
  <2>5. Target(next, b) = [x |-> far, y |-> q.y]
    BY <2>1, <2>2 DEF Target
  <2>6. UpdateDogLocation(index, next, b) =
          [loc |-> [x |-> RowEnd(lane, q, dir, far), y |-> q.y], dir |-> dir,
           speed |-> IF RowEnd(lane, q, dir, far) = far THEN speed ELSE Still]
    BY <1>13, <2>2, <2>5
  <2> QED
    BY <1>6, <1>7, <1>11, <1>14, <2>3, <2>4, <2>6 DEF far
<1>15. CASE first # from + u
  <2> DEFINE next == [loc |-> q, dir |-> dir, speed |-> Still]
  <2>1. q.x + Still.x * b = first /\ q.y + Still.y * b = q.y
    BY <1>3, <1>6, <1>7 DEF Still
  <2>2. next = [loc |-> q, dir |-> dir, speed |-> Still]
    OBVIOUS
  <2>3. UpdateDogLocation(index, dog, a) = next
    BY <1>12, <1>15
  <2>4. RowEnd(lane, q, dir, first) = first
    BY <1>4, <1>6, <1>7 DEF RowEnd
  <2> HIDE DEF next
  <2>5. Target(next, b) = [x |-> first, y |-> q.y]
    BY <2>1, <2>2 DEF Target
  <2>6. UpdateDogLocation(index, next, b) =
          [loc |-> [x |-> RowEnd(lane, q, dir, first), y |-> q.y], dir |-> dir,
           speed |-> IF RowEnd(lane, q, dir, first) = first THEN Still ELSE Still]
    BY <1>13, <2>2, <2>5
  <2> QED
    BY <1>6, <1>7, <1>11, <1>15, <2>3, <2>4, <2>6
<1> QED
  BY <1>14, <1>15

\* UpdateDogLocation in one tick or in two that last as long: the same for a dog that
\* heads down or right or stands, and for all where no road continues another.
THEOREM UpdateSplits ==
  ASSUME NEW roads \in Seq(RoadType), WellFormed(roads),
         NEW p \in Point, OnRoad(roads, p), NEW dir \in Directions,
         NEW pace \in Nat, NEW a \in Nat, NEW b \in Nat,
         dir \in {"U", "L"} => Unjointed(roads)
  PROVE  LET dog == [loc |-> p, dir |-> dir, speed |-> SpeedTowards(dir, pace)]
         IN  UpdateDogLocation(IndexOf(roads), dog, a + b) =
               UpdateDogLocation(IndexOf(roads), UpdateDogLocation(IndexOf(roads), dog, a), b)
<1> DEFINE dog == [loc |-> p, dir |-> dir, speed |-> SpeedTowards(dir, pace)]
<1>1. CASE dir \in {"U", "D"}
  <2> HIDE DEF dog
  <2> QED BY <1>1, ColumnSplit DEF dog
<1>2. CASE dir \in {"L", "R"}
  <2> HIDE DEF dog
  <2> QED BY <1>2, RowSplit DEF dog
<1>3. CASE dir = "S"
  <2>1. dog = [loc |-> p, dir |-> "S", speed |-> Still]
    BY <1>3 DEF SpeedTowards
  <2>2. p = [x |-> p.x, y |-> p.y] /\ p.x \in Int /\ p.y \in Int
    BY DEF Point
  <2> HIDE DEF dog
  <2>3. ASSUME NEW time \in Int
        PROVE  UpdateDogLocation(IndexOf(roads), dog, time) = dog
    <3>1. Target(dog, time) = p
      <4>1. p.x + 0 * time = p.x /\ p.y + 0 * time = p.y
        BY <2>2
      <4> QED
        BY <2>1, <2>2, <4>1 DEF Target, Still
    <3>2. \A lane : Arrival(lane, dog, time) = p
      BY <2>1 DEF Arrival
    <3>3. /\ [dog EXCEPT !.loc = dog.loc, !.speed = dog.speed] = dog
          /\ dog.loc = p /\ dog.speed = Still
      BY <2>1
    <3>4. \A lane : Walk(lane, dog, time) = dog
      BY <2>1, <3>1, <3>2, <3>3 DEF Walk
    <3> QED
      BY <3>4 DEF UpdateDogLocation
  <2> QED
    BY <2>3 DEF dog
<1> QED
  BY <1>1, <1>2, <1>3 DEF Directions
=============================================================================
