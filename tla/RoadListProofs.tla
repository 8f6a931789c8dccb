--------------------------- MODULE RoadListProofs ---------------------------
(***************************************************************************)
(* The index of a map, its lookup, and the page's tiles of it, for every   *)
(* list of roads and without the bounds of the model checker.              *)
(***************************************************************************)
EXTENDS MapTiles, RoadsProofs, SequenceTheorems, FiniteSetTheorems

ListTypeOK == roads \in Seq(RoadType) /\ WellFormed(roads)

\* What AddRoad has inserted so far is what FindRoads takes as the index of the list.
IndexMatchesList == index = IndexOf(roads)

IInv == ListTypeOK /\ IndexMatchesList

\* What AddHorizontal and AddVertical append is a road.
LEMMA AddedRoad ==
  ASSUME AddHorizontal \/ AddVertical
  PROVE  \E road \in RoadType : AddRoad(road)
<1>1. CASE AddHorizontal
  <2>1. PICK x \in Coords, y \in Coords, endX \in Coords :
          AddRoad(HorizontalRoad([x |-> x, y |-> y], endX))
    BY <1>1 DEF AddHorizontal
  <2>2. HorizontalRoad([x |-> x, y |-> y], endX) \in RoadType
    BY ListAssumption DEF HorizontalRoad, RoadType, Point
  <2> QED
    BY <2>1, <2>2
<1>2. CASE AddVertical
  <2>1. PICK x \in Coords, y \in Coords, endY \in Coords :
          AddRoad(VerticalRoad([x |-> x, y |-> y], endY))
    BY <1>2 DEF AddVertical
  <2>2. VerticalRoad([x |-> x, y |-> y], endY) \in RoadType
    BY ListAssumption DEF VerticalRoad, RoadType, Point
  <2> QED
    BY <2>1, <2>2
<1> QED
  BY <1>1, <1>2

\* On a well-formed list an index holds all the roads of its orientation.
LEMMA IndexHoldsAll ==
  ASSUME NEW list \in Seq(RoadType), WellFormed(list)
  PROVE  /\ HorizontalRoads(list) =
              {list[i] : i \in {k \in DOMAIN list : ~IsVertical(list[k])}}
         /\ VerticalRoads(list) =
              {list[i] : i \in {k \in DOMAIN list : IsVertical(list[k])}}
<1>1. \A i \in DOMAIN list : ~IndexedBefore(list, i)
  BY IndexComplete
<1> QED
  BY <1>1 DEF HorizontalRoads, VerticalRoads

\* Map::AddRoad keeps the index that of the list.
LEMMA AddRoadIndexes ==
  ASSUME IInv, NEW road \in RoadType, AddRoad(road), WellFormed(roads')
  PROVE  IInv'
<1> DEFINE n == Len(roads) + 1
<1>1. /\ roads' = Append(roads, road) /\ roads' \in Seq(RoadType)
      /\ DOMAIN roads = 1 .. n - 1 /\ DOMAIN roads' = 1 .. n /\ n \in Nat
      /\ \A i \in 1 .. n - 1 : roads'[i] = roads[i]
      /\ roads'[n] = road
  BY AppendProperties, LenProperties DEF AddRoad, IInv, ListTypeOK
<1>2. \A i \in DOMAIN roads :
        IsVertical(roads[i]) = IsVertical(road) => UpperBorder(roads[i]) # UpperBorder(road)
  <2> SUFFICES ASSUME NEW i \in DOMAIN roads, IsVertical(roads[i]) = IsVertical(road)
               PROVE  UpperBorder(roads[i]) # UpperBorder(road)
    OBVIOUS
  <2>1. i \in DOMAIN roads' /\ n \in DOMAIN roads' /\ i # n
        /\ roads'[i] = roads[i] /\ roads'[n] = road
    BY <1>1
  <2>2. IsVertical(roads'[i]) = IsVertical(roads'[n])
    BY <2>1
  <2> DEFINE list == roads'
  <2>3. list \in Seq(RoadType) /\ WellFormed(list) /\ i \in DOMAIN list /\ n \in DOMAIN list
        /\ IsVertical(list[i]) = IsVertical(list[n]) /\ i # n
    BY <1>1, <2>1, <2>2
  <2> HIDE DEF list, n
  <2>4. UpperBorder(list[i]) # UpperBorder(list[n])
    BY <2>3, CornersDiffer
  <2> QED
    BY <2>1, <2>4 DEF list
<1>3. /\ index.horizontal = HorizontalRoads(roads) /\ index.vertical = VerticalRoads(roads)
      /\ index = [horizontal |-> HorizontalRoads(roads), vertical |-> VerticalRoads(roads)]
  BY DEF IInv, IndexMatchesList, IndexOf
<1>4. DOMAIN roads' = DOMAIN roads \cup {n} /\ n \notin DOMAIN roads
  BY <1>1
<1> DEFINE rows(list)    == {list[i] : i \in {k \in DOMAIN list : ~IsVertical(list[k])}}
           columns(list) == {list[i] : i \in {k \in DOMAIN list : IsVertical(list[k])}}
<1>5. /\ HorizontalRoads(roads) = rows(roads) /\ VerticalRoads(roads) = columns(roads)
      /\ HorizontalRoads(roads') = rows(roads') /\ VerticalRoads(roads') = columns(roads')
  BY <1>1, IndexHoldsAll DEF IInv, ListTypeOK
<1>6. CASE IsVertical(road)
  <2>1. HorizontalRoads(roads') = HorizontalRoads(roads)
    BY <1>1, <1>4, <1>5, <1>6
  <2>2. VerticalRoads(roads') = VerticalRoads(roads) \cup {road}
    BY <1>1, <1>4, <1>5, <1>6
  <2>3. InsertInto(VerticalRoads(roads), road) = VerticalRoads(roads) \cup {road}
    BY <1>2, <1>5, <1>6 DEF InsertInto, IsVertical
  <2>4. index' = [horizontal |-> HorizontalRoads(roads),
                  vertical   |-> InsertInto(VerticalRoads(roads), road)]
    BY <1>3, <1>6 DEF AddRoad
  <2> QED
    BY <1>1, <2>1, <2>2, <2>3, <2>4 DEF IInv, ListTypeOK, IndexMatchesList, IndexOf
<1>7. CASE ~IsVertical(road)
  <2>1. VerticalRoads(roads') = VerticalRoads(roads)
    BY <1>1, <1>4, <1>5, <1>7
  <2>2. HorizontalRoads(roads') = HorizontalRoads(roads) \cup {road}
    BY <1>1, <1>4, <1>5, <1>7
  <2>3. InsertInto(HorizontalRoads(roads), road) = HorizontalRoads(roads) \cup {road}
    BY <1>2, <1>5, <1>7 DEF InsertInto, IsVertical
  <2>4. index' = [horizontal |-> InsertInto(HorizontalRoads(roads), road),
                  vertical   |-> VerticalRoads(roads)]
    BY <1>3, <1>7 DEF AddRoad
  <2> QED
    BY <1>1, <2>1, <2>2, <2>3, <2>4 DEF IInv, ListTypeOK, IndexMatchesList, IndexOf
<1> QED
  BY <1>6, <1>7

\* The map's two sets hold what the list of its roads says, at every step of AddRoads.
LEMMA IndexInvariant == Spec => []IInv
<1>1. ASSUME Init
      PROVE  IInv
  <2>1. roads = <<>> /\ DOMAIN roads = {} /\ roads \in Seq(RoadType)
    BY <1>1, EmptySeq DEF Init
  <2>2. WellFormed(roads)
    BY <2>1 DEF WellFormed
  <2>3. HorizontalRoads(roads) = {} /\ VerticalRoads(roads) = {}
    BY <2>1 DEF HorizontalRoads, VerticalRoads
  <2> QED
    BY <1>1, <2>1, <2>2, <2>3 DEF Init, IInv, ListTypeOK, IndexMatchesList, IndexOf
<1>2. IInv /\ [Next]_<<roads, index>> => IInv'
  <2> SUFFICES ASSUME IInv, [Next]_<<roads, index>>
               PROVE  IInv'
    OBVIOUS
  <2>1. CASE Next
    BY <2>1, AddedRoad, AddRoadIndexes DEF Next
  <2>2. CASE UNCHANGED <<roads, index>>
    BY <2>2 DEF IInv, ListTypeOK, WellFormed, IndexMatchesList
  <2> QED
    BY <2>1, <2>2
<1> QED
  BY <1>1, <1>2, PTL DEF Spec

\* Map::FindRoads is exact on every map that AddRoads can build.
THEOREM FindIsExact == Spec => []FindExact
<1>1. Points \subseteq Point
  <2>1. Around \subseteq Int
    BY GridAssumption, ListAssumption DEF Around
  <2> QED
    BY <2>1 DEF Points, Point
<1>2. IInv => FindExact
  <2> SUFFICES ASSUME IInv, NEW p \in Points
               PROVE  LET hor  == FindHorizontal(index, p)
                          vert == FindVertical(index, p)
                          on(vertical) == {i \in DOMAIN roads :
                                             IsVertical(roads[i]) = vertical /\ Covers(roads[i], p)}
                      IN  /\ \A r \in hor \cup vert : Covers(r, p)
                          /\ hor # {} <=> on(FALSE) # {}
                          /\ vert # {} <=> on(TRUE) # {}
    BY DEF FindExact
  <2>1. index = IndexOf(roads) /\ roads \in Seq(RoadType) /\ WellFormed(roads) /\ p \in Point
    BY <1>1 DEF IInv, ListTypeOK, IndexMatchesList
  <2> QED
    BY <2>1, LookupExact DEF IsVertical
<1> QED
  BY <1>2, IndexInvariant, PTL

\* What std::set::find takes for granted of the roads of one index and a location: the
\* roads before it come first, those that it is before last, and none is both.
LEMMA RowsPartition ==
  ASSUME NEW list \in Seq(RoadType), WellFormed(list), NEW p \in Point,
         NEW r \in IndexOf(list).horizontal, NEW q \in IndexOf(list).horizontal
  PROVE  /\ ~(RowBeforePoint(r, p) /\ PointBeforeRow(p, r))
         /\ RowOrder(q, r) => /\ RowBeforePoint(r, p) => RowBeforePoint(q, p)
                              /\ PointBeforeRow(p, q) => PointBeforeRow(p, r)
<1>1. /\ r \in RoadType /\ ~IsVertical(r) /\ r.start # r.end
      /\ q \in RoadType /\ ~IsVertical(q) /\ q.start # q.end
  BY HorizontalMembers
<1>2. /\ Near(r).y = r.start.y /\ Far(r).y = r.start.y /\ Near(r).x < Far(r).x
      /\ Near(q).y = q.start.y /\ Far(q).y = q.start.y /\ Near(q).x < Far(q).x
  BY <1>1, RoadLine
<1>3. /\ p.x \in Int /\ p.y \in Int
      /\ LowerBorder(r).x \in Int /\ LowerBorder(r).y \in Int
      /\ UpperBorder(r).x \in Int /\ UpperBorder(r).y \in Int
      /\ LowerBorder(q).x \in Int /\ LowerBorder(q).y \in Int
      /\ UpperBorder(q).x \in Int /\ UpperBorder(q).y \in Int
      /\ LowerBorder(r).x <= UpperBorder(r).x /\ LowerBorder(r).y <= UpperBorder(r).y
      /\ LowerBorder(q).y <= UpperBorder(q).y
  BY <1>1, Corners, RoadBorders DEF Point
<1>4. ~(RowBeforePoint(r, p) /\ PointBeforeRow(p, r))
  BY <1>3 DEF RowBeforePoint, PointBeforeRow
<1>5. CASE UpperBorder(q).y < UpperBorder(r).y
  <2>1. UpperBorder(q).y < LowerBorder(r).y
    BY <1>1, <1>2, <1>5, Apart, Scale, Corners
  <2> QED
    BY <1>3, <1>4, <2>1 DEF RowBeforePoint, PointBeforeRow
<1>6. CASE UpperBorder(q).y = UpperBorder(r).y /\ UpperBorder(q).x < UpperBorder(r).x
  <2>1. Far(q).x < Far(r).x /\ q.start.y = r.start.y
    BY <1>1, <1>2, <1>6, Scale, Corners
  <2>2. Far(q).x <= Near(r).x
    BY <1>1, <1>2, <2>1, HorizontalMembers, Corners
  <2>3. LowerBorder(q).x <= LowerBorder(r).x
    <3>1. Near(q).x <= Near(r).x /\ Near(q).x \in Int /\ Near(r).x \in Int
      BY <1>1, <1>2, <2>2, Corners
    <3>2. Cell * Near(q).x <= Cell * Near(r).x /\ Cell * Near(q).x \in Int /\ Cell * Near(r).x \in Int
      BY <3>1, Apart
    <3> QED
      BY <3>2, GridAssumption DEF LowerBorder
  <2>4. LowerBorder(q).y = LowerBorder(r).y
    BY <1>2, <2>1 DEF LowerBorder
  <2> QED
    BY <1>3, <1>4, <1>6, <2>3, <2>4 DEF RowBeforePoint, PointBeforeRow
<1> QED
  BY <1>4, <1>5, <1>6 DEF RowOrder

LEMMA ColumnsPartition ==
  ASSUME NEW list \in Seq(RoadType), WellFormed(list), NEW p \in Point,
         NEW r \in IndexOf(list).vertical, NEW q \in IndexOf(list).vertical
  PROVE  /\ ~(ColumnBeforePoint(r, p) /\ PointBeforeColumn(p, r))
         /\ ColumnOrder(q, r) => /\ ColumnBeforePoint(r, p) => ColumnBeforePoint(q, p)
                                 /\ PointBeforeColumn(p, q) => PointBeforeColumn(p, r)
<1>1. /\ r \in RoadType /\ IsVertical(r) /\ r.start # r.end
      /\ q \in RoadType /\ IsVertical(q) /\ q.start # q.end
  BY VerticalMembers
<1>2. /\ Near(r).x = r.start.x /\ Far(r).x = r.start.x /\ Near(r).y < Far(r).y
      /\ Near(q).x = q.start.x /\ Far(q).x = q.start.x /\ Near(q).y < Far(q).y
  BY <1>1, RoadLine
<1>3. /\ p.x \in Int /\ p.y \in Int
      /\ LowerBorder(r).x \in Int /\ LowerBorder(r).y \in Int
      /\ UpperBorder(r).x \in Int /\ UpperBorder(r).y \in Int
      /\ LowerBorder(q).x \in Int /\ LowerBorder(q).y \in Int
      /\ UpperBorder(q).x \in Int /\ UpperBorder(q).y \in Int
      /\ LowerBorder(r).x <= UpperBorder(r).x /\ LowerBorder(r).y <= UpperBorder(r).y
      /\ LowerBorder(q).x <= UpperBorder(q).x
  BY <1>1, Corners, RoadBorders DEF Point
<1>4. ~(ColumnBeforePoint(r, p) /\ PointBeforeColumn(p, r))
  BY <1>3 DEF ColumnBeforePoint, PointBeforeColumn
<1>5. CASE UpperBorder(q).x < UpperBorder(r).x
  <2>1. UpperBorder(q).x < LowerBorder(r).x
    BY <1>1, <1>2, <1>5, Apart, Scale, Corners
  <2> QED
    BY <1>3, <1>4, <2>1 DEF ColumnBeforePoint, PointBeforeColumn
<1>6. CASE UpperBorder(q).x = UpperBorder(r).x /\ UpperBorder(q).y < UpperBorder(r).y
  <2>1. Far(q).y < Far(r).y /\ q.start.x = r.start.x
    BY <1>1, <1>2, <1>6, Scale, Corners
  <2>2. Far(q).y <= Near(r).y
    BY <1>1, <1>2, <2>1, VerticalMembers, Corners
  <2>3. LowerBorder(q).y <= LowerBorder(r).y
    <3>1. Near(q).y <= Near(r).y /\ Near(q).y \in Int /\ Near(r).y \in Int
      BY <1>1, <1>2, <2>2, Corners
    <3>2. Cell * Near(q).y <= Cell * Near(r).y /\ Cell * Near(q).y \in Int /\ Cell * Near(r).y \in Int
      BY <3>1, Apart
    <3> QED
      BY <3>2, GridAssumption DEF LowerBorder
  <2>4. LowerBorder(q).x = LowerBorder(r).x
    BY <1>2, <2>1 DEF LowerBorder
  <2> QED
    BY <1>3, <1>4, <1>6, <2>3, <2>4 DEF ColumnBeforePoint, PointBeforeColumn
<1> QED
  BY <1>4, <1>5, <1>6 DEF ColumnOrder

\* On every map that AddRoads can build, each of the two comparators orders its roads and
\* a location so that std::set::find is right whatever the shape of its tree.
THEOREM LookupPartitions == Spec => []IndexPartitioned
<1>1. IInv => IndexPartitioned
  <2> SUFFICES ASSUME IInv, NEW p \in Points
               PROVE  /\ \A r, q \in index.horizontal :
                           /\ ~(RowBeforePoint(r, p) /\ PointBeforeRow(p, r))
                           /\ RowOrder(q, r) =>
                                /\ RowBeforePoint(r, p) => RowBeforePoint(q, p)
                                /\ PointBeforeRow(p, q) => PointBeforeRow(p, r)
                      /\ \A r, q \in index.vertical :
                           /\ ~(ColumnBeforePoint(r, p) /\ PointBeforeColumn(p, r))
                           /\ ColumnOrder(q, r) =>
                                /\ ColumnBeforePoint(r, p) => ColumnBeforePoint(q, p)
                                /\ PointBeforeColumn(p, q) => PointBeforeColumn(p, r)
    BY DEF IndexPartitioned
  <2>1. Around \subseteq Int
    BY GridAssumption, ListAssumption DEF Around
  <2>2. p \in Point /\ roads \in Seq(RoadType) /\ WellFormed(roads) /\ index = IndexOf(roads)
    BY <2>1 DEF Points, Point, IInv, ListTypeOK, IndexMatchesList
  <2> QED
    BY <2>2, RowsPartition, ColumnsPartition
<1> QED
  BY <1>1, IndexInvariant, PTL

\* On every list that AddRoads can build one tick does to a dog what two do that last as
\* long together, so that the ticker's period does not matter, if the dog heads down or
\* right or stands; to one that heads up or left, where no road continues another.
THEOREM PeriodIrrelevant == Spec => []TickSplit
<1>1. IInv => TickSplit
  <2> SUFFICES ASSUME IInv, NEW p \in Points, OnRoad(roads, p), NEW dir \in Directions,
                      dir \in {"U", "L"} => Unjointed(roads),
                      NEW pace \in Paces, NEW a \in Times, NEW b \in Times
               PROVE  LET dog == [loc |-> p, dir |-> dir, speed |-> SpeedTowards(dir, pace)]
                      IN  UpdateDogLocation(index, dog, a + b) =
                            UpdateDogLocation(index, UpdateDogLocation(index, dog, a), b)
    BY DEF TickSplit
  <2>1. roads \in Seq(RoadType) /\ WellFormed(roads) /\ index = IndexOf(roads)
    BY DEF IInv, ListTypeOK, IndexMatchesList
  <2>2. p \in Point
    <3>1. \A c \in Int : Cell * c \in Int
      BY GridAssumption
    <3>2. Around \subseteq Int
      BY <3>1, ListAssumption, GridAssumption DEF Around
    <3> QED
      BY <3>2 DEF Points, Point
  <2>3. pace \in Nat /\ a \in Nat /\ b \in Nat
    BY ListAssumption
  <2> QED
    BY <2>1, <2>2, <2>3, UpdateSplits
<1> QED
  BY <1>1, IndexInvariant, PTL

-----------------------------------------------------------------------------
(* The tiles of the page.                                                  *)

\* One road's tiles meet: where it leaves a tile it enters the next.
LEMMA RoadTilesMeet ==
  ASSUME NEW r \in RoadType, r.start # r.end,
         NEW cell \in Cells(r), NEW side \in SidesOf(r, cell)
  PROVE  /\ Beside(cell, side) \in Cells(r)
         /\ Opposite(side) \in SidesOf(r, Beside(cell, side))
<1>1. /\ Near(r) \in Point /\ Far(r) \in Point
      /\ Near(r).x \in Int /\ Near(r).y \in Int /\ Far(r).x \in Int /\ Far(r).y \in Int
  BY RoadBorders DEF Point
<1>2. /\ cell \in [x : Int, y : Int] /\ cell.x \in Int /\ cell.y \in Int
      /\ Near(r).x <= cell.x /\ cell.x <= Far(r).x
      /\ Near(r).y <= cell.y /\ cell.y <= Far(r).y
  BY <1>1 DEF Cells
<1>3. CASE IsVertical(r)
  <2>1. Near(r).y < Far(r).y
    BY <1>3, RoadLine
  <2>2. CASE side = "u"
    <3>1. cell.y # Near(r).y
      BY <1>3, <2>2 DEF SidesOf
    <3>2. Beside(cell, side) = [cell EXCEPT !.y = @ - 1] /\ Opposite(side) = "d"
      BY <2>2 DEF Beside, Opposite
    <3>3. /\ Beside(cell, side) \in [x : Int, y : Int]
          /\ Beside(cell, side).x = cell.x /\ Beside(cell, side).y = cell.y - 1
      BY <1>2, <3>2
    <3> QED
      BY <1>1, <1>2, <1>3, <3>1, <3>2, <3>3 DEF Cells, SidesOf
  <2>3. CASE side = "d"
    <3>1. cell.y # Far(r).y
      BY <1>3, <2>3 DEF SidesOf
    <3>2. Beside(cell, side) = [cell EXCEPT !.y = @ + 1] /\ Opposite(side) = "u"
      BY <2>3 DEF Beside, Opposite
    <3>3. /\ Beside(cell, side) \in [x : Int, y : Int]
          /\ Beside(cell, side).x = cell.x /\ Beside(cell, side).y = cell.y + 1
      BY <1>2, <3>2
    <3> QED
      BY <1>1, <1>2, <1>3, <3>1, <3>2, <3>3 DEF Cells, SidesOf
  <2> QED
    BY <1>3, <2>2, <2>3 DEF SidesOf
<1>4. CASE ~IsVertical(r)
  <2>2. CASE side = "l"
    <3>1. cell.x # Near(r).x
      BY <1>4, <2>2 DEF SidesOf
    <3>2. Beside(cell, side) = [cell EXCEPT !.x = @ - 1] /\ Opposite(side) = "r"
      BY <2>2 DEF Beside, Opposite
    <3>3. /\ Beside(cell, side) \in [x : Int, y : Int]
          /\ Beside(cell, side).x = cell.x - 1 /\ Beside(cell, side).y = cell.y
      BY <1>2, <3>2
    <3> QED
      BY <1>1, <1>2, <1>4, <3>1, <3>2, <3>3 DEF Cells, SidesOf
  <2>3. CASE side = "r"
    <3>1. cell.x # Far(r).x
      BY <1>4, <2>3 DEF SidesOf
    <3>2. Beside(cell, side) = [cell EXCEPT !.x = @ + 1] /\ Opposite(side) = "l"
      BY <2>3 DEF Beside, Opposite
    <3>3. /\ Beside(cell, side) \in [x : Int, y : Int]
          /\ Beside(cell, side).x = cell.x + 1 /\ Beside(cell, side).y = cell.y
      BY <1>2, <3>2
    <3> QED
      BY <1>1, <1>2, <1>4, <3>1, <3>2, <3>3 DEF Cells, SidesOf
  <2> QED
    BY <1>4, <2>2, <2>3 DEF SidesOf
<1> QED
  BY <1>3, <1>4

\* On every map that AddRoads can build the page's tiles fit together.
THEOREM TilesFit == Spec => []TilesMeet
<1>1. IInv => TilesMeet
  <2> SUFFICES ASSUME IInv, NEW cell \in RoadCells, NEW side \in Tile(cell)
               PROVE  /\ Beside(cell, side) \in RoadCells
                      /\ Opposite(side) \in Tile(Beside(cell, side))
    BY DEF TilesMeet
  <2>1. PICK i \in DOMAIN roads : cell \in Cells(roads[i]) /\ side \in SidesOf(roads[i], cell)
    BY DEF Tile
  <2>2. roads[i] \in RoadType /\ roads[i].start # roads[i].end
    BY ElementOfSeq, LenProperties DEF IInv, ListTypeOK, WellFormed
  <2>3. /\ Beside(cell, side) \in Cells(roads[i])
        /\ Opposite(side) \in SidesOf(roads[i], Beside(cell, side))
    BY <2>1, <2>2, RoadTilesMeet
  <2> QED
    BY <2>3 DEF RoadCells, Tile
<1> QED
  BY <1>1, IndexInvariant, PTL

\* A road covers the middle of the tiles it goes over.
LEMMA CellCovered ==
  ASSUME NEW r \in RoadType, NEW cell \in Cells(r)
  PROVE  /\ cell \in Point /\ Centre(cell) \in Point
         /\ Centre(cell).x = Cell * cell.x /\ Centre(cell).y = Cell * cell.y
         /\ Covers(r, Centre(cell))
<1>1. /\ Near(r).x \in Int /\ Near(r).y \in Int /\ Far(r).x \in Int /\ Far(r).y \in Int
      /\ cell \in [x : Int, y : Int] /\ cell.x \in Int /\ cell.y \in Int
      /\ Near(r).x <= cell.x /\ cell.x <= Far(r).x
      /\ Near(r).y <= cell.y /\ cell.y <= Far(r).y
  BY Corners DEF Cells
<1>2. /\ Cell * Near(r).x <= Cell * cell.x /\ Cell * cell.x <= Cell * Far(r).x
      /\ Cell * Near(r).y <= Cell * cell.y /\ Cell * cell.y <= Cell * Far(r).y
      /\ Cell * Near(r).x \in Int /\ Cell * cell.x \in Int /\ Cell * Far(r).x \in Int
      /\ Cell * Near(r).y \in Int /\ Cell * cell.y \in Int /\ Cell * Far(r).y \in Int
  BY <1>1, Apart
<1>3. /\ Centre(cell).x = Cell * cell.x /\ Centre(cell).y = Cell * cell.y
      /\ Centre(cell) \in Point /\ cell \in Point
  BY <1>1, <1>2 DEF Centre, Point
<1>4. Width \in Nat
  BY GridAssumption
<1>5. /\ LowerBorder(r).x <= Centre(cell).x /\ Centre(cell).x <= UpperBorder(r).x
      /\ LowerBorder(r).y <= Centre(cell).y /\ Centre(cell).y <= UpperBorder(r).y
  <2> DEFINE nx == Cell * Near(r).x
             ny == Cell * Near(r).y
             fx == Cell * Far(r).x
             fy == Cell * Far(r).y
             cx == Cell * cell.x
             cy == Cell * cell.y
  <2>1. /\ LowerBorder(r).x = nx - Width /\ LowerBorder(r).y = ny - Width
        /\ UpperBorder(r).x = fx + Width /\ UpperBorder(r).y = fy + Width
    BY DEF LowerBorder, UpperBorder
  <2>2. /\ nx <= cx /\ cx <= fx /\ ny <= cy /\ cy <= fy
        /\ nx \in Int /\ ny \in Int /\ fx \in Int /\ fy \in Int /\ cx \in Int /\ cy \in Int
        /\ Centre(cell).x = cx /\ Centre(cell).y = cy
    BY <1>2, <1>3
  <2> HIDE DEF nx, ny, fx, fy, cx, cy
  <2> QED
    BY <1>4, <2>1, <2>2
<1> QED
  BY <1>3, <1>5 DEF Covers

\* A step of one tile gets to the next one's middle unless the border that is ahead is
\* this tile's own.
LEMMA OneTile ==
  ASSUME NEW from \in Int, NEW c \in Int, NEW n \in Int, from = Cell * c
  PROVE  /\ c <= n => (WalkUntil(from, from + Cell, Cell * n + Width) = from + Cell <=> c < n)
         /\ n <= c => (WalkUntil(from, from - Cell, Cell * n - Width) = from - Cell <=> n < c)
         /\ Cell * (c + 1) = from + Cell /\ Cell * (c - 1) = from - Cell
<1> DEFINE cn == Cell * n
<1>1. Cell \in Nat /\ Width \in Nat \ {0} /\ 2 * Width < Cell
  BY GridAssumption
<1>2. Cell * (c + 1) = from + Cell /\ Cell * (c - 1) = from - Cell
  BY <1>1
<1>3. /\ cn \in Int
      /\ c < n => from + Cell <= cn
      /\ n < c => cn <= from - Cell
      /\ c = n => cn = from
  <2>1. c < n => c + 1 <= n
    OBVIOUS
  <2>2. n < c => n <= c - 1
    OBVIOUS
  <2>3. c + 1 \in Int /\ c - 1 \in Int
    OBVIOUS
  <2>4. /\ cn \in Int
        /\ c + 1 <= n => Cell * (c + 1) <= cn
        /\ n <= c - 1 => cn <= Cell * (c - 1)
        /\ c = n => cn = Cell * c
    BY <2>3, Apart
  <2> HIDE DEF cn
  <2> QED
    BY <1>2, <2>1, <2>2, <2>4
<1> HIDE DEF cn
<1>4. CASE c < n
  <2>1. WalkUntil(from, from + Cell, cn + Width) = from + Cell
    BY <1>1, <1>3, <1>4 DEF WalkUntil, Abs
  <2> QED
    BY <1>2, <1>4, <2>1 DEF cn
<1>5. CASE n < c
  <2>1. WalkUntil(from, from - Cell, cn - Width) = from - Cell
    BY <1>1, <1>3, <1>5 DEF WalkUntil, Abs
  <2> QED
    BY <1>2, <1>5, <2>1 DEF cn
<1>6. CASE c = n
  <2>1. /\ WalkUntil(from, from + Cell, cn + Width) = cn + Width /\ cn + Width # from + Cell
        /\ WalkUntil(from, from - Cell, cn - Width) = cn - Width /\ cn - Width # from - Cell
    BY <1>1, <1>3, <1>6 DEF WalkUntil, Abs
  <2> QED
    BY <1>2, <1>6, <2>1 DEF cn
<1> QED
  BY <1>4, <1>5, <1>6

\* The border ahead of a dog in the middle of a tile of a road is that tile's or lies further on.
LEMMA TileOnRoad ==
  ASSUME NEW r \in RoadType, NEW cell \in Point, Covers(r, Centre(cell))
  PROVE  /\ Near(r).x \in Int /\ Near(r).y \in Int /\ Far(r).x \in Int /\ Far(r).y \in Int
         /\ Near(r).x <= cell.x /\ cell.x <= Far(r).x
         /\ Near(r).y <= cell.y /\ cell.y <= Far(r).y
<1>1. cell.x \in Int /\ cell.y \in Int
  BY DEF Point
<1>2. Centre(cell).x = Cell * cell.x /\ Centre(cell).y = Cell * cell.y
  BY DEF Centre
<1>3. /\ Near(r).x \in Int /\ Near(r).y \in Int /\ Far(r).x \in Int /\ Far(r).y \in Int
      /\ Cell * Near(r).x - Width <= Cell * cell.x
      /\ Cell * Near(r).y - Width <= Cell * cell.y
      /\ Cell * cell.x <= Cell * Far(r).x + Width
      /\ Cell * cell.y <= Cell * Far(r).y + Width
  BY <1>2, Corners DEF Covers
<1>4. Cell * cell.x \in Int /\ Cell * cell.y \in Int /\ Width \in Nat
  BY <1>1, GridAssumption
<1>5. \A n \in Int : /\ Cell * n - Width <= Cell * cell.x => n <= cell.x
                     /\ Cell * n - Width <= Cell * cell.y => n <= cell.y
                     /\ Cell * cell.x <= Cell * n + Width => cell.x <= n
                     /\ Cell * cell.y <= Cell * n + Width => cell.y <= n
  <2> SUFFICES ASSUME NEW n \in Int, NEW c \in {cell.x, cell.y}
               PROVE  /\ Cell * n - Width <= Cell * c => n <= c
                      /\ Cell * c <= Cell * n + Width => c <= n
    OBVIOUS
  <2>1. c \in Int
    BY <1>1
  <2> DEFINE cc == Cell * c
             cn == Cell * n
  <2>2. /\ cc \in Int /\ cn \in Int /\ Width \in Nat
        /\ cn - Width <= cc + Width => n <= c
        /\ cc - Width <= cn + Width => c <= n
    BY <2>1, Apart, Borders, GridAssumption
  <2> HIDE DEF cc, cn
  <2>3. (cn - Width <= cc => n <= c) /\ (cc <= cn + Width => c <= n)
    BY <2>2
  <2> QED
    BY <2>3 DEF cc, cn
<1> QED
  BY <1>3, <1>5

\* The road that stops a dog at p: one along its heading if any is there, and of those the
\* one that ends first.
LEMMA ColumnLane ==
  ASSUME NEW list \in Seq(RoadType), WellFormed(list), NEW p \in Point, NEW dir \in {"U", "D"},
         FindHorizontal(IndexOf(list), p) # {} \/ FindVertical(IndexOf(list), p) # {}
  PROVE  \E j \in DOMAIN list :
           /\ list[j] = LaneOf(FindHorizontal(IndexOf(list), p), FindVertical(IndexOf(list), p), dir)
           /\ Covers(list[j], p)
           /\ \/ IsVertical(list[j])
              \/ \A k \in DOMAIN list : Covers(list[k], p) => ~IsVertical(list[k])
           /\ \A k \in DOMAIN list :
                Covers(list[k], p) /\ IsVertical(list[j]) /\ IsVertical(list[k]) =>
                  list[j].start.x = list[k].start.x /\ Far(list[j]).y <= Far(list[k]).y
<1>1. PICK j \in DOMAIN list :
        /\ list[j] = LaneOf(FindHorizontal(IndexOf(list), p), FindVertical(IndexOf(list), p), dir)
        /\ Covers(list[j], p)
        /\ dir \in {"U", "D"} =>
             \/ IsVertical(list[j])
             \/ \A k \in DOMAIN list : Covers(list[k], p) => ~IsVertical(list[k])
        /\ \A k \in DOMAIN list : Covers(list[k], p) =>
             (IsVertical(list[j]) /\ IsVertical(list[k]) =>
                list[j].start.x = list[k].start.x /\ Far(list[j]).y <= Far(list[k]).y)
  BY LaneAlong
<1>2. dir \in {"U", "D"}
  OBVIOUS
<1> QED
  BY <1>1, <1>2

LEMMA RowLane ==
  ASSUME NEW list \in Seq(RoadType), WellFormed(list), NEW p \in Point, NEW dir \in {"L", "R"},
         FindHorizontal(IndexOf(list), p) # {} \/ FindVertical(IndexOf(list), p) # {}
  PROVE  \E j \in DOMAIN list :
           /\ list[j] = LaneOf(FindHorizontal(IndexOf(list), p), FindVertical(IndexOf(list), p), dir)
           /\ Covers(list[j], p)
           /\ \/ ~IsVertical(list[j])
              \/ \A k \in DOMAIN list : Covers(list[k], p) => IsVertical(list[k])
           /\ \A k \in DOMAIN list :
                Covers(list[k], p) /\ ~IsVertical(list[j]) /\ ~IsVertical(list[k]) =>
                  list[j].start.y = list[k].start.y /\ Far(list[j]).x <= Far(list[k]).x
<1>1. PICK j \in DOMAIN list :
        /\ list[j] = LaneOf(FindHorizontal(IndexOf(list), p), FindVertical(IndexOf(list), p), dir)
        /\ Covers(list[j], p)
        /\ dir \notin {"U", "D"} =>
             \/ ~IsVertical(list[j])
             \/ \A k \in DOMAIN list : Covers(list[k], p) => IsVertical(list[k])
        /\ \A k \in DOMAIN list : Covers(list[k], p) =>
             (~IsVertical(list[j]) /\ ~IsVertical(list[k]) =>
                list[j].start.y = list[k].start.y /\ Far(list[j]).x <= Far(list[k]).x)
  BY LaneAlong
<1>2. dir \notin {"U", "D"}
  OBVIOUS
<1> QED
  BY <1>1, <1>2

\* A tile is open up or down, and no road down ends in it, where the road that stops a dog
\* there leads on.
LEMMA ColumnTileOpen ==
  ASSUME IInv, NEW cell \in RoadCells, NEW side \in {"u", "d"},
         NEW j \in DOMAIN roads, Covers(roads[j], Centre(cell)),
         \/ IsVertical(roads[j])
         \/ \A k \in DOMAIN roads : Covers(roads[k], Centre(cell)) => ~IsVertical(roads[k]),
         \A k \in DOMAIN roads :
           Covers(roads[k], Centre(cell)) /\ IsVertical(roads[j]) /\ IsVertical(roads[k]) =>
             roads[j].start.x = roads[k].start.x /\ Far(roads[j]).y <= Far(roads[k]).y
  PROVE  side \in Tile(cell) /\ ~Ends(cell, side) <=>
           IF side = "d" THEN cell.y < Far(roads[j]).y ELSE Near(roads[j]).y < cell.y
<1> DEFINE lane == roads[j]
           p    == Centre(cell)
           open == IF side = "d" THEN cell.y < Far(lane).y ELSE Near(lane).y < cell.y
<1>0. \A i \in DOMAIN roads : roads[i] \in RoadType /\ roads[i].start # roads[i].end
  BY ElementOfSeq, LenProperties DEF IInv, ListTypeOK, WellFormed
<1>1. /\ cell \in Point /\ p \in Point /\ p.x = Cell * cell.x /\ p.y = Cell * cell.y
      /\ cell.x \in Int /\ cell.y \in Int
  BY <1>0, CellCovered DEF RoadCells, Point
<1>2. /\ Near(lane).x \in Int /\ Near(lane).y \in Int /\ Far(lane).x \in Int /\ Far(lane).y \in Int
      /\ Near(lane).x <= cell.x /\ cell.x <= Far(lane).x
      /\ Near(lane).y <= cell.y /\ cell.y <= Far(lane).y
  BY <1>0, <1>1, TileOnRoad
<1>3. ASSUME side \in Tile(cell), ~Ends(cell, side)
      PROVE  open
  <2>1. PICK i \in DOMAIN roads : cell \in Cells(roads[i]) /\ side \in SidesOf(roads[i], cell)
    BY <1>3 DEF Tile
  <2>2. IsVertical(roads[i]) /\ cell.y # (IF side = "u" THEN Near(roads[i]).y ELSE Far(roads[i]).y)
    BY <2>1 DEF SidesOf
  <2>3. Covers(roads[i], p)
    BY <1>0, <2>1, CellCovered
  <2>4. IsVertical(lane) /\ lane.start.x = roads[i].start.x /\ Far(lane).y <= Far(roads[i]).y
    BY <2>2, <2>3
  <2>5. /\ Near(lane).x = lane.start.x /\ Far(lane).x = lane.start.x /\ Near(lane).y < Far(lane).y
        /\ Near(roads[i]).y < Far(roads[i]).y
    BY <1>0, <2>2, <2>4, RoadLine
  <2>6. /\ Near(roads[i]).y \in Int /\ Far(roads[i]).y \in Int
        /\ Near(roads[i]).y <= cell.y
    BY <1>0, <1>1, <2>3, TileOnRoad
  <2>7. CASE side = "d"
    <3>1. cell.y # Far(lane).y
      <4> SUFFICES ASSUME cell.y = Far(lane).y
                   PROVE  FALSE
        OBVIOUS
      <4>1. Far(lane).x = cell.x
        BY <1>1, <1>2, <2>5
      <4>2. Far(lane) = cell
        BY <1>0, <1>1, <4>1, RoadBorders DEF Point
      <4> QED
        BY <1>3, <2>4, <2>7, <4>2 DEF Ends, IsVertical
    <3> QED
      BY <1>1, <1>2, <2>7, <3>1
  <2>8. CASE side = "u"
    <3>1. Near(roads[i]).y < cell.y
      BY <1>1, <2>2, <2>6, <2>8
    <3>2. CASE roads[i] = lane
      BY <2>8, <3>1, <3>2
    <3>3. CASE roads[i] # lane
      <4>1. i # j /\ IsVertical(roads[i]) = IsVertical(roads[j])
        BY <2>2, <2>4, <3>3 DEF IsVertical
      <4>2. Far(roads[i]).y <= Near(lane).y \/ Far(lane).y <= Near(roads[i]).y
        BY <2>2, <2>4, <4>1 DEF IInv, ListTypeOK, WellFormed
      <4> QED
        BY <1>1, <1>2, <2>4, <2>5, <2>6, <3>1, <4>2
    <3> QED
      BY <3>2, <3>3
  <2> QED
    BY <2>7, <2>8
<1>4. ASSUME open
      PROVE  side \in Tile(cell) /\ ~Ends(cell, side)
  <2>1. Near(lane).y < Far(lane).y
    BY <1>1, <1>2, <1>4
  <2>2. IsVertical(lane)
    BY <1>0, <1>2, <2>1, RoadLine
  <2>3. cell \in Cells(lane)
    BY <1>1, <1>2 DEF Cells, Point
  <2>4. cell.y # (IF side = "u" THEN Near(lane).y ELSE Far(lane).y)
    BY <1>1, <1>2, <1>4
  <2>5. side \in SidesOf(lane, cell)
    BY <2>2, <2>4 DEF SidesOf
  <2>6. ASSUME Ends(cell, side)
        PROVE  FALSE
    <3>1. PICK k \in DOMAIN roads : IsVertical(roads[k]) = (side = "d") /\ Far(roads[k]) = cell
      BY <2>6 DEF Ends
    <3>2. side = "d" /\ IsVertical(roads[k])
      BY <2>6, <3>1 DEF Ends
    <3>3. cell \in Cells(roads[k])
      BY <1>0, <1>1, <3>1, RoadBorders DEF Cells, Point
    <3>4. Covers(roads[k], p)
      BY <1>0, <3>3, CellCovered
    <3>5. Far(lane).y <= cell.y
      BY <2>2, <3>1, <3>2, <3>4
    <3> QED
      BY <1>1, <1>2, <1>4, <3>2, <3>5
  <2> QED
    BY <2>3, <2>5, <2>6 DEF Tile
<1> QED
  BY <1>3, <1>4

\* A dog in the middle of a tile that faces up or down walks to the next where it is open
\* and no road down ends.
LEMMA ColumnOpen ==
  ASSUME IInv, NEW cell \in RoadCells, NEW side \in {"u", "d"},
         NEW dir, dir = Heading[side],
         NEW dog, dog = [loc |-> Centre(cell), dir |-> dir, speed |-> SpeedTowards(dir, 1)]
  PROVE  side \in Tile(cell) /\ ~Ends(cell, side) <=>
           UpdateDogLocation(index, dog, Cell).loc = Centre(Beside(cell, side))
<1> DEFINE p      == Centre(cell)
           lane   == LaneOf(FindHorizontal(index, p), FindVertical(index, p), dir)
           speed  == SpeedTowards(dir, 1)
           v      == IF side = "d" THEN 1 ELSE -1
           border == IF side = "d" THEN UpperBorder(lane).y ELSE LowerBorder(lane).y
           far    == IF side = "d" THEN p.y + Cell ELSE p.y - Cell
           end    == WalkUntil(p.y, far, border)
<1>0. \A i \in DOMAIN roads : roads[i] \in RoadType
  BY ElementOfSeq, LenProperties DEF IInv, ListTypeOK
<1>1. /\ cell \in Point /\ p \in Point /\ p.x = Cell * cell.x /\ p.y = Cell * cell.y
      /\ p.x \in Int /\ p.y \in Int /\ cell.x \in Int /\ cell.y \in Int
      /\ Cell \in Int /\ \E i \in DOMAIN roads : Covers(roads[i], p)
  BY <1>0, CellCovered, GridAssumption DEF RoadCells, Point
<1>2. roads \in Seq(RoadType) /\ WellFormed(roads) /\ index = IndexOf(roads)
  BY DEF IInv, ListTypeOK, IndexMatchesList
<1>3. dir \in {"U", "D"} /\ (dir = "D" <=> side = "d")
  BY DEF Heading
<1>4. FindHorizontal(index, p) # {} \/ FindVertical(index, p) # {}
  BY <1>1, <1>2, LookupExact
<1>5. PICK j \in DOMAIN roads :
        /\ roads[j] = lane
        /\ Covers(roads[j], p)
        /\ \/ IsVertical(roads[j])
           \/ \A k \in DOMAIN roads : Covers(roads[k], p) => ~IsVertical(roads[k])
        /\ \A k \in DOMAIN roads :
             Covers(roads[k], p) /\ IsVertical(roads[j]) /\ IsVertical(roads[k]) =>
               roads[j].start.x = roads[k].start.x /\ Far(roads[j]).y <= Far(roads[k]).y
  <2> HIDE DEF p
  <2>1. index = IndexOf(roads) /\ dir \in {"U", "D"}
    BY <1>2, <1>3
  <2> QED
    BY <1>1, <1>2, <1>4, <2>1, ColumnLane
<1>6. UpdateDogLocation(index, dog, Cell) = Walk(lane, dog, Cell)
  BY <1>4 DEF UpdateDogLocation
<1> HIDE DEF lane
<1>7. lane \in RoadType
  BY <1>0, <1>5
<1>8. UpdateDogLocation(index, dog, Cell).loc = [x |-> p.x, y |-> end]
  <2>1. speed.y = v /\ speed.x = 0 /\ dog = [loc |-> p, dir |-> dir, speed |-> speed]
    BY <1>3 DEF SpeedTowards
  <2>2. p.y + v * Cell = far /\ p.x + 0 * Cell = p.x
    BY <1>1
  <2> HIDE DEF v, speed, far, p
  <2>3. Target(dog, Cell) = [x |-> p.x, y |-> far]
    BY <2>1, <2>2 DEF Target
  <2>4. ColumnEnd(lane, p, dir, far) = end
    BY <1>3 DEF ColumnEnd
  <2> HIDE DEF end
  <2>5. dir = "U" \/ dir = "D"
    BY <1>3
  <2>6. Walk(lane, dog, Cell) =
          [loc |-> [x |-> p.x, y |-> ColumnEnd(lane, p, dir, far)], dir |-> dir,
           speed |-> IF ColumnEnd(lane, p, dir, far) = far THEN speed ELSE Still]
    BY <2>1, <2>3, <2>5, ColumnWalk
  <2> QED
    BY <1>6, <2>4, <2>6
<1>9. Centre(Beside(cell, side)) = [x |-> p.x, y |-> far]
  <2>1. Cell * (cell.y + 1) = p.y + Cell /\ Cell * (cell.y - 1) = p.y - Cell
    BY <1>1, OneTile
  <2>2. cell = [x |-> cell.x, y |-> cell.y]
    BY <1>1 DEF Point
  <2>3. CASE side = "d"
    <3>1. Beside(cell, side).x = cell.x /\ Beside(cell, side).y = cell.y + 1
      BY <2>2, <2>3 DEF Beside
    <3> QED
      BY <1>1, <2>1, <2>3, <3>1 DEF Centre
  <2>4. CASE side # "d"
    <3>1. Beside(cell, side).x = cell.x /\ Beside(cell, side).y = cell.y - 1
      BY <2>2, <2>4 DEF Beside
    <3> QED
      BY <1>1, <2>1, <2>4, <3>1 DEF Centre
  <2> QED
    BY <2>3, <2>4
<1>10. end = far <=> IF side = "d" THEN cell.y < Far(lane).y ELSE Near(lane).y < cell.y
  <2>1. /\ UpperBorder(lane).y = Cell * Far(lane).y + Width
        /\ LowerBorder(lane).y = Cell * Near(lane).y - Width
    BY <1>7, Corners
  <2>2. /\ Far(lane).y \in Int /\ Near(lane).y \in Int
        /\ Near(lane).y <= cell.y /\ cell.y <= Far(lane).y
    BY <1>1, <1>5, <1>7, TileOnRoad
  <2>3. CASE side = "d"
    <3>1. end = WalkUntil(p.y, p.y + Cell, Cell * Far(lane).y + Width) /\ far = p.y + Cell
      BY <2>1, <2>3
    <3> HIDE DEF end, far, p
    <3>2. WalkUntil(p.y, p.y + Cell, Cell * Far(lane).y + Width) = p.y + Cell
            <=> cell.y < Far(lane).y
      BY <1>1, <2>2, OneTile
    <3> QED
      BY <2>3, <3>1, <3>2
  <2>4. CASE side # "d"
    <3>1. end = WalkUntil(p.y, p.y - Cell, Cell * Near(lane).y - Width) /\ far = p.y - Cell
      BY <2>1, <2>4
    <3> HIDE DEF end, far, p
    <3>2. WalkUntil(p.y, p.y - Cell, Cell * Near(lane).y - Width) = p.y - Cell
            <=> Near(lane).y < cell.y
      BY <1>1, <2>2, OneTile
    <3> QED
      BY <2>4, <3>1, <3>2
  <2> QED
    BY <2>3, <2>4
<1>11. side \in Tile(cell) /\ ~Ends(cell, side) <=>
         IF side = "d" THEN cell.y < Far(lane).y ELSE Near(lane).y < cell.y
  BY <1>5, ColumnTileOpen
<1> HIDE DEF end, far, p
<1>12. [x |-> p.x, y |-> end] = [x |-> p.x, y |-> far] <=> end = far
  OBVIOUS
<1> QED
  BY <1>8, <1>9, <1>10, <1>11, <1>12

\* A tile is open to the left or right, and no road to the right ends in it, where the road
\* that stops a dog there leads on.
LEMMA RowTileOpen ==
  ASSUME IInv, NEW cell \in RoadCells, NEW side \in {"l", "r"},
         NEW j \in DOMAIN roads, Covers(roads[j], Centre(cell)),
         \/ ~IsVertical(roads[j])
         \/ \A k \in DOMAIN roads : Covers(roads[k], Centre(cell)) => IsVertical(roads[k]),
         \A k \in DOMAIN roads :
           Covers(roads[k], Centre(cell)) /\ ~IsVertical(roads[j]) /\ ~IsVertical(roads[k]) =>
             roads[j].start.y = roads[k].start.y /\ Far(roads[j]).x <= Far(roads[k]).x
  PROVE  side \in Tile(cell) /\ ~Ends(cell, side) <=>
           IF side = "r" THEN cell.x < Far(roads[j]).x ELSE Near(roads[j]).x < cell.x
<1> DEFINE lane == roads[j]
           p    == Centre(cell)
           open == IF side = "r" THEN cell.x < Far(lane).x ELSE Near(lane).x < cell.x
<1>0. \A i \in DOMAIN roads : roads[i] \in RoadType /\ roads[i].start # roads[i].end
  BY ElementOfSeq, LenProperties DEF IInv, ListTypeOK, WellFormed
<1>1. /\ cell \in Point /\ p \in Point /\ p.x = Cell * cell.x /\ p.y = Cell * cell.y
      /\ cell.x \in Int /\ cell.y \in Int
  BY <1>0, CellCovered DEF RoadCells, Point
<1>2. /\ Near(lane).x \in Int /\ Near(lane).y \in Int /\ Far(lane).x \in Int /\ Far(lane).y \in Int
      /\ Near(lane).x <= cell.x /\ cell.x <= Far(lane).x
      /\ Near(lane).y <= cell.y /\ cell.y <= Far(lane).y
  BY <1>0, <1>1, TileOnRoad
<1>3. ASSUME side \in Tile(cell), ~Ends(cell, side)
      PROVE  open
  <2>1. PICK i \in DOMAIN roads : cell \in Cells(roads[i]) /\ side \in SidesOf(roads[i], cell)
    BY <1>3 DEF Tile
  <2>2. ~IsVertical(roads[i]) /\ cell.x # (IF side = "l" THEN Near(roads[i]).x ELSE Far(roads[i]).x)
    BY <2>1 DEF SidesOf
  <2>3. Covers(roads[i], p)
    BY <1>0, <2>1, CellCovered
  <2>4. ~IsVertical(lane) /\ lane.start.y = roads[i].start.y /\ Far(lane).x <= Far(roads[i]).x
    BY <2>2, <2>3
  <2>5. /\ Near(lane).y = lane.start.y /\ Far(lane).y = lane.start.y /\ Near(lane).x < Far(lane).x
        /\ Near(roads[i]).x < Far(roads[i]).x
    BY <1>0, <2>2, <2>4, RoadLine
  <2>6. /\ Near(roads[i]).x \in Int /\ Far(roads[i]).x \in Int
        /\ Near(roads[i]).x <= cell.x
    BY <1>0, <1>1, <2>3, TileOnRoad
  <2>7. CASE side = "r"
    <3>1. cell.x # Far(lane).x
      <4> SUFFICES ASSUME cell.x = Far(lane).x
                   PROVE  FALSE
        OBVIOUS
      <4>1. Far(lane).y = cell.y
        BY <1>1, <1>2, <2>5
      <4>2. Far(lane) = cell
        BY <1>0, <1>1, <4>1, RoadBorders DEF Point
      <4> QED
        BY <1>3, <2>4, <2>7, <4>2 DEF Ends, IsVertical
    <3> QED
      BY <1>1, <1>2, <2>7, <3>1
  <2>8. CASE side = "l"
    <3>1. Near(roads[i]).x < cell.x
      BY <1>1, <2>2, <2>6, <2>8
    <3>2. CASE roads[i] = lane
      BY <2>8, <3>1, <3>2
    <3>3. CASE roads[i] # lane
      <4>1. i # j /\ IsVertical(roads[i]) = IsVertical(roads[j])
        BY <2>2, <2>4, <3>3 DEF IsVertical
      <4>2. Far(roads[i]).x <= Near(lane).x \/ Far(lane).x <= Near(roads[i]).x
        BY <2>2, <2>4, <4>1 DEF IInv, ListTypeOK, WellFormed
      <4> QED
        BY <1>1, <1>2, <2>4, <2>5, <2>6, <3>1, <4>2
    <3> QED
      BY <3>2, <3>3
  <2> QED
    BY <2>7, <2>8
<1>4. ASSUME open
      PROVE  side \in Tile(cell) /\ ~Ends(cell, side)
  <2>1. Near(lane).x < Far(lane).x
    BY <1>1, <1>2, <1>4
  <2>2. ~IsVertical(lane)
    BY <1>0, <1>2, <2>1, RoadLine
  <2>3. cell \in Cells(lane)
    BY <1>1, <1>2 DEF Cells, Point
  <2>4. cell.x # (IF side = "l" THEN Near(lane).x ELSE Far(lane).x)
    BY <1>1, <1>2, <1>4
  <2>5. side \in SidesOf(lane, cell)
    BY <2>2, <2>4 DEF SidesOf
  <2>6. ASSUME Ends(cell, side)
        PROVE  FALSE
    <3>1. PICK k \in DOMAIN roads : IsVertical(roads[k]) = (side = "d") /\ Far(roads[k]) = cell
      BY <2>6 DEF Ends
    <3>2. side = "r" /\ ~IsVertical(roads[k])
      BY <2>6, <3>1 DEF Ends
    <3>3. cell \in Cells(roads[k])
      BY <1>0, <1>1, <3>1, RoadBorders DEF Cells, Point
    <3>4. Covers(roads[k], p)
      BY <1>0, <3>3, CellCovered
    <3>5. Far(lane).x <= cell.x
      BY <2>2, <3>1, <3>2, <3>4
    <3> QED
      BY <1>1, <1>2, <1>4, <3>2, <3>5
  <2> QED
    BY <2>3, <2>5, <2>6 DEF Tile
<1> QED
  BY <1>3, <1>4

\* A dog in the middle of a tile that faces to the left or right walks to the next one where
\* the tile is open and no road to the right ends.
LEMMA RowOpen ==
  ASSUME IInv, NEW cell \in RoadCells, NEW side \in {"l", "r"},
         NEW dir, dir = Heading[side],
         NEW dog, dog = [loc |-> Centre(cell), dir |-> dir, speed |-> SpeedTowards(dir, 1)]
  PROVE  side \in Tile(cell) /\ ~Ends(cell, side) <=>
           UpdateDogLocation(index, dog, Cell).loc = Centre(Beside(cell, side))
<1> DEFINE p      == Centre(cell)
           lane   == LaneOf(FindHorizontal(index, p), FindVertical(index, p), dir)
           speed  == SpeedTowards(dir, 1)
           v      == IF side = "r" THEN 1 ELSE -1
           border == IF side = "r" THEN UpperBorder(lane).x ELSE LowerBorder(lane).x
           far    == IF side = "r" THEN p.x + Cell ELSE p.x - Cell
           end    == WalkUntil(p.x, far, border)
<1>0. \A i \in DOMAIN roads : roads[i] \in RoadType
  BY ElementOfSeq, LenProperties DEF IInv, ListTypeOK
<1>1. /\ cell \in Point /\ p \in Point /\ p.x = Cell * cell.x /\ p.y = Cell * cell.y
      /\ p.x \in Int /\ p.y \in Int /\ cell.x \in Int /\ cell.y \in Int
      /\ Cell \in Int /\ \E i \in DOMAIN roads : Covers(roads[i], p)
  BY <1>0, CellCovered, GridAssumption DEF RoadCells, Point
<1>2. roads \in Seq(RoadType) /\ WellFormed(roads) /\ index = IndexOf(roads)
  BY DEF IInv, ListTypeOK, IndexMatchesList
<1>3. dir \in {"L", "R"} /\ (dir = "R" <=> side = "r")
  BY DEF Heading
<1>4. FindHorizontal(index, p) # {} \/ FindVertical(index, p) # {}
  BY <1>1, <1>2, LookupExact
<1>5. PICK j \in DOMAIN roads :
        /\ roads[j] = lane
        /\ Covers(roads[j], p)
        /\ \/ ~IsVertical(roads[j])
           \/ \A k \in DOMAIN roads : Covers(roads[k], p) => IsVertical(roads[k])
        /\ \A k \in DOMAIN roads :
             Covers(roads[k], p) /\ ~IsVertical(roads[j]) /\ ~IsVertical(roads[k]) =>
               roads[j].start.y = roads[k].start.y /\ Far(roads[j]).x <= Far(roads[k]).x
  <2> HIDE DEF p
  <2>1. index = IndexOf(roads) /\ dir \in {"L", "R"}
    BY <1>2, <1>3
  <2> QED
    BY <1>1, <1>2, <1>4, <2>1, RowLane
<1>6. UpdateDogLocation(index, dog, Cell) = Walk(lane, dog, Cell)
  BY <1>4 DEF UpdateDogLocation
<1> HIDE DEF lane
<1>7. lane \in RoadType
  BY <1>0, <1>5
<1>8. UpdateDogLocation(index, dog, Cell).loc = [x |-> end, y |-> p.y]
  <2>1. speed.x = v /\ speed.y = 0 /\ dog = [loc |-> p, dir |-> dir, speed |-> speed]
    BY <1>3 DEF SpeedTowards
  <2>2. p.x + v * Cell = far /\ p.y + 0 * Cell = p.y
    BY <1>1
  <2> HIDE DEF v, speed, far, p
  <2>3. Target(dog, Cell) = [x |-> far, y |-> p.y]
    BY <2>1, <2>2 DEF Target
  <2>4. RowEnd(lane, p, dir, far) = end
    BY <1>3 DEF RowEnd
  <2> HIDE DEF end
  <2>5. dir = "L" \/ dir = "R"
    BY <1>3
  <2>6. Walk(lane, dog, Cell) =
          [loc |-> [x |-> RowEnd(lane, p, dir, far), y |-> p.y], dir |-> dir,
           speed |-> IF RowEnd(lane, p, dir, far) = far THEN speed ELSE Still]
    BY <2>1, <2>3, <2>5, RowWalk
  <2> QED
    BY <1>6, <2>4, <2>6
<1>9. Centre(Beside(cell, side)) = [x |-> far, y |-> p.y]
  <2>1. Cell * (cell.x + 1) = p.x + Cell /\ Cell * (cell.x - 1) = p.x - Cell
    BY <1>1, OneTile
  <2>2. cell = [x |-> cell.x, y |-> cell.y]
    BY <1>1 DEF Point
  <2>3. CASE side = "r"
    <3>1. Beside(cell, side).y = cell.y /\ Beside(cell, side).x = cell.x + 1
      BY <2>2, <2>3 DEF Beside
    <3> QED
      BY <1>1, <2>1, <2>3, <3>1 DEF Centre
  <2>4. CASE side # "r"
    <3>1. Beside(cell, side).y = cell.y /\ Beside(cell, side).x = cell.x - 1
      BY <2>2, <2>4 DEF Beside
    <3> QED
      BY <1>1, <2>1, <2>4, <3>1 DEF Centre
  <2> QED
    BY <2>3, <2>4
<1>10. end = far <=> IF side = "r" THEN cell.x < Far(lane).x ELSE Near(lane).x < cell.x
  <2>1. /\ UpperBorder(lane).x = Cell * Far(lane).x + Width
        /\ LowerBorder(lane).x = Cell * Near(lane).x - Width
    BY <1>7, Corners
  <2>2. /\ Far(lane).x \in Int /\ Near(lane).x \in Int
        /\ Near(lane).x <= cell.x /\ cell.x <= Far(lane).x
    BY <1>1, <1>5, <1>7, TileOnRoad
  <2>3. CASE side = "r"
    <3>1. end = WalkUntil(p.x, p.x + Cell, Cell * Far(lane).x + Width) /\ far = p.x + Cell
      BY <2>1, <2>3
    <3> HIDE DEF end, far, p
    <3>2. WalkUntil(p.x, p.x + Cell, Cell * Far(lane).x + Width) = p.x + Cell
            <=> cell.x < Far(lane).x
      BY <1>1, <2>2, OneTile
    <3> QED
      BY <2>3, <3>1, <3>2
  <2>4. CASE side # "r"
    <3>1. end = WalkUntil(p.x, p.x - Cell, Cell * Near(lane).x - Width) /\ far = p.x - Cell
      BY <2>1, <2>4
    <3> HIDE DEF end, far, p
    <3>2. WalkUntil(p.x, p.x - Cell, Cell * Near(lane).x - Width) = p.x - Cell
            <=> Near(lane).x < cell.x
      BY <1>1, <2>2, OneTile
    <3> QED
      BY <2>4, <3>1, <3>2
  <2> QED
    BY <2>3, <2>4
<1>11. side \in Tile(cell) /\ ~Ends(cell, side) <=>
         IF side = "r" THEN cell.x < Far(lane).x ELSE Near(lane).x < cell.x
  BY <1>5, RowTileOpen
<1> HIDE DEF end, far, p
<1>12. [x |-> end, y |-> p.y] = [x |-> far, y |-> p.y] <=> end = far
  OBVIOUS
<1> QED
  BY <1>8, <1>9, <1>10, <1>11, <1>12

\* On every map that AddRoads can build the page shows a way on exactly where the server
\* lets a dog walk, but for the joints of split streets: there it shows one, and the road
\* that ends stops a dog that heads down or right.
THEOREM PageShowsWays == Spec => []OpenWhereDogsWalk
<1>1. IInv => OpenWhereDogsWalk
  <2> SUFFICES ASSUME IInv, NEW cell \in RoadCells, NEW side \in Sides
               PROVE  LET dir == Heading[side]
                          dog == [loc |-> Centre(cell), dir |-> dir,
                                  speed |-> SpeedTowards(dir, 1)]
                      IN  side \in Tile(cell) /\ ~Ends(cell, side) <=>
                            UpdateDogLocation(index, dog, Cell).loc = Centre(Beside(cell, side))
    BY DEF OpenWhereDogsWalk
  <2>1. CASE side \in {"u", "d"}
    BY <2>1, ColumnOpen
  <2>2. CASE side \in {"l", "r"}
    BY <2>2, RowOpen
  <2> QED
    BY <2>1, <2>2 DEF Sides
<1> QED
  BY <1>1, IndexInvariant, PTL

\* The numbers of sides of tiles.
LEMMA NoSize == IsFiniteSet({}) /\ Cardinality({}) = 0
BY FS_EmptySet

LEMMA OneSize ==
  ASSUME NEW a
  PROVE  IsFiniteSet({a}) /\ Cardinality({a}) = 1
BY FS_Singleton

LEMMA OneMore ==
  ASSUME NEW S, NEW n \in Nat, IsFiniteSet(S), Cardinality(S) = n, NEW a, a \notin S
  PROVE  IsFiniteSet(S \cup {a}) /\ Cardinality(S \cup {a}) = n + 1
<1>1. IsFiniteSet(S \cup {a}) /\ (Cardinality(S \cup {a}) = IF a \in S THEN Cardinality(S)
                                                         ELSE Cardinality(S) + 1)
  BY FS_AddElement
<1> QED
  BY <1>1

LEMMA TwoSize ==
  ASSUME NEW a, NEW b, a # b
  PROVE  IsFiniteSet({a, b}) /\ Cardinality({a, b}) = 2
<1>1. {a, b} = {a} \cup {b} /\ b \notin {a}
  OBVIOUS
<1>2. IsFiniteSet({a} \cup {b}) /\ Cardinality({a} \cup {b}) = 1 + 1
  BY <1>1, OneSize, OneMore
<1> QED
  BY <1>1, <1>2

LEMMA ThreeSize ==
  ASSUME NEW a, NEW b, NEW c, a # b, a # c, b # c
  PROVE  IsFiniteSet({a, b, c}) /\ Cardinality({a, b, c}) = 3
<1>1. {a, b, c} = {a, b} \cup {c} /\ c \notin {a, b}
  OBVIOUS
<1>2. IsFiniteSet({a, b}) /\ Cardinality({a, b}) = 2
  BY TwoSize
<1>3. IsFiniteSet({a, b} \cup {c}) /\ Cardinality({a, b} \cup {c}) = 2 + 1
  BY <1>1, <1>2, OneMore
<1> QED
  BY <1>1, <1>3

\* A picture turned by a number of quarters, side by side.
LEMMA QuarterTurns ==
  ASSUME NEW sides \in SUBSET Sides
  PROVE  /\ Rotated(sides, 0) = sides
         /\ \A side \in Sides :
              /\ side \in Rotated(sides, 1) <=>
                   CASE side = "l" -> "u" \in sides [] side = "d" -> "l" \in sides
                     [] side = "r" -> "d" \in sides [] side = "u" -> "r" \in sides
              /\ side \in Rotated(sides, 2) <=> Opposite(side) \in sides
              /\ side \in Rotated(sides, 3) <=>
                   CASE side = "r" -> "u" \in sides [] side = "u" -> "l" \in sides
                     [] side = "l" -> "d" \in sides [] side = "d" -> "r" \in sides
         /\ \A quarters \in 0 .. 3 : Rotated(sides, quarters) \subseteq Sides
BY DEF Rotated, Turn, Sides, Opposite

\* A road tile shows the sides of its picture, turned by the quarters it is turned.
LEMMA TopDrawn ==
  ASSUME NEW tile, NEW name, NEW quarters, MakeRoadTile(tile) = Top(name, quarters)
  PROVE  Drawn(tile) = Rotated(OpenSides[name], quarters)
BY DEF Drawn, Top

\* Every tile there can be is drawn open where it is, or mirrored where it faces a side.
LEMMA TileDrawn ==
  ASSUME NEW tile \in SUBSET Sides
  PROVE  Drawn(tile) = IF Sideways(tile) THEN Mirrored(tile) ELSE tile
<1>1. CASE tile = {}
  <2>1. Cardinality(tile) = 0
    BY <1>1, NoSize
  <2>2. MakeRoadTile(tile) = Top("roadEdge", 0)
    BY <1>1, <2>1 DEF MakeRoadTile
  <2>3. Drawn(tile) = Rotated({}, 0)
    BY <2>2, TopDrawn DEF OpenSides, Sides
  <2> QED
    BY <1>1, <2>1, <2>3, QuarterTurns DEF Sideways, Mirrored, Opposite, Sides
<1>2. CASE tile = {"u"}
  <2>1. Cardinality(tile) = 1
    BY <1>2, OneSize
  <2>2. MakeRoadTile(tile) = Top("t", 0)
    BY <1>2, <2>1 DEF MakeRoadTile
  <2>3. Drawn(tile) = Rotated({"u"}, 0)
    BY <2>2, TopDrawn DEF OpenSides, Sides
  <2> QED
    BY <1>2, <2>1, <2>3, QuarterTurns DEF Sideways, Mirrored, Opposite, Sides
<1>3. CASE tile = {"r"}
  <2>1. Cardinality(tile) = 1
    BY <1>3, OneSize
  <2>2. MakeRoadTile(tile) = Top("t", 1)
    BY <1>3, <2>1 DEF MakeRoadTile
  <2>3. Drawn(tile) = Rotated({"u"}, 1)
    BY <2>2, TopDrawn DEF OpenSides, Sides
  <2> QED
    BY <1>3, <2>1, <2>3, QuarterTurns DEF Sideways, Mirrored, Opposite, Sides
<1>4. CASE tile = {"d"}
  <2>1. Cardinality(tile) = 1
    BY <1>4, OneSize
  <2>2. MakeRoadTile(tile) = Top("t", 2)
    BY <1>4, <2>1 DEF MakeRoadTile
  <2>3. Drawn(tile) = Rotated({"u"}, 2)
    BY <2>2, TopDrawn DEF OpenSides, Sides
  <2> QED
    BY <1>4, <2>1, <2>3, QuarterTurns DEF Sideways, Mirrored, Opposite, Sides
<1>5. CASE tile = {"l"}
  <2>1. Cardinality(tile) = 1
    BY <1>5, OneSize
  <2>2. MakeRoadTile(tile) = Top("t", 3)
    BY <1>5, <2>1 DEF MakeRoadTile
  <2>3. Drawn(tile) = Rotated({"u"}, 3)
    BY <2>2, TopDrawn DEF OpenSides, Sides
  <2> QED
    BY <1>5, <2>1, <2>3, QuarterTurns DEF Sideways, Mirrored, Opposite, Sides
<1>6. CASE tile = {"r", "l"}
  <2>1. Cardinality(tile) = 2
    BY <1>6, TwoSize
  <2>2. MakeRoadTile(tile) = Top("v", 1)
    BY <1>6, <2>1 DEF MakeRoadTile
  <2>3. Drawn(tile) = Rotated({"u", "d"}, 1)
    BY <2>2, TopDrawn DEF OpenSides, Sides
  <2> QED
    BY <1>6, <2>1, <2>3, QuarterTurns DEF Sideways, Mirrored, Opposite, Sides
<1>7. CASE tile = {"u", "d"}
  <2>1. Cardinality(tile) = 2
    BY <1>7, TwoSize
  <2>2. MakeRoadTile(tile) = Top("v", 0)
    BY <1>7, <2>1 DEF MakeRoadTile
  <2>3. Drawn(tile) = Rotated({"u", "d"}, 0)
    BY <2>2, TopDrawn DEF OpenSides, Sides
  <2> QED
    BY <1>7, <2>1, <2>3, QuarterTurns DEF Sideways, Mirrored, Opposite, Sides
<1>8. CASE tile = {"r", "d"}
  <2>1. Cardinality(tile) = 2
    BY <1>8, TwoSize
  <2>2. MakeRoadTile(tile) = Top("tr", 3)
    BY <1>8, <2>1 DEF MakeRoadTile
  <2>3. Drawn(tile) = Rotated({"u", "r"}, 3)
    BY <2>2, TopDrawn DEF OpenSides, Sides
  <2> QED
    BY <1>8, <2>1, <2>3, QuarterTurns DEF Sideways, Mirrored, Opposite, Sides
<1>9. CASE tile = {"d", "l"}
  <2>1. Cardinality(tile) = 2
    BY <1>9, TwoSize
  <2>2. MakeRoadTile(tile) = Top("tr", 2)
    BY <1>9, <2>1 DEF MakeRoadTile
  <2>3. Drawn(tile) = Rotated({"u", "r"}, 2)
    BY <2>2, TopDrawn DEF OpenSides, Sides
  <2> QED
    BY <1>9, <2>1, <2>3, QuarterTurns DEF Sideways, Mirrored, Opposite, Sides
<1>10. CASE tile = {"l", "u"}
  <2>1. Cardinality(tile) = 2
    BY <1>10, TwoSize
  <2>2. MakeRoadTile(tile) = Top("tr", 1)
    BY <1>10, <2>1 DEF MakeRoadTile
  <2>3. Drawn(tile) = Rotated({"u", "r"}, 1)
    BY <2>2, TopDrawn DEF OpenSides, Sides
  <2> QED
    BY <1>10, <2>1, <2>3, QuarterTurns DEF Sideways, Mirrored, Opposite, Sides
<1>11. CASE tile = {"u", "r"}
  <2>1. Cardinality(tile) = 2
    BY <1>11, TwoSize
  <2>2. MakeRoadTile(tile) = Top("tr", 0)
    BY <1>11, <2>1 DEF MakeRoadTile
  <2>3. Drawn(tile) = Rotated({"u", "r"}, 0)
    BY <2>2, TopDrawn DEF OpenSides, Sides
  <2> QED
    BY <1>11, <2>1, <2>3, QuarterTurns DEF Sideways, Mirrored, Opposite, Sides
<1>12. CASE tile = {"r", "d", "l"}
  <2>1. Cardinality(tile) = 3
    BY <1>12, ThreeSize
  <2>2. MakeRoadTile(tile) = Top("nt", 0)
    BY <1>12, <2>1 DEF MakeRoadTile
  <2>3. Drawn(tile) = Rotated({"l", "r", "d"}, 0)
    BY <2>2, TopDrawn DEF OpenSides, Sides
  <2> QED
    BY <1>12, <2>1, <2>3, QuarterTurns DEF Sideways, Mirrored, Opposite, Sides
<1>13. CASE tile = {"u", "d", "l"}
  <2>1. Cardinality(tile) = 3
    BY <1>13, ThreeSize
  <2>2. MakeRoadTile(tile) = Top("nt", 1)
    BY <1>13, <2>1 DEF MakeRoadTile
  <2>3. Drawn(tile) = Rotated({"l", "r", "d"}, 1)
    BY <2>2, TopDrawn DEF OpenSides, Sides
  <2> QED
    BY <1>13, <2>1, <2>3, QuarterTurns DEF Sideways, Mirrored, Opposite, Sides
<1>14. CASE tile = {"u", "r", "l"}
  <2>1. Cardinality(tile) = 3
    BY <1>14, ThreeSize
  <2>2. MakeRoadTile(tile) = Top("nt", 2)
    BY <1>14, <2>1 DEF MakeRoadTile
  <2>3. Drawn(tile) = Rotated({"l", "r", "d"}, 2)
    BY <2>2, TopDrawn DEF OpenSides, Sides
  <2> QED
    BY <1>14, <2>1, <2>3, QuarterTurns DEF Sideways, Mirrored, Opposite, Sides
<1>15. CASE tile = {"u", "r", "d"}
  <2>1. Cardinality(tile) = 3
    BY <1>15, ThreeSize
  <2>2. MakeRoadTile(tile) = Top("nt", 3)
    BY <1>15, <2>1 DEF MakeRoadTile
  <2>3. Drawn(tile) = Rotated({"l", "r", "d"}, 3)
    BY <2>2, TopDrawn DEF OpenSides, Sides
  <2> QED
    BY <1>15, <2>1, <2>3, QuarterTurns DEF Sideways, Mirrored, Opposite, Sides
<1>16. CASE tile = {"u", "r", "d", "l"}
  <2>1. Cardinality(tile) = 4
    <3>1. tile = {"u", "r", "d"} \cup {"l"} /\ "l" \notin {"u", "r", "d"}
      BY <1>16
    <3>2. IsFiniteSet({"u", "r", "d"}) /\ Cardinality({"u", "r", "d"}) = 3
      BY ThreeSize
    <3>3. Cardinality({"u", "r", "d"} \cup {"l"}) = 3 + 1
      BY <3>1, <3>2, OneMore
    <3> QED
      BY <3>1, <3>3
  <2>2. MakeRoadTile(tile) = Top("vh", 0)
    BY <1>16, <2>1 DEF MakeRoadTile
  <2>3. Drawn(tile) = Rotated({"u", "r", "d", "l"}, 0)
    BY <2>2, TopDrawn DEF OpenSides, Sides
  <2> QED
    BY <1>16, <2>1, <2>3, QuarterTurns DEF Sideways, Mirrored, Opposite, Sides
<1>17. tile \in {{}, {"u"}, {"r"}, {"d"}, {"l"},
                {"r", "l"}, {"u", "d"}, {"r", "d"}, {"d", "l"}, {"l", "u"}, {"u", "r"},
                {"r", "d", "l"}, {"u", "d", "l"}, {"u", "r", "l"}, {"u", "r", "d"}, {"u", "r", "d", "l"}}
  <2>1. tile = {side \in Sides : side \in tile}
    OBVIOUS
  <2> QED
    BY <2>1 DEF Sides
<1> QED
  BY <1>1, <1>2, <1>3, <1>4, <1>5, <1>6, <1>7, <1>8, <1>9, <1>10, <1>11,
     <1>12, <1>13, <1>14, <1>15, <1>16, <1>17

\* On every map that AddRoads can build each tile is drawn open where it is, but for the
\* dead ends and junctions that the page mirrors.
THEOREM TilesAreDrawn == Spec => []TilesDrawn
<1>1. TilesDrawn
  <2>1. \A cell \in RoadCells : Tile(cell) \in SUBSET Sides
    BY DEF Tile, SidesOf, Sides
  <2> QED
    BY <2>1, TileDrawn DEF TilesDrawn
<1> QED
  BY <1>1, PTL
=============================================================================
