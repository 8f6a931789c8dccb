---------------------------- MODULE DogParkProofs ----------------------------
(***************************************************************************)
(* GameServer implements DogPark: for every config, any number of dogs and *)
(* whatever clients send, provided that time and speeds are not negative   *)
(* and dogs are put on roads.                                              *)
(***************************************************************************)
EXTENDS GameServerProofs

\* A road as DogPark sees it.
StreetOf(road) == [lo |-> LowerBorder(road), hi |-> UpperBorder(road)]

LEMMA StreetCovers ==
  ASSUME NEW road, NEW p
  PROVE  Park!Within(StreetOf(road), p) <=> Covers(road, p)
BY DEF Park!Within, StreetOf, Covers

\* Where a walk along a lane takes a dog (the switch of UpdateDogLocation).
LEMMA ArrivalPromise ==
  ASSUME NEW dog, Walks(dog), NEW time \in Nat,
         NEW lane \in RoadType, Covers(lane, dog.loc)
  PROVE  LET arrival == Arrival(lane, dog, time)
         IN  /\ Park!Onward(dog.loc, dog.dir, arrival)
             /\ Target(dog, time) = dog.loc => arrival = dog.loc
             /\ arrival # Target(dog, time) => Park!AtEnd(StreetOf(lane), arrival, dog.dir)
<1> DEFINE there == Target(dog, time)
           arrival == Arrival(lane, dog, time)
<1>1. /\ dog.loc \in Point /\ dog.dir \in Directions /\ there \in Point
      /\ LowerBorder(lane) \in Point /\ UpperBorder(lane) \in Point
  BY TargetAhead, RoadBorders DEF Walks, WalkerType
<1>2. /\ dog.dir = "D" => there.x = dog.loc.x /\ there.y >= dog.loc.y
      /\ dog.dir = "U" => there.x = dog.loc.x /\ there.y <= dog.loc.y
      /\ dog.dir = "R" => there.y = dog.loc.y /\ there.x >= dog.loc.x
      /\ dog.dir = "L" => there.y = dog.loc.y /\ there.x <= dog.loc.x
      /\ dog.dir = "S" => there = dog.loc
  BY TargetAhead
<1>3. /\ StreetOf(lane).lo = LowerBorder(lane) /\ StreetOf(lane).hi = UpperBorder(lane)
      /\ LowerBorder(lane).x <= dog.loc.x /\ dog.loc.x <= UpperBorder(lane).x
      /\ LowerBorder(lane).y <= dog.loc.y /\ dog.loc.y <= UpperBorder(lane).y
  BY DEF StreetOf, Covers
<1>4. there = [x |-> there.x, y |-> there.y] /\ dog.loc = [x |-> dog.loc.x, y |-> dog.loc.y]
  BY <1>1 DEF Point
<1> HIDE DEF there
<1>5. CASE dog.dir = "D"
  <2> DEFINE end == WalkUntil(dog.loc.y, there.y, UpperBorder(lane).y)
  <2>1. arrival = [there EXCEPT !.y = end]
    BY <1>5 DEF Arrival, there
  <2>2. end >= dog.loc.y /\ end \in Int /\ (there.y = dog.loc.y => end = there.y)
        /\ (end # there.y => end = UpperBorder(lane).y)
    BY <1>1, <1>2, <1>3, <1>5 DEF WalkUntil, Abs, Point
  <2> HIDE DEF end, arrival
  <2>3. arrival = [x |-> there.x, y |-> end]
    BY <1>1, <2>1 DEF Point
  <2> QED
    BY <1>1, <1>2, <1>3, <1>4, <1>5, <2>2, <2>3 DEF Park!Onward, Park!AtEnd, there, arrival
<1>6. CASE dog.dir = "U"
  <2> DEFINE end == WalkUntil(dog.loc.y, there.y, LowerBorder(lane).y)
  <2>1. arrival = [there EXCEPT !.y = end]
    BY <1>6 DEF Arrival, there
  <2>2. end <= dog.loc.y /\ end \in Int /\ (there.y = dog.loc.y => end = there.y)
        /\ (end # there.y => end = LowerBorder(lane).y)
    BY <1>1, <1>2, <1>3, <1>6 DEF WalkUntil, Abs, Point
  <2> HIDE DEF end, arrival
  <2>3. arrival = [x |-> there.x, y |-> end]
    BY <1>1, <2>1 DEF Point
  <2> QED
    BY <1>1, <1>2, <1>3, <1>4, <1>6, <2>2, <2>3 DEF Park!Onward, Park!AtEnd, there, arrival
<1>7. CASE dog.dir = "R"
  <2> DEFINE end == WalkUntil(dog.loc.x, there.x, UpperBorder(lane).x)
  <2>1. arrival = [there EXCEPT !.x = end]
    BY <1>7 DEF Arrival, there
  <2>2. end >= dog.loc.x /\ end \in Int /\ (there.x = dog.loc.x => end = there.x)
        /\ (end # there.x => end = UpperBorder(lane).x)
    BY <1>1, <1>2, <1>3, <1>7 DEF WalkUntil, Abs, Point
  <2> HIDE DEF end, arrival
  <2>3. arrival = [x |-> end, y |-> there.y]
    BY <1>1, <2>1 DEF Point
  <2> QED
    BY <1>1, <1>2, <1>3, <1>4, <1>7, <2>2, <2>3 DEF Park!Onward, Park!AtEnd, there, arrival
<1>8. CASE dog.dir = "L"
  <2> DEFINE end == WalkUntil(dog.loc.x, there.x, LowerBorder(lane).x)
  <2>1. arrival = [there EXCEPT !.x = end]
    BY <1>8 DEF Arrival, there
  <2>2. end <= dog.loc.x /\ end \in Int /\ (there.x = dog.loc.x => end = there.x)
        /\ (end # there.x => end = LowerBorder(lane).x)
    BY <1>1, <1>2, <1>3, <1>8 DEF WalkUntil, Abs, Point
  <2> HIDE DEF end, arrival
  <2>3. arrival = [x |-> end, y |-> there.y]
    BY <1>1, <2>1 DEF Point
  <2> QED
    BY <1>1, <1>2, <1>3, <1>4, <1>8, <2>2, <2>3 DEF Park!Onward, Park!AtEnd, there, arrival
<1>9. CASE dog.dir = "S"
  BY <1>1, <1>2, <1>9 DEF Arrival, Park!Onward, Park!AtEnd, there
<1> QED
  BY <1>1, <1>5, <1>6, <1>7, <1>8, <1>9 DEF Directions

\* A dog that stands still does not get anywhere.
LEMMA StillTarget ==
  ASSUME NEW dog \in WalkerType, NEW time \in Nat, dog.speed = Still
  PROVE  Target(dog, time) = dog.loc
<1>1. dog.loc = [x |-> dog.loc.x, y |-> dog.loc.y] /\ dog.loc.x \in Int /\ dog.loc.y \in Int
  BY DEF WalkerType, Point
<1> QED
  BY <1>1 DEF Target, Still

\* A walk of UpdateDogLocation is a move of DogPark.
LEMMA WalkPromise ==
  ASSUME NEW roads \in Seq(RoadType), NEW dog, Walks(dog), NEW time \in Nat,
         OnRoad(roads, dog.loc)
  PROVE  LET moved == UpdateDogLocation(IndexOf(roads), dog, time)
         IN  /\ moved.dir = dog.dir
             /\ Runs(moved) => Runs(dog)
             /\ ~Runs(dog) => moved.loc = dog.loc
             /\ Park!Onward(dog.loc, dog.dir, moved.loc)
             /\ \E i \in DOMAIN roads :
                  /\ Park!Within(StreetOf(roads[i]), dog.loc)
                  /\ Park!Within(StreetOf(roads[i]), moved.loc)
                  /\ Runs(dog) /\ ~Runs(moved) =>
                       Park!AtEnd(StreetOf(roads[i]), moved.loc, dog.dir)
<1> DEFINE hor   == FindHorizontal(IndexOf(roads), dog.loc)
           vert  == FindVertical(IndexOf(roads), dog.loc)
           lane  == LaneOf(hor, vert, dog.dir)
           moved == UpdateDogLocation(IndexOf(roads), dog, time)
<1>0. dog \in WalkerType /\ dog.loc \in Point /\ dog.dir \in Directions
  BY DEF Walks, WalkerType
<1>1. moved.dir = dog.dir /\ moved.speed \in {dog.speed, Still}
  BY <1>0, UpdateKeepsDog
<1>2. CASE hor = {} /\ vert = {}
  <2>1. moved = dog
    BY <1>2 DEF UpdateDogLocation
  <2>2. Park!Onward(dog.loc, dog.dir, dog.loc)
    <3>1. dog.loc.x \in Int /\ dog.loc.y \in Int
      BY <1>0 DEF Point
    <3> DEFINE x == dog.loc.x
               y == dog.loc.y
    <3>2. y >= y /\ y <= y /\ x >= x /\ x <= x
      BY <3>1
    <3>3. dog.dir = "D" \/ dog.dir = "U" \/ dog.dir = "R" \/ dog.dir = "L" \/ dog.dir = "S"
      BY <1>0 DEF Directions
    <3> QED
      BY <3>2, <3>3 DEF Park!Onward
  <2> QED
    BY <2>1, <2>2, StreetCovers DEF OnRoad
<1>3. CASE hor # {} \/ vert # {}
  <2>1. lane \in hor \cup vert
    BY <1>3, LaneFound
  <2>2. lane \in RoadType /\ Covers(lane, dog.loc) /\ \E i \in DOMAIN roads : roads[i] = lane
    <3> HIDE DEF lane
    <3> QED BY <1>0, <2>1, FoundCovers
  <2>3. moved = Walk(lane, dog, time)
    BY <1>3 DEF UpdateDogLocation
  <2> HIDE DEF lane, moved
  <2> DEFINE arrival == Arrival(lane, dog, time)
             speed   == IF arrival = Target(dog, time) THEN dog.speed ELSE Still
  <2>4. moved = [dog EXCEPT !.loc = arrival, !.speed = speed]
    BY <2>3, Zenon DEF Walk
  <2>5. /\ Covers(lane, arrival)
        /\ Park!Onward(dog.loc, dog.dir, arrival)
        /\ Target(dog, time) = dog.loc => arrival = dog.loc
        /\ arrival # Target(dog, time) => Park!AtEnd(StreetOf(lane), arrival, dog.dir)
    BY <2>2, ArrivalCovered, ArrivalPromise
  <2> HIDE DEF arrival
  <2>6. moved.loc = arrival /\ moved.speed = speed
    BY <1>0, <2>4 DEF WalkerType
  <2>7. ~Runs(dog) => arrival = dog.loc
    BY <1>0, <2>5, StillTarget DEF Runs
  <2>8. Runs(dog) /\ ~Runs(moved) => Park!AtEnd(StreetOf(lane), arrival, dog.dir)
    BY <2>5, <2>6 DEF Runs
  <2>9. /\ Park!Within(StreetOf(lane), dog.loc) /\ Park!Within(StreetOf(lane), arrival)
        /\ Runs(moved) => Runs(dog)
    BY <1>1, <2>2, <2>5, StreetCovers DEF Runs
  <2> QED
    BY <1>1, <2>2, <2>5, <2>6, <2>7, <2>8, <2>9 DEF moved
<1> QED
  BY <1>2, <1>3

-----------------------------------------------------------------------------
(* The dogs as DogPark sees them, and what each kind of step is to it.     *)

View == [id \in Ids |-> [map |-> player[id].session, loc |-> dogs[id].loc,
                         dir |-> dogs[id].dir, runs |-> Runs(dogs[id])]]

StreetsOf == [m \in Maps |->
                {[lo |-> LowerBorder(RoadsOf[m][i]), hi |-> UpperBorder(RoadsOf[m][i])] :
                   i \in DOMAIN RoadsOf[m]}]

\* What DogPark sees of one dog.
LEMMA ViewOfDog ==
  ASSUME NEW map, NEW loc, NEW dir, NEW runs \in BOOLEAN,
         NEW dog, dog = [map |-> map, loc |-> loc, dir |-> dir, runs |-> runs]
  PROVE  dog.map = map /\ dog.loc = loc /\ dog.dir = dir /\ dog.runs = runs
OBVIOUS

\* The streets of a map are its roads.
LEMMA StreetsOfMap ==
  ASSUME NEW map \in Maps
  PROVE  StreetsOf[map] = {StreetOf(RoadsOf[map][i]) : i \in DOMAIN RoadsOf[map]}
BY DEF StreetsOf, StreetOf

\* A join makes one dog appear.
LEMMA JoinAppears ==
  ASSUME SpawnsOnRoads, IInv, Joins
  PROVE  Park!Next
<1>1. PICK map \in Maps, spawn \in Point, token \in Tokens :
         /\ spawn \in SpawnPoints(map)
         /\ Ids' = Ids \cup {nextId + 1} /\ nextId + 1 \notin Ids
         /\ dogs' = [id \in Ids' |-> IF id = nextId + 1 THEN NewDog(map, spawn) ELSE dogs[id]]
         /\ player' = [id \in Ids' |-> IF id = nextId + 1
                                       THEN [session |-> map, token |-> token]
                                       ELSE player[id]]
  BY JoinEffect DEF IInv
<1>2. PICK new \in Ids' :
        /\ Ids' = Ids \cup {new} /\ new \notin Ids
        /\ \A id \in Ids : dogs'[id] = dogs[id] /\ player'[id] = player[id]
        /\ dogs'[new] = NewDog(map, spawn) /\ player'[new].session = map
  BY <1>1
<1>3. PICK i \in DOMAIN RoadsOf[map] : Covers(RoadsOf[map][i], spawn)
  BY <1>1, SpawnCovered DEF OnRoad
<1>4. \E street \in StreetsOf[map] : Park!Within(street, spawn)
  BY <1>3, StreetsOfMap, StreetCovers
<1>5. /\ View'[new].map = map /\ View'[new].loc = spawn /\ View'[new].dir = "U"
      /\ ~View'[new].runs
  <2>1. /\ dogs'[new].loc = spawn /\ dogs'[new].dir = "U" /\ ~Runs(dogs'[new])
    BY <1>2 DEF NewDog, Runs
  <2>2. View'[new] = [map |-> player'[new].session, loc |-> dogs'[new].loc,
                      dir |-> dogs'[new].dir, runs |-> Runs(dogs'[new])]
    BY <1>2 DEF View
  <2>3. Runs(dogs'[new]) \in BOOLEAN
    BY DEF Runs
  <2>4. /\ View'[new].map = player'[new].session /\ View'[new].loc = dogs'[new].loc
        /\ View'[new].dir = dogs'[new].dir /\ View'[new].runs = Runs(dogs'[new])
    BY <2>2, <2>3, ViewOfDog
  <2> QED
    BY <1>2, <2>1, <2>4, Zenon
<1>6. DOMAIN View = Ids /\ DOMAIN View' = Ids'
  BY DEF View
<1>7. \A id \in Ids : View'[id] = View[id]
  BY <1>2 DEF View
<1>8. /\ DOMAIN View' = DOMAIN View \cup {new}
      /\ \A id \in DOMAIN View : View'[id] = View[id]
      /\ View'[new].map \in Maps /\ View'[new].dir = "U" /\ ~View'[new].runs
      /\ \E street \in StreetsOf[View'[new].map] : Park!Within(street, View'[new].loc)
  BY <1>2, <1>4, <1>5, <1>6, <1>7, Zenon
<1>9. Park!Appear(new)
  BY <1>8, Zenon DEF Park!Appear, View, StreetsOf
<1>10. new \in DOMAIN View' \ DOMAIN View
  BY <1>2, <1>6
<1>11. \E id \in DOMAIN View' \ DOMAIN View : Park!Appear(id)
  BY <1>9, <1>10
<1> QED
  BY <1>11, Zenon DEF Park!Next, View

\* A move turns one dog.
LEMMA SteerTurns ==
  ASSUME IInv, Steers
  PROVE  Park!Next
<1>1. PICK id \in Ids, dir \in Directions :
         /\ dogs' = [i \in Ids |->
                      IF i = id
                      THEN [dogs[i] EXCEPT !.dir = dir,
                                           !.speed = SpeedTowards(dir, dogs[i].standard)]
                      ELSE dogs[i]]
         /\ UNCHANGED <<Ids, player>>
  BY SteerEffect DEF IInv
<1>2. dogs[id] \in DogType
  BY DEF IInv, TypeOK
<1>3. /\ dogs'[id].loc = dogs[id].loc /\ dogs'[id].dir = dir
      /\ dogs'[id].speed = SpeedTowards(dir, dogs[id].standard)
  BY <1>1, <1>2, SteeredDog
<1>4. dir = "S" => ~Runs(dogs'[id])
  BY <1>3 DEF SpeedTowards, Runs
<1>5. \A i \in Ids \ {id} : dogs'[i] = dogs[i]
  BY <1>1
<1> DEFINE runs == Runs(dogs'[id])
<1>6. View' = [View EXCEPT ![id].dir = dir, ![id].runs = runs]
  BY <1>1, <1>3, <1>5 DEF View
<1>7. runs \in BOOLEAN
  BY DEF Runs
<1> HIDE DEF runs
<1>8. (dir = "S" => ~runs) /\ DOMAIN View = Ids /\ dir \in {"U", "D", "L", "R", "S"}
  BY <1>4 DEF View, runs, Directions
<1>9. Park!Turn(id, dir)
  BY <1>6, <1>7, <1>8 DEF Park!Turn, View
<1> QED
  BY <1>8, <1>9 DEF Park!Next, View

\* A tick moves each dog as DogPark allows.
LEMMA ClockMoves ==
  ASSUME TimeForward, SpeedsForward, IInv, NeverStranded, Clocks, NEW id \in Ids
  PROVE  Park!RunsOn(View[id], View'[id]) /\ Ids' = Ids
<1> DEFINE map   == player[id].session
           roads == RoadsOf[map]
           dog   == dogs[id]
           moved == dogs'[id]
<1>1. map \in Maps /\ map \in sessions /\ id \in dogsOf[map] /\ SessionOf(id) = map
  BY SessionOfPlayer DEF IInv
<1>2. roads \in Seq(RoadType)
  BY <1>1, ConfigAssumption
<1>3. PICK time \in (TickTimes \cup TimerDeltas) \cap Int :
        /\ dogs'[id] = IF \E m \in sessions : id \in dogsOf[m]
                       THEN UpdateDogLocation(IndexOf(RoadsOf[SessionOf(id)]), dogs[id], time)
                       ELSE dogs[id]
        /\ UNCHANGED <<Ids, player>>
  BY ClockEffect DEF IInv
<1>4. time \in Nat
  BY SettingAssumption DEF TimeForward
<1>5. moved = UpdateDogLocation(IndexOf(roads), dog, time)
  BY <1>1, <1>3
<1>6. Walks(dog)
  <2>1. dog \in WalkerType
    BY DEF IInv, TypeOK, DogType, WalkerType
  <2>2. dog.standard >= 0 /\ dog.speed \in {Still, SpeedTowards(dog.dir, dog.standard)}
    BY <1>1 DEF IInv, SpeedFollowsDirection, SpeedsForward
  <2> QED
    BY <2>1, <2>2 DEF Walks
<1>7. OnRoad(roads, dog.loc)
  BY DEF NeverStranded
<1>8. /\ View[id] = [map |-> map, loc |-> dog.loc, dir |-> dog.dir, runs |-> Runs(dog)]
      /\ View'[id] = [map |-> map, loc |-> moved.loc, dir |-> moved.dir, runs |-> Runs(moved)]
  BY <1>3 DEF View
<1>9. StreetsOf[map] = {StreetOf(roads[i]) : i \in DOMAIN roads}
  BY <1>1, StreetsOfMap
<1> HIDE DEF dog, roads, moved, map
<1>10. /\ moved.dir = dog.dir
       /\ Runs(moved) => Runs(dog)
       /\ ~Runs(dog) => moved.loc = dog.loc
       /\ Park!Onward(dog.loc, dog.dir, moved.loc)
       /\ \E i \in DOMAIN roads :
            /\ Park!Within(StreetOf(roads[i]), dog.loc)
            /\ Park!Within(StreetOf(roads[i]), moved.loc)
            /\ Runs(dog) /\ ~Runs(moved) => Park!AtEnd(StreetOf(roads[i]), moved.loc, dog.dir)
  BY <1>2, <1>4, <1>5, <1>6, <1>7, WalkPromise
<1>11. \E street \in StreetsOf[map] :
         /\ Park!Within(street, dog.loc) /\ Park!Within(street, moved.loc)
         /\ Runs(dog) /\ ~Runs(moved) => Park!AtEnd(street, moved.loc, dog.dir)
  BY <1>9, <1>10
<1>12. Runs(dog) \in BOOLEAN /\ Runs(moved) \in BOOLEAN
  BY DEF Runs
<1>13. /\ View[id].map = map /\ View[id].loc = dog.loc /\ View[id].dir = dog.dir
       /\ View[id].runs = Runs(dog)
       /\ View'[id].map = map /\ View'[id].loc = moved.loc /\ View'[id].dir = moved.dir
       /\ View'[id].runs = Runs(moved)
  BY <1>8, <1>12, ViewOfDog
<1>14. Park!RunsOn(View[id], View'[id])
  BY <1>10, <1>11, <1>13, Zenon DEF Park!RunsOn, StreetsOf
<1> QED
  BY <1>3, <1>14

\* Every step of the game is a step of the park, or changes nothing in it.
LEMMA ParkStep ==
  ASSUME TimeForward, SpeedsForward, SpawnsOnRoads, IInv, NeverStranded, [Next]_vars
  PROVE  Park!Next \/ UNCHANGED View
<1>0. Rests \/ Joins \/ Steers \/ Clocks
  BY StepKinds DEF IInv
<1>1. CASE Rests
  BY <1>1 DEF Rests, world, View, Ids, Runs
<1>2. CASE Clocks
  <2>1. Ids' = Ids
    BY <1>2, ClockEffect DEF IInv
  <2>2. \A id \in Ids : Park!RunsOn(View[id], View'[id])
    BY <1>2, ClockMoves
  <2>3. DOMAIN View = Ids /\ DOMAIN View' = Ids'
    BY DEF View
  <2>4. Park!Lapse
    BY <2>1, <2>2, <2>3 DEF Park!Lapse, View
  <2> QED
    BY <2>4 DEF Park!Next
<1> QED
  BY <1>0, <1>1, <1>2, JoinAppears, SteerTurns

\* The game of GameServer is a park as DogPark promises it: provided time does not run
\* backward and dogs are put on roads, nothing clients send can break the promise.
THEOREM ServerKeepsPromise ==
  ASSUME TimeForward, SpeedsForward, SpawnsOnRoads
  PROVE  Spec => KeepsPromise
<1>1. Init => Park!Init
  BY DEF Init, Park!Init, Ids
<1>2. IInv /\ NeverStranded /\ [Next]_vars =>
        [Park!Next]_([id \in Ids |-> [map |-> player[id].session, loc |-> dogs[id].loc,
                                      dir |-> dogs[id].dir, runs |-> Runs(dogs[id])]])
  <2>1. IInv /\ NeverStranded /\ [Next]_vars => Park!Next \/ View' = View
    BY ParkStep
  <2> QED
    BY <2>1, Zenon DEF View
<1> QED
  BY <1>1, <1>2, Invariant, NobodyStranded, PTL DEF Spec, KeepsPromise, Park!Spec
=============================================================================
