-------------------------- MODULE GameServerProofs --------------------------
(***************************************************************************)
(* The invariants of the game for every config, every set of tokens and    *)
(* clients' inputs, and any number of dogs.                                *)
(***************************************************************************)
EXTENDS GameServer, RoadsProofs

\* The four things a handler can do to the world.
Rests  == UNCHANGED world /\ reply' \in Statuses
Joins  == reply' = 200 /\ \E map \in Maps : CreateNewPlayer(map)
Steers == /\ reply' = 200
          /\ \E id \in Ids, dir \in Directions :
               (\E token \in Tokens : players[token] = id) /\ SetDirection(id, dir)
          /\ UNCHANGED <<nextId, sessions, dogsOf, player, players, playersOf>>
Clocks == reply' \in {0, 200} /\ \E time \in TickTimes \cup TimerDeltas : UpdateOnTime(time)

Errors == {"OK", "INVALID_TOKEN", "UNKNOWN_TOKEN", "INVALID_METHOD", "MAP_NOT_FOUND",
           "BAD_REQUEST", "INVALID_ARGUMENT_NAME", "INVALID_ARGUMENT_PARSING",
           "INVALID_MOVE", "INVALID_TICK_TIME", "SERVER_ERROR"}

\* A handler that changes nothing rests.
LEMMA AnswerRests ==
  ASSUME NEW error \in Errors, Answer(error)
  PROVE  Rests
<1>1. StatusOf(error) \in Statuses
  BY DEF StatusOf, Statuses, Errors
<1> QED
  BY <1>1 DEF Rests, Answer

\* Authorization answers one of three ways; only with "OK" is there a player.
LEMMA AdmissionErrors ==
  ASSUME NEW allowed, NEW method, NEW header
  PROVE  /\ Admission(allowed, method, header)
              \in {"OK", "INVALID_METHOD", "INVALID_TOKEN", "UNKNOWN_TOKEN"}
         /\ Admission(allowed, method, header) = "OK" =>
              header \in Tokens /\ players[header] # 0
  BY DEF Admission, Authorization

\* Every step is one of the four.
LEMMA StepKinds ==
  ASSUME TypeOK, [Next]_vars
  PROVE  Rests \/ Joins \/ Steers \/ Clocks
<1>1. ASSUME NEW method \in Methods, NEW body \in JoinBodies, Authorize_Request(method, body)
      PROVE  Rests \/ Joins
  <2>1. CASE JoinVerdict(method, body) = "OK" /\ CreateNewPlayer(body.map) /\ reply' = 200
    <3>1. body.map \in Maps
      BY <2>1 DEF JoinVerdict, JoinBodies
    <3> QED
      BY <2>1, <3>1 DEF Joins
  <2>2. CASE JoinVerdict(method, body) # "OK" /\ Answer(JoinVerdict(method, body))
    <3>1. JoinVerdict(method, body) \in Errors
      BY DEF JoinVerdict, JoinBodies, Errors
    <3> QED
      BY <2>2, <3>1, AnswerRests
  <2> QED
    BY <1>1, <2>1, <2>2 DEF Authorize_Request
<1>2. ASSUME NEW method \in Methods, NEW header \in Headers, NEW body \in MoveBodies,
             Move_Request(method, header, body)
      PROVE  Rests \/ Steers
  <2>0. /\ MoveVerdict(method, header, body) \in Errors
        /\ MoveVerdict(method, header, body) = "OK" =>
             Admission(AllowPost, method, header) = "OK" /\ body \in Directions
    <3>1. body \in Directions \cup {"unreadable", "no_such_move"}
      BY RequestAssumption DEF MoveBodies
    <3>2. Admission(AllowPost, method, header)
            \in {"OK", "INVALID_METHOD", "INVALID_TOKEN", "UNKNOWN_TOKEN"}
      BY AdmissionErrors
    <3> QED
      BY <3>1, <3>2 DEF MoveVerdict, Errors, Directions
  <2>1. CASE MoveVerdict(method, header, body) = "OK"
    <3>1. header \in Tokens /\ players[header] # 0 /\ body \in Directions
      BY <2>0, <2>1, AdmissionErrors
    <3>2. players[header] \in Ids
      BY <3>1 DEF TypeOK, Ids
    <3> QED
      BY <1>2, <2>1, <3>1, <3>2 DEF Move_Request, Steers
  <2>2. CASE MoveVerdict(method, header, body) # "OK"
    BY <1>2, <2>0, <2>2, AnswerRests DEF Move_Request
  <2> QED
    BY <2>1, <2>2
<1>3. ASSUME NEW method \in Methods, NEW body \in TickBodies, UpdateOnTime_Request(method, body)
      PROVE  Rests \/ Clocks
  <2>1. TickVerdict(method, body) \in Errors /\ body.time \in TickTimes
    BY DEF TickVerdict, TickBodies, Errors
  <2> QED
    BY <1>3, <2>1, AnswerRests DEF UpdateOnTime_Request, Clocks
<1>4. ASSUME NEW method \in Methods, NEW header \in Headers,
             GameState_Request(method, header) \/ PlayerList_Request(method, header)
      PROVE  Rests
  <2>1. /\ Admission(AllowGetHead, method, header) \in Errors
        /\ PlayerListVerdict(method, header) \in Errors
    BY AdmissionErrors DEF PlayerListVerdict, Errors
  <2> QED
    BY <1>4, <2>1, AnswerRests DEF GameState_Request, PlayerList_Request
<1>5. ASSUME NEW method \in Methods, NEW map, Game_Request(method, map)
      PROVE  Rests
  <2>1. (IF method \notin AllowGetHead THEN "INVALID_METHOD"
         ELSE IF map \in Maps THEN "OK" ELSE "MAP_NOT_FOUND") \in Errors
    BY DEF Errors
  <2> QED
    BY <1>5, <2>1, AnswerRests DEF Game_Request
<1>6. CASE UnknownTarget
  BY <1>6, AnswerRests DEF UnknownTarget, Errors
<1>7. CASE UpdateOnTick
  BY <1>7 DEF UpdateOnTick, Clocks
<1>8. CASE UNCHANGED vars
  BY <1>8 DEF vars, Rests, TypeOK
<1> QED
  BY <1>1, <1>2, <1>3, <1>4, <1>5, <1>6, <1>7, <1>8 DEF Next, HandleURI

-----------------------------------------------------------------------------
(* Type correctness.                                                       *)

\* A new dog is put on a point.
LEMMA SpawnTypes ==
  ASSUME NEW map \in Maps, NEW spawn \in SpawnPoints(map)
  PROVE  spawn \in Point
<1>1. RoadsOf[map] \in Seq(RoadType) /\ Cell \in Nat
  BY ConfigAssumption, GridAssumption
<1>2. ASSUME NEW i \in DOMAIN RoadsOf[map]
      PROVE  Cell * RoadsOf[map][i].start.x \in Int /\ Cell * RoadsOf[map][i].start.y \in Int
  <2>1. RoadsOf[map][i] \in RoadType
    BY <1>1
  <2>2. RoadsOf[map][i].start.x \in Int /\ RoadsOf[map][i].start.y \in Int
    BY <2>1 DEF RoadType, Point
  <2> QED
    BY <1>1, <2>2
<1>3. Origin \in Point
  BY DEF Origin, Point
<1> QED
  BY <1>2, <1>3 DEF SpawnPoints, Point

\* What a join does (Zoo::GetDog, GameSession::Add_Dog, PlayerLibrary::AddNewPlayer).
LEMMA JoinEffect ==
  ASSUME TypeOK, Joins
  PROVE  \E map \in Maps, spawn \in Point, token \in Tokens :
           /\ spawn \in SpawnPoints(map) /\ token \in NewTokens
           /\ nextId + 1 \in 1 .. MaxDogs /\ nextId' = nextId + 1
           /\ Ids' = Ids \cup {nextId + 1} /\ nextId + 1 \notin Ids
           /\ dogs' = [id \in Ids' |-> IF id = nextId + 1 THEN NewDog(map, spawn) ELSE dogs[id]]
           /\ player' = [id \in Ids' |-> IF id = nextId + 1
                                         THEN [session |-> map, token |-> token]
                                         ELSE player[id]]
           /\ sessions' = sessions \cup {map}
           /\ dogsOf' = [dogsOf EXCEPT ![map] = @ \cup {nextId + 1}]
           /\ playersOf' = [playersOf EXCEPT ![map] = @ \cup {nextId + 1}]
           /\ players' = [players EXCEPT ![token] = IF @ = 0 THEN nextId + 1 ELSE @]
<1>1. PICK map \in Maps : CreateNewPlayer(map)
  BY DEF Joins
<1>2. PICK spawn \in SpawnPoints(map), token \in NewTokens :
        /\ sessions' = sessions \cup {map}
        /\ CreateDog(map, spawn)
        /\ AddNewPlayer(map, token, nextId + 1)
  BY <1>1 DEF CreateNewPlayer
<1>3. spawn \in Point /\ token \in Tokens
  BY SpawnTypes DEF NewTokens
<1>4. /\ nextId + 1 \in 1 .. MaxDogs /\ nextId' = nextId + 1
      /\ Ids' = Ids \cup {nextId + 1} /\ nextId + 1 \notin Ids
      /\ DOMAIN dogs = Ids /\ DOMAIN player = Ids
  BY <1>1, <1>2, SettingAssumption DEF TypeOK, CreateNewPlayer, CreateDog, Ids
<1> QED
  BY <1>2, <1>3, <1>4 DEF CreateDog, AddNewPlayer, With

\* What a move does (Dog::SetDirection): it turns the dog that its token leads to.
LEMMA SteerEffect ==
  ASSUME TypeOK, Steers
  PROVE  \E id \in Ids, dir \in Directions :
           /\ \E token \in Tokens : players[token] = id
           /\ dogs' = [i \in Ids |->
                        IF i = id
                        THEN [dogs[i] EXCEPT !.dir = dir,
                                             !.speed = SpeedTowards(dir, dogs[i].standard)]
                        ELSE dogs[i]]
           /\ UNCHANGED <<nextId, Ids, sessions, dogsOf, player, players, playersOf>>
<1>1. PICK id \in Ids, dir \in Directions :
        (\E token \in Tokens : players[token] = id) /\ SetDirection(id, dir)
  BY DEF Steers
<1>2. dogs \in [Ids -> DogType]
  BY DEF TypeOK
<1>3. dogs' = [i \in Ids |->
                IF i = id
                THEN [dogs[i] EXCEPT !.dir = dir,
                                     !.speed = SpeedTowards(dir, dogs[i].standard)]
                ELSE dogs[i]]
  BY <1>1, <1>2 DEF SetDirection
<1> QED
  BY <1>1, <1>3 DEF Steers, Ids

\* A dog that is turned is a dog that runs the way it faces.
LEMMA SteeredDog ==
  ASSUME NEW dog \in DogType, NEW dir \in Directions
  PROVE  LET steered == [dog EXCEPT !.dir = dir, !.speed = SpeedTowards(dir, dog.standard)]
         IN  /\ steered \in DogType
             /\ steered.loc = dog.loc /\ steered.standard = dog.standard
             /\ steered.dir = dir /\ steered.speed = SpeedTowards(dir, dog.standard)
<1>1. dog.standard \in Int
  BY DEF DogType
<1>2. SpeedTowards(dir, dog.standard) \in Point
  BY <1>1 DEF SpeedTowards, Directions, Still, Point
<1> QED
  BY <1>2 DEF DogType

\* What a tick does to each dog (GameSession::UpdateOnTime).
LEMMA ClockEffect ==
  ASSUME TypeOK, Clocks
  PROVE  \E time \in (TickTimes \cup TimerDeltas) \cap Int :
           /\ dogs' = [id \in Ids |->
                        IF \E m \in sessions : id \in dogsOf[m]
                        THEN UpdateDogLocation(IndexOf(RoadsOf[SessionOf(id)]), dogs[id], time)
                        ELSE dogs[id]]
           /\ \A id \in Ids : (\E m \in sessions : id \in dogsOf[m]) =>
                SessionOf(id) \in sessions /\ id \in dogsOf[SessionOf(id)]
           /\ UNCHANGED <<nextId, Ids, sessions, dogsOf, player, players, playersOf>>
<1>1. PICK time \in TickTimes \cup TimerDeltas : UpdateOnTime(time)
  BY DEF Clocks
<1>2. time \in Int
  BY RequestAssumption, SettingAssumption
<1>3. \A id \in Ids : (\E m \in sessions : id \in dogsOf[m]) =>
        SessionOf(id) \in sessions /\ id \in dogsOf[SessionOf(id)]
  BY DEF SessionOf
<1>4. sessions \subseteq Maps
  BY DEF TypeOK
<1>5. \A id \in Ids : (\E m \in sessions : id \in dogsOf[m]) =>
        MapIndex[SessionOf(id)] = IndexOf(RoadsOf[SessionOf(id)])
  BY <1>3, <1>4 DEF MapIndex
<1>6. dogs' = [id \in Ids |->
                IF \E m \in sessions : id \in dogsOf[m]
                THEN UpdateDogLocation(IndexOf(RoadsOf[SessionOf(id)]), dogs[id], time)
                ELSE dogs[id]]
  BY <1>1, <1>5 DEF UpdateOnTime
<1>7. UNCHANGED <<nextId, Ids, sessions, dogsOf, player, players, playersOf>>
  BY <1>1 DEF UpdateOnTime, Ids
<1> QED
  BY <1>2, <1>3, <1>6, <1>7

\* A tick never turns a dog; it keeps its speed or stops.
LEMMA ClockedDog ==
  ASSUME TypeOK, Clocks, NEW id \in Ids
  PROVE  /\ dogs'[id] \in DogType
         /\ dogs'[id].dir = dogs[id].dir /\ dogs'[id].standard = dogs[id].standard
         /\ dogs'[id].speed \in {dogs[id].speed, Still}
<1>1. dogs[id] \in DogType
  BY DEF TypeOK
<1>2. PICK time \in Int :
        /\ dogs'[id] = IF \E m \in sessions : id \in dogsOf[m]
                       THEN UpdateDogLocation(IndexOf(RoadsOf[SessionOf(id)]), dogs[id], time)
                       ELSE dogs[id]
        /\ (\E m \in sessions : id \in dogsOf[m]) => SessionOf(id) \in sessions
  BY ClockEffect
<1>3. CASE \E m \in sessions : id \in dogsOf[m]
  <2>1. RoadsOf[SessionOf(id)] \in Seq(RoadType)
    BY <1>2, <1>3, ConfigAssumption DEF TypeOK
  <2>2. dogs[id] \in WalkerType
    BY <1>1 DEF DogType, WalkerType
  <2> DEFINE moved == UpdateDogLocation(IndexOf(RoadsOf[SessionOf(id)]), dogs[id], time)
  <2>3. /\ moved \in WalkerType
        /\ moved.dir = dogs[id].dir /\ moved.standard = dogs[id].standard
        /\ moved.speed \in {dogs[id].speed, Still}
    BY <2>1, <2>2, UpdateKeepsDog
  <2>4. dogs'[id] = moved
    BY <1>2, <1>3
  <2> HIDE DEF moved
  <2> QED
    BY <2>3, <2>4 DEF DogType, WalkerType
<1>4. CASE ~ \E m \in sessions : id \in dogsOf[m]
  BY <1>1, <1>2, <1>4
<1> QED
  BY <1>3, <1>4

\* Every step keeps every variable in its type.
LEMMA TypeStep ==
  ASSUME TypeOK, [Next]_vars
  PROVE  TypeOK'
<1>1. CASE Rests
  BY <1>1 DEF Rests, TypeOK, world, Ids
<1>2. CASE Joins
  <2>1. PICK map \in Maps, spawn \in Point, token \in Tokens :
           /\ nextId + 1 \in 1 .. MaxDogs /\ nextId' = nextId + 1
           /\ Ids' = Ids \cup {nextId + 1} /\ nextId + 1 \notin Ids
           /\ dogs' = [id \in Ids' |-> IF id = nextId + 1 THEN NewDog(map, spawn) ELSE dogs[id]]
           /\ player' = [id \in Ids' |-> IF id = nextId + 1
                                         THEN [session |-> map, token |-> token]
                                         ELSE player[id]]
           /\ sessions' = sessions \cup {map}
           /\ dogsOf' = [dogsOf EXCEPT ![map] = @ \cup {nextId + 1}]
           /\ playersOf' = [playersOf EXCEPT ![map] = @ \cup {nextId + 1}]
           /\ players' = [players EXCEPT ![token] = IF @ = 0 THEN nextId + 1 ELSE @]
    BY <1>2, JoinEffect
  <2>2. NewDog(map, spawn) \in DogType
    BY ConfigAssumption DEF NewDog, DogType, MapSpeed, Still, Point, Directions
  <2>3. nextId' \in 0 .. MaxDogs /\ nextId \in 0 .. MaxDogs /\ MaxDogs \in Nat
    BY <2>1, SettingAssumption DEF TypeOK
  <2>4. dogs' \in [Ids' -> DogType]
    BY <2>1, <2>2 DEF TypeOK
  <2>5. player' \in [Ids' -> PlayerType]
    BY <2>1 DEF TypeOK, PlayerType
  <2>6. sessions' \subseteq Maps /\ dogsOf' \in [Maps -> SUBSET Ids']
        /\ playersOf' \in [Maps -> SUBSET Ids']
    BY <2>1 DEF TypeOK
  <2>7. players' \in [Tokens -> 0 .. nextId']
    BY <2>1, <2>3 DEF TypeOK
  <2>8. reply' \in Statuses
    BY <1>2 DEF Joins, Statuses
  <2> QED
    BY <2>3, <2>4, <2>5, <2>6, <2>7, <2>8 DEF TypeOK
<1>3. CASE Steers
  <2>1. PICK id \in Ids, dir \in Directions :
           /\ dogs' = [i \in Ids |->
                        IF i = id
                        THEN [dogs[i] EXCEPT !.dir = dir,
                                             !.speed = SpeedTowards(dir, dogs[i].standard)]
                        ELSE dogs[i]]
           /\ UNCHANGED <<nextId, Ids, sessions, dogsOf, player, players, playersOf>>
    BY <1>3, SteerEffect
  <2>2. dogs' \in [Ids -> DogType]
    BY <2>1, SteeredDog DEF TypeOK
  <2>3. reply' \in Statuses
    BY <1>3 DEF Steers, Statuses
  <2> QED
    BY <2>1, <2>2, <2>3 DEF TypeOK
<1>4. CASE Clocks
  <2>1. DOMAIN dogs' = Ids /\ dogs' = [id \in Ids |-> dogs'[id]]
        /\ UNCHANGED <<nextId, Ids, sessions, dogsOf, player, players, playersOf>>
    BY <1>4, ClockEffect
  <2>2. dogs' \in [Ids -> DogType]
    BY <1>4, <2>1, ClockedDog
  <2> QED
    BY <1>4, <2>1, <2>2 DEF TypeOK, Clocks, Statuses
<1> QED
  BY <1>1, <1>2, <1>3, <1>4, StepKinds

\* Type correctness of the game, whatever clients send.
THEOREM TypeCorrect == Spec => []TypeOK
<1>1. Init => TypeOK
  BY SettingAssumption DEF Init, TypeOK, Ids, Statuses
<1>2. TypeOK /\ [Next]_vars => TypeOK'
  BY TypeStep
<1> QED
  BY <1>1, <1>2, PTL DEF Spec

-----------------------------------------------------------------------------
(* Players, sessions and tokens.                                           *)

\* What holds together: each of the three needs the types, and a tick needs to know
\* the session of a dog to be its player's.
IInv ==
  /\ TypeOK
  /\ StateMatchesPlayers
  /\ TokenLeadsToFirst
  /\ SpeedFollowsDirection

\* The session a tick finds a dog in is its player's.
LEMMA SessionOfPlayer ==
  ASSUME TypeOK, StateMatchesPlayers, NEW id \in Ids
  PROVE  /\ player[id].session \in Maps /\ player[id].session \in sessions
         /\ id \in dogsOf[player[id].session]
         /\ SessionOf(id) = player[id].session
<1>1. player[id].session \in Maps
  BY DEF TypeOK, PlayerType
<1>2. id \in dogsOf[player[id].session] /\ player[id].session \in sessions
  BY <1>1 DEF StateMatchesPlayers
<1>3. \A m \in sessions : id \in dogsOf[m] => m = player[id].session
  BY DEF StateMatchesPlayers, TypeOK
<1> QED
  BY <1>1, <1>2, <1>3 DEF SessionOf

\* A join keeps the three lists in agreement and gives no token to another player.
LEMMA JoinKeepsPlayers ==
  ASSUME IInv, Joins
  PROVE  StateMatchesPlayers' /\ TokenLeadsToFirst' /\ SpeedFollowsDirection'
<1> USE DEF IInv
<1> DEFINE new == nextId + 1
<1>1. PICK map \in Maps, spawn \in Point, token \in Tokens :
         /\ nextId + 1 \in 1 .. MaxDogs /\ nextId' = nextId + 1
         /\ Ids' = Ids \cup {nextId + 1} /\ nextId + 1 \notin Ids
         /\ dogs' = [id \in Ids' |-> IF id = nextId + 1 THEN NewDog(map, spawn) ELSE dogs[id]]
         /\ player' = [id \in Ids' |-> IF id = nextId + 1
                                       THEN [session |-> map, token |-> token]
                                       ELSE player[id]]
         /\ sessions' = sessions \cup {map}
         /\ dogsOf' = [dogsOf EXCEPT ![map] = @ \cup {nextId + 1}]
         /\ playersOf' = [playersOf EXCEPT ![map] = @ \cup {nextId + 1}]
         /\ players' = [players EXCEPT ![token] = IF @ = 0 THEN nextId + 1 ELSE @]
  BY JoinEffect
<1>2. /\ Ids' = Ids \cup {new} /\ new \notin Ids /\ \A id \in Ids : id < new
      /\ \A id \in Ids : id \in Nat \ {0}
      /\ new \in Nat \ {0}
  BY <1>1 DEF TypeOK, Ids
<1>3. /\ \A id \in Ids : player'[id] = player[id] /\ dogs'[id] = dogs[id]
      /\ player'[new].session = map /\ player'[new].token = token
      /\ dogs'[new] = NewDog(map, spawn)
  BY <1>1, <1>2
<1>4. /\ dogsOf \in [Maps -> SUBSET Ids] /\ playersOf \in [Maps -> SUBSET Ids]
      /\ players \in [Tokens -> 0 .. nextId]
  BY DEF TypeOK
<1>5. \A m \in Maps : /\ dogsOf'[m] = IF m = map THEN dogsOf[m] \cup {new} ELSE dogsOf[m]
                      /\ playersOf'[m] = IF m = map THEN playersOf[m] \cup {new} ELSE playersOf[m]
  BY <1>1, <1>4
<1>6. \A t \in Tokens :
        players'[t] = IF t = token /\ players[t] = 0 THEN new ELSE players[t]
  BY <1>1, <1>4
<1> HIDE DEF new
<1>7. StateMatchesPlayers'
  <2> SUFFICES ASSUME NEW m \in Maps
               PROVE  /\ dogsOf'[m] = playersOf'[m]
                      /\ dogsOf'[m] = {id \in Ids' : player'[id].session = m}
                      /\ dogsOf'[m] # {} => m \in sessions'
    BY DEF StateMatchesPlayers
  <2>1. /\ dogsOf[m] = playersOf[m]
        /\ dogsOf[m] = {id \in Ids : player[id].session = m}
        /\ dogsOf[m] # {} => m \in sessions
    BY DEF StateMatchesPlayers
  <2>2. {id \in Ids' : player'[id].session = m} =
          IF m = map THEN {id \in Ids : player[id].session = m} \cup {new}
                     ELSE {id \in Ids : player[id].session = m}
    BY <1>2, <1>3
  <2> QED
    BY <1>1, <1>5, <2>1, <2>2
<1>8. TokenLeadsToFirst'
  <2> SUFFICES ASSUME NEW t \in Tokens
               PROVE  LET holders == {id \in Ids' : player'[id].token = t}
                      IN  IF holders = {} THEN players'[t] = 0
                          ELSE players'[t] \in holders /\ \A id \in holders : players'[t] <= id
    BY DEF TokenLeadsToFirst
  <2> DEFINE before == {id \in Ids : player[id].token = t}
             after  == {id \in Ids' : player'[id].token = t}
  <2>1. IF before = {} THEN players[t] = 0
        ELSE players[t] \in before /\ \A id \in before : players[t] <= id
    BY DEF TokenLeadsToFirst
  <2>2. after = IF t = token THEN before \cup {new} ELSE before
    BY <1>2, <1>3
  <2>3. before \subseteq Ids
    OBVIOUS
  <2> HIDE DEF before, after
  <2>4. IF after = {} THEN players'[t] = 0
        ELSE players'[t] \in after /\ \A id \in after : players'[t] <= id
    BY <1>2, <1>6, <2>1, <2>2, <2>3
  <2> QED
    BY <2>4 DEF after
<1>9. SpeedFollowsDirection'
  <2>1. \A id \in Ids :
          /\ dogs[id].standard = MapSpeed(player[id].session)
          /\ dogs[id].speed \in {Still, SpeedTowards(dogs[id].dir, dogs[id].standard)}
    BY DEF SpeedFollowsDirection
  <2>2. NewDog(map, spawn).standard = MapSpeed(map) /\ NewDog(map, spawn).speed = Still
    BY DEF NewDog
  <2> QED
    BY <1>2, <1>3, <2>1, <2>2 DEF SpeedFollowsDirection, MapSpeed
<1> QED
  BY <1>7, <1>8, <1>9

\* Every step keeps the four.
LEMMA InvStep ==
  ASSUME IInv, [Next]_vars
  PROVE  IInv'
<1>0. TypeOK' /\ (Rests \/ Joins \/ Steers \/ Clocks)
  BY TypeStep, StepKinds DEF IInv
<1>1. CASE Rests
  BY <1>0, <1>1 DEF IInv, Rests, world, Ids, StateMatchesPlayers, TokenLeadsToFirst,
                    SpeedFollowsDirection
<1>2. CASE Joins
  BY <1>0, <1>2, JoinKeepsPlayers DEF IInv
<1>3. CASE Steers
  <2>1. PICK id \in Ids, dir \in Directions :
           /\ dogs' = [i \in Ids |->
                        IF i = id
                        THEN [dogs[i] EXCEPT !.dir = dir,
                                             !.speed = SpeedTowards(dir, dogs[i].standard)]
                        ELSE dogs[i]]
           /\ UNCHANGED <<nextId, Ids, sessions, dogsOf, player, players, playersOf>>
    BY <1>3, SteerEffect DEF IInv
  <2>0. UNCHANGED <<nextId, Ids, sessions, dogsOf, player, players, playersOf>>
    BY <2>1
  <2>2. StateMatchesPlayers' /\ TokenLeadsToFirst'
    BY <2>0 DEF IInv, StateMatchesPlayers, TokenLeadsToFirst
  <2>3. \A i \in Ids : /\ dogs'[i].standard = dogs[i].standard
                       /\ i # id => dogs'[i] = dogs[i]
                       /\ i = id => dogs'[i].speed = SpeedTowards(dogs'[i].dir, dogs'[i].standard)
    <3> DEFINE steered == [dogs[id] EXCEPT !.dir = dir, !.speed = SpeedTowards(dir, dogs[id].standard)]
    <3>1. /\ \A i \in Ids : i # id => dogs'[i] = dogs[i]
          /\ dogs'[id] = steered
      BY <2>1
    <3>2. dogs[id] \in DogType
      BY DEF IInv, TypeOK
    <3>3. /\ steered.standard = dogs[id].standard /\ steered.dir = dir
          /\ steered.speed = SpeedTowards(dir, dogs[id].standard)
      BY <3>2, SteeredDog
    <3> HIDE DEF steered
    <3> QED
      BY <3>1, <3>3
  <2>4. SpeedFollowsDirection'
    BY <2>0, <2>3 DEF IInv, SpeedFollowsDirection, MapSpeed
  <2> QED
    BY <1>0, <2>2, <2>4 DEF IInv
<1>4. CASE Clocks
  <2>1. UNCHANGED <<nextId, Ids, sessions, dogsOf, player, players, playersOf>>
    BY <1>4, ClockEffect DEF IInv
  <2>2. StateMatchesPlayers' /\ TokenLeadsToFirst'
    BY <2>1 DEF IInv, StateMatchesPlayers, TokenLeadsToFirst
  <2>3. \A id \in Ids : /\ dogs'[id].dir = dogs[id].dir
                        /\ dogs'[id].standard = dogs[id].standard
                        /\ dogs'[id].speed \in {dogs[id].speed, Still}
    BY <1>4, ClockedDog DEF IInv
  <2>4. SpeedFollowsDirection'
    BY <2>1, <2>3 DEF IInv, SpeedFollowsDirection, MapSpeed
  <2> QED
    BY <1>0, <2>2, <2>4 DEF IInv
<1> QED
  BY <1>0, <1>1, <1>2, <1>3, <1>4

LEMMA Invariant == Spec => []IInv
<1>1. Init => IInv
  <2>1. Init => TypeOK
    BY SettingAssumption DEF Init, TypeOK, Ids, Statuses
  <2>2. Init => Ids = {}
    BY DEF Init, Ids
  <2> QED
    BY <2>1, <2>2 DEF Init, IInv, StateMatchesPlayers, TokenLeadsToFirst, SpeedFollowsDirection
<1>2. IInv /\ [Next]_vars => IInv'
  BY InvStep
<1> QED
  BY <1>1, <1>2, PTL DEF Spec

\* The lists behind /state and /players agree with each other and with the players.
THEOREM ListsAgree == Spec => []StateMatchesPlayers
<1>1. IInv => StateMatchesPlayers
  BY DEF IInv
<1> QED
  BY <1>1, Invariant, PTL

\* A token never changes hands, also when the generator repeats one.
THEOREM TokenKeepsPlayer == Spec => []TokenLeadsToFirst
<1>1. IInv => TokenLeadsToFirst
  BY DEF IInv
<1> QED
  BY <1>1, Invariant, PTL

\* A dog runs as its map and its direction say, or stands.
THEOREM SpeedIsMaps == Spec => []SpeedFollowsDirection
<1>1. IInv => SpeedFollowsDirection
  BY DEF IInv
<1> QED
  BY <1>1, Invariant, PTL

\* PlayerLibrary::GetPlayerList never throws.
THEOREM ListNeverRefused == Spec => []PlayerListServed
<1>1. ASSUME IInv
      PROVE  PlayerListServed
  <2> SUFFICES ASSUME NEW header \in Headers
               PROVE  PlayerListVerdict("GET", header) # "SERVER_ERROR"
    BY DEF PlayerListServed
  <2>1. CASE Admission(AllowGetHead, "GET", header) = "OK"
    <3>1. players[header] \in Ids
      BY <1>1, <2>1, AdmissionErrors DEF IInv, TypeOK, Ids
    <3>2. playersOf[player[players[header]].session] # {}
      BY <1>1, <3>1, SessionOfPlayer DEF IInv, StateMatchesPlayers
    <3> QED
      BY <2>1, <3>2 DEF PlayerListVerdict
  <2>2. CASE Admission(AllowGetHead, "GET", header) # "OK"
    BY <2>2, AdmissionErrors DEF PlayerListVerdict
  <2> QED
    BY <2>1, <2>2
<1> QED
  BY <1>1, Invariant, PTL

-----------------------------------------------------------------------------
(* A player who is locked out.                                             *)

\* A dog that stands still is where it was after a tick of any length, forwards or
\* backwards.
LEMMA StillStays ==
  ASSUME NEW roads \in Seq(RoadType), NEW dog \in DogType, NEW time \in Int,
         dog.speed = Still
  PROVE  UpdateDogLocation(IndexOf(roads), dog, time).loc = dog.loc
<1> DEFINE hor   == FindHorizontal(IndexOf(roads), dog.loc)
           vert  == FindVertical(IndexOf(roads), dog.loc)
           lane  == LaneOf(hor, vert, dog.dir)
           moved == UpdateDogLocation(IndexOf(roads), dog, time)
<1>1. /\ dog.loc \in Point /\ dog.dir \in Directions
      /\ dog.loc = [x |-> dog.loc.x, y |-> dog.loc.y]
      /\ dog.loc.x \in Int /\ dog.loc.y \in Int
  BY DEF DogType, Point
<1>2. CASE hor = {} /\ vert = {}
  BY <1>2 DEF UpdateDogLocation
<1>3. CASE hor # {} \/ vert # {}
  <2>1. lane \in RoadType
    <3>1. lane \in hor \cup vert
      BY <1>3, LaneFound
    <3> HIDE DEF lane
    <3> QED BY <1>1, <3>1, FoundCovers
  <2>2. moved = Walk(lane, dog, time)
    BY <1>3 DEF UpdateDogLocation
  <2> HIDE DEF lane, moved
  <2>3. LowerBorder(lane) \in Point /\ UpperBorder(lane) \in Point
    BY <2>1, RoadBorders
  <2>4. Target(dog, time) = dog.loc
    <3>1. 0 * time = 0
      OBVIOUS
    <3> QED
      BY <1>1, <3>1 DEF Target, Still
  <2>5. \A from, border \in Int : WalkUntil(from, from, border) = from
    BY DEF WalkUntil, Abs
  <2>6. Arrival(lane, dog, time) = dog.loc
    BY <1>1, <2>3, <2>4, <2>5 DEF Arrival, Directions, Point
  <2>7. moved = [dog EXCEPT !.loc = dog.loc, !.speed = dog.speed]
    BY <2>2, <2>4, <2>6 DEF Walk
  <2> QED
    BY <2>7 DEF DogType, moved
<1> QED
  BY <1>2, <1>3

\* Only the player a token leads to steers, and he is the first who got it.
LEMMA LockedStep ==
  ASSUME IInv, LockedOutStaysPut, [Next]_vars
  PROVE  LockedOutStaysPut'
<1>0. /\ TypeOK /\ StateMatchesPlayers /\ TokenLeadsToFirst /\ LockedOutStaysPut
      /\ Rests \/ Joins \/ Steers \/ Clocks
      /\ dogs \in [Ids -> DogType] /\ players \in [Tokens -> 0 .. nextId]
  BY StepKinds DEF IInv, TypeOK
<1>1. CASE Rests
  BY <1>0, <1>1 DEF Rests, world, Ids, LockedOutStaysPut
<1>2. CASE Joins
  <2>1. PICK map \in Maps, spawn \in Point, token \in Tokens :
           /\ spawn \in SpawnPoints(map)
           /\ nextId' = nextId + 1
           /\ Ids' = Ids \cup {nextId + 1} /\ nextId + 1 \notin Ids
           /\ dogs' = [id \in Ids' |-> IF id = nextId + 1 THEN NewDog(map, spawn) ELSE dogs[id]]
           /\ player' = [id \in Ids' |-> IF id = nextId + 1
                                         THEN [session |-> map, token |-> token]
                                         ELSE player[id]]
           /\ players' = [players EXCEPT ![token] = IF @ = 0 THEN nextId + 1 ELSE @]
    BY <1>0, <1>2, JoinEffect
  <2> SUFFICES ASSUME NEW id \in Ids', players'[player'[id].token] # id
               PROVE  /\ ~Runs(dogs'[id]) /\ dogs'[id].dir = "U"
                      /\ dogs'[id].loc \in SpawnPoints(player'[id].session)
    BY DEF LockedOutStaysPut
  <2>2. CASE id = nextId + 1
    <3>1. dogs'[id] = NewDog(map, spawn) /\ player'[id].session = map
      BY <2>1, <2>2
    <3> QED
      BY <2>1, <3>1 DEF NewDog, Runs
  <2>3. CASE id # nextId + 1
    <3>1. id \in Ids /\ dogs'[id] = dogs[id] /\ player'[id] = player[id]
      BY <2>1, <2>3
    <3>2. player[id].token \in Tokens /\ players[player[id].token] # 0
      <4> DEFINE holders == {i \in Ids : player[i].token = player[id].token}
      <4>1. player[id].token \in Tokens /\ id \in holders
        BY <1>0, <3>1 DEF TypeOK, PlayerType
      <4>2. players[player[id].token] \in holders
        BY <1>0, <4>1 DEF TokenLeadsToFirst
      <4> QED
        BY <4>1, <4>2 DEF Ids
    <3>3. players'[player[id].token] = players[player[id].token]
      BY <1>0, <2>1, <3>2
    <3> QED
      BY <1>0, <3>1, <3>3 DEF LockedOutStaysPut
  <2> QED
    BY <2>2, <2>3
<1>3. CASE Steers
  <2>1. PICK steered \in Ids, dir \in Directions :
           /\ \E token \in Tokens : players[token] = steered
           /\ dogs' = [i \in Ids |->
                        IF i = steered
                        THEN [dogs[i] EXCEPT !.dir = dir,
                                             !.speed = SpeedTowards(dir, dogs[i].standard)]
                        ELSE dogs[i]]
           /\ UNCHANGED <<nextId, Ids, sessions, dogsOf, player, players, playersOf>>
    BY <1>0, <1>3, SteerEffect
  <2>2. players[player[steered].token] = steered
    <3>1. PICK token \in Tokens : players[token] = steered
      BY <2>1
    <3> DEFINE holders == {i \in Ids : player[i].token = token}
    <3>2. steered \in holders
      <4>1. steered # 0
        BY DEF Ids
      <4> QED
        BY <1>0, <3>1, <4>1 DEF TokenLeadsToFirst
    <3> QED
      BY <3>1, <3>2
  <2>3. \A id \in Ids : id # steered => dogs'[id] = dogs[id]
    BY <2>1
  <2>4. UNCHANGED <<Ids, player, players>>
    BY <2>1
  <2> QED
    BY <1>0, <2>2, <2>3, <2>4 DEF LockedOutStaysPut
<1>4. CASE Clocks
  <2>1. UNCHANGED <<Ids, sessions, dogsOf, player, players>>
    BY <1>0, <1>4, ClockEffect
  <2> SUFFICES ASSUME NEW id \in Ids, players[player[id].token] # id
               PROVE  /\ ~Runs(dogs'[id]) /\ dogs'[id].dir = "U"
                      /\ dogs'[id].loc \in SpawnPoints(player[id].session)
    BY <2>1 DEF LockedOutStaysPut
  <2>2. ~Runs(dogs[id]) /\ dogs[id].dir = "U" /\ dogs[id].loc \in SpawnPoints(player[id].session)
    BY <1>0 DEF LockedOutStaysPut
  <2>3. dogs'[id].dir = dogs[id].dir /\ dogs'[id].speed \in {dogs[id].speed, Still}
    BY <1>0, <1>4, ClockedDog
  <2>4. dogs'[id].loc = dogs[id].loc
    <3>1. PICK time \in Int :
            dogs'[id] = IF \E m \in sessions : id \in dogsOf[m]
                        THEN UpdateDogLocation(IndexOf(RoadsOf[SessionOf(id)]), dogs[id], time)
                        ELSE dogs[id]
      BY <1>0, <1>4, ClockEffect
    <3>2. RoadsOf[SessionOf(id)] \in Seq(RoadType)
      BY <1>0, SessionOfPlayer, ConfigAssumption
    <3>3. dogs[id] \in DogType /\ dogs[id].speed = Still
      BY <1>0, <2>2 DEF Runs
    <3> QED
      BY <3>1, <3>2, <3>3, StillStays
  <2> QED
    BY <2>2, <2>3, <2>4 DEF Runs
<1> QED
  BY <1>0, <1>1, <1>2, <1>3, <1>4

\* A token that was given out twice steers the first player's dog alone: the second
\* player's is where it was put.
THEOREM SecondHolderStaysPut == Spec => []LockedOutStaysPut
<1>1. Init => LockedOutStaysPut
  BY DEF Init, LockedOutStaysPut, Ids
<1>2. IInv /\ LockedOutStaysPut /\ [Next]_vars => LockedOutStaysPut'
  BY LockedStep
<1> QED
  BY <1>1, <1>2, Invariant, PTL DEF Spec

-----------------------------------------------------------------------------
(* Dogs stay on the roads, provided clients send no negative timeDelta and *)
(* the config gives no negative speed and, without random spawn points, a  *)
(* road under (0, 0) on every map.  None of the three does the code check. *)

TimeForward == TickTimes \subseteq Nat
SpeedsForward == \A m \in Maps : MapSpeed(m) >= 0
SpawnsOnRoads == RandomSpawn \/ \A m \in Maps : OnRoad(RoadsOf[m], Origin)

\* CreateNewPlayer puts a dog on a road.
LEMMA SpawnCovered ==
  ASSUME SpawnsOnRoads, NEW map \in Maps, NEW spawn \in SpawnPoints(map)
  PROVE  OnRoad(RoadsOf[map], spawn)
<1>1. CASE ~RandomSpawn
  BY <1>1 DEF SpawnsOnRoads, SpawnPoints
<1>2. CASE RandomSpawn
  <2>1. PICK i \in DOMAIN RoadsOf[map] :
          spawn = [x |-> Cell * RoadsOf[map][i].start.x, y |-> Cell * RoadsOf[map][i].start.y]
    BY <1>2 DEF SpawnPoints
  <2> DEFINE road == RoadsOf[map][i]
  <2>2. road \in RoadType
    BY ConfigAssumption
  <2> HIDE DEF road
  <2>3. /\ Near(road) \in Point /\ Far(road) \in Point /\ road.start \in Point
        /\ Near(road).x <= road.start.x /\ road.start.x <= Far(road).x
        /\ Near(road).y <= road.start.y /\ road.start.y <= Far(road).y
    BY <2>2 DEF RoadType, Point, Near, Far, PointLess
  <2>4. /\ Near(road).x \in Int /\ Far(road).x \in Int /\ road.start.x \in Int
        /\ Near(road).y \in Int /\ Far(road).y \in Int /\ road.start.y \in Int
    BY <2>3 DEF Point
  <2>5. /\ Cell * Near(road).x <= Cell * road.start.x
        /\ Cell * road.start.x <= Cell * Far(road).x
        /\ Cell * Near(road).y <= Cell * road.start.y
        /\ Cell * road.start.y <= Cell * Far(road).y
    BY <2>3, <2>4, Apart
  <2>6. /\ Cell * Near(road).x \in Int /\ Cell * Far(road).x \in Int
        /\ Cell * Near(road).y \in Int /\ Cell * Far(road).y \in Int
        /\ Cell * road.start.x \in Int /\ Cell * road.start.y \in Int
        /\ Width \in Nat
    BY <2>4, Apart, GridAssumption
  <2>7. spawn = [x |-> Cell * road.start.x, y |-> Cell * road.start.y]
    BY <2>1 DEF road
  <2>8. Covers(road, spawn)
    BY <2>5, <2>6, <2>7 DEF Covers, LowerBorder, UpperBorder
  <2> QED
    BY <2>8 DEF OnRoad, road
<1> QED
  BY <1>1, <1>2

\* The road a dog is on after a step, if it was on one before.
OnOneRoad(id) ==
  \E i \in DOMAIN RoadsOf[player[id].session] :
    /\ Covers(RoadsOf[player[id].session][i], dogs[id].loc)
    /\ Covers(RoadsOf[player[id].session][i], dogs'[id].loc)

\* A tick takes each dog along one road.
LEMMA ClockOnOneRoad ==
  ASSUME TimeForward, SpeedsForward, IInv, Clocks,
         NEW id \in Ids, OnRoad(RoadsOf[player[id].session], dogs[id].loc)
  PROVE  OnOneRoad(id)
<1> DEFINE map   == player[id].session
           roads == RoadsOf[map]
           dog   == dogs[id]
<1>1. map \in Maps /\ map \in sessions /\ id \in dogsOf[map] /\ SessionOf(id) = map
  BY SessionOfPlayer DEF IInv
<1>2. roads \in Seq(RoadType)
  BY <1>1, ConfigAssumption
<1>3. PICK time \in (TickTimes \cup TimerDeltas) \cap Int :
        dogs'[id] = IF \E m \in sessions : id \in dogsOf[m]
                    THEN UpdateDogLocation(IndexOf(RoadsOf[SessionOf(id)]), dogs[id], time)
                    ELSE dogs[id]
  BY ClockEffect DEF IInv
<1>4. time \in Nat
  BY SettingAssumption DEF TimeForward
<1>5. dogs'[id] = UpdateDogLocation(IndexOf(roads), dog, time)
  BY <1>1, <1>3
<1>6. Walks(dog)
  <2>1. dog \in WalkerType
    BY DEF IInv, TypeOK, DogType, WalkerType
  <2>2. dog.standard >= 0 /\ dog.speed \in {Still, SpeedTowards(dog.dir, dog.standard)}
    BY <1>1 DEF IInv, SpeedFollowsDirection, SpeedsForward
  <2> QED
    BY <2>1, <2>2 DEF Walks
<1>7. OnRoad(roads, dog.loc)
  OBVIOUS
<1> HIDE DEF dog, roads
<1>8. \E i \in DOMAIN roads : Covers(roads[i], dog.loc) /\ Covers(roads[i], dogs'[id].loc)
  BY <1>2, <1>4, <1>5, <1>6, <1>7, UpdateStaysOnOneRoad
<1> QED
  BY <1>8 DEF OnOneRoad, roads, dog

\* No step takes a dog off the roads, or from one road to another.
LEMMA RoadStep ==
  ASSUME TimeForward, SpeedsForward, SpawnsOnRoads, IInv, NeverStranded, [Next]_vars
  PROVE  NeverStranded' /\ \A id \in Ids : OnOneRoad(id)
<1>0. Rests \/ Joins \/ Steers \/ Clocks
  BY StepKinds DEF IInv
<1>1. \A id \in Ids : OnRoad(RoadsOf[player[id].session], dogs[id].loc)
  BY DEF NeverStranded
<1>2. CASE Rests
  BY <1>1, <1>2 DEF Rests, world, Ids, NeverStranded, OnOneRoad, OnRoad
<1>3. CASE Joins
  <2>1. PICK map \in Maps, spawn \in Point, token \in Tokens :
           /\ spawn \in SpawnPoints(map)
           /\ nextId + 1 \in 1 .. MaxDogs
           /\ Ids' = Ids \cup {nextId + 1} /\ nextId + 1 \notin Ids
           /\ dogs' = [id \in Ids' |-> IF id = nextId + 1 THEN NewDog(map, spawn) ELSE dogs[id]]
           /\ player' = [id \in Ids' |-> IF id = nextId + 1
                                         THEN [session |-> map, token |-> token]
                                         ELSE player[id]]
    BY <1>3, JoinEffect DEF IInv
  <2> DEFINE new == nextId + 1
  <2>2. /\ Ids' = Ids \cup {new}
        /\ \A id \in Ids : dogs'[id] = dogs[id] /\ player'[id] = player[id]
        /\ dogs'[new].loc = spawn /\ player'[new].session = map
    BY <2>1 DEF NewDog
  <2>3. OnRoad(RoadsOf[map], spawn)
    BY <2>1, SpawnCovered
  <2> HIDE DEF new
  <2> QED
    BY <1>1, <2>2, <2>3 DEF NeverStranded, OnOneRoad, OnRoad
<1>4. CASE Steers
  <2>1. PICK id \in Ids, dir \in Directions :
           /\ dogs' = [i \in Ids |->
                        IF i = id
                        THEN [dogs[i] EXCEPT !.dir = dir,
                                             !.speed = SpeedTowards(dir, dogs[i].standard)]
                        ELSE dogs[i]]
           /\ UNCHANGED <<nextId, Ids, sessions, dogsOf, player, players, playersOf>>
    BY <1>4, SteerEffect DEF IInv
  <2>2. UNCHANGED <<Ids, player>>
    BY <2>1
  <2>3. \A i \in Ids : dogs'[i].loc = dogs[i].loc
    BY <2>1 DEF IInv, TypeOK, DogType
  <2> QED
    BY <1>1, <2>2, <2>3 DEF NeverStranded, OnOneRoad, OnRoad
<1>5. CASE Clocks
  <2>1. UNCHANGED <<Ids, player>>
    BY <1>5, ClockEffect DEF IInv
  <2>2. \A id \in Ids : OnOneRoad(id)
    BY <1>1, <1>5, ClockOnOneRoad
  <2> QED
    BY <2>1, <2>2 DEF NeverStranded, OnOneRoad, OnRoad
<1> QED
  BY <1>0, <1>2, <1>3, <1>4, <1>5

\* UpdateDogLocation never leaves a dog where it could not move again.
THEOREM NobodyStranded ==
  ASSUME TimeForward, SpeedsForward, SpawnsOnRoads
  PROVE  Spec => []NeverStranded
<1>1. Init => NeverStranded
  BY DEF Init, NeverStranded, Ids
<1>2. IInv /\ NeverStranded /\ [Next]_vars => NeverStranded'
  BY RoadStep
<1> QED
  BY <1>1, <1>2, Invariant, PTL DEF Spec

\* A tick of any length takes a dog along one road only.
THEOREM OneRoadAtATime ==
  ASSUME TimeForward, SpeedsForward, SpawnsOnRoads
  PROVE  Spec => StaysOnOneRoad
<1>1. IInv /\ NeverStranded /\ [Next]_vars =>
        [\A id \in Ids :
           \E i \in DOMAIN RoadsOf[player[id].session] :
             /\ Covers(RoadsOf[player[id].session][i], dogs[id].loc)
             /\ Covers(RoadsOf[player[id].session][i], dogs'[id].loc)]_vars
  BY RoadStep DEF OnOneRoad
<1> QED
  BY <1>1, Invariant, NobodyStranded, PTL DEF Spec, StaysOnOneRoad

-----------------------------------------------------------------------------
(* Where a tick stops a dog, for any time and any speed.                   *)

\* The roads of every map are what README.md calls logical.
RoadsLogical == \A map \in Maps : WellFormed(RoadsOf[map])

\* A walk that does not get where it was going ends at the border ahead.
LEMMA StoppedAtBorder ==
  ASSUME NEW dog \in WalkerType, dog.speed \in {Still, SpeedTowards(dog.dir, dog.standard)},
         NEW time \in Int, NEW lane \in RoadType, dog.dir # "S",
         Arrival(lane, dog, time) # Target(dog, time)
  PROVE  /\ dog.dir = "D" => Arrival(lane, dog, time) = [x |-> dog.loc.x, y |-> UpperBorder(lane).y]
         /\ dog.dir = "U" => Arrival(lane, dog, time) = [x |-> dog.loc.x, y |-> LowerBorder(lane).y]
         /\ dog.dir = "R" => Arrival(lane, dog, time) = [x |-> UpperBorder(lane).x, y |-> dog.loc.y]
         /\ dog.dir = "L" => Arrival(lane, dog, time) = [x |-> LowerBorder(lane).x, y |-> dog.loc.y]
<1> DEFINE there == Target(dog, time)
<1>1. /\ dog.loc \in Point /\ dog.dir \in Directions /\ dog.speed \in Point
      /\ dog.loc.x \in Int /\ dog.loc.y \in Int /\ 0 * time = 0
  BY DEF WalkerType, Point
<1>2. /\ dog.dir \in {"U", "D"} => dog.speed.x = 0
      /\ dog.dir \in {"L", "R"} => dog.speed.y = 0
  BY DEF SpeedTowards, Still
<1>3. there = [x |-> dog.loc.x + dog.speed.x * time, y |-> dog.loc.y + dog.speed.y * time]
  BY DEF Target
<1>4. /\ dog.dir \in {"U", "D"} => there.x = dog.loc.x
      /\ dog.dir \in {"L", "R"} => there.y = dog.loc.y
  BY <1>1, <1>2, <1>3
<1>5. there = [x |-> there.x, y |-> there.y] /\ DOMAIN there = {"x", "y"}
  BY <1>3
<1> HIDE DEF there
<1>6. \A from, to, border : WalkUntil(from, to, border) \in {to, border}
  BY DEF WalkUntil
<1>7. CASE dog.dir = "D"
  <2> DEFINE end == WalkUntil(dog.loc.y, there.y, UpperBorder(lane).y)
  <2>1. Arrival(lane, dog, time) = [there EXCEPT !.y = end]
    BY <1>7 DEF Arrival, there
  <2>2. end \in {there.y, UpperBorder(lane).y}
    BY <1>6
  <2> HIDE DEF end
  <2>3. [there EXCEPT !.y = end] = [x |-> there.x, y |-> end]
    BY <1>5
  <2> QED
    BY <1>4, <1>5, <1>7, <2>1, <2>2, <2>3 DEF there
<1>8. CASE dog.dir = "U"
  <2> DEFINE end == WalkUntil(dog.loc.y, there.y, LowerBorder(lane).y)
  <2>1. Arrival(lane, dog, time) = [there EXCEPT !.y = end]
    BY <1>8 DEF Arrival, there
  <2>2. end \in {there.y, LowerBorder(lane).y}
    BY <1>6
  <2> HIDE DEF end
  <2>3. [there EXCEPT !.y = end] = [x |-> there.x, y |-> end]
    BY <1>5
  <2> QED
    BY <1>4, <1>5, <1>8, <2>1, <2>2, <2>3 DEF there
<1>9. CASE dog.dir = "R"
  <2> DEFINE end == WalkUntil(dog.loc.x, there.x, UpperBorder(lane).x)
  <2>1. Arrival(lane, dog, time) = [there EXCEPT !.x = end]
    BY <1>9 DEF Arrival, there
  <2>2. end \in {there.x, UpperBorder(lane).x}
    BY <1>6
  <2> HIDE DEF end
  <2>3. [there EXCEPT !.x = end] = [x |-> end, y |-> there.y]
    BY <1>5
  <2> QED
    BY <1>4, <1>5, <1>9, <2>1, <2>2, <2>3 DEF there
<1>10. CASE dog.dir = "L"
  <2> DEFINE end == WalkUntil(dog.loc.x, there.x, LowerBorder(lane).x)
  <2>1. Arrival(lane, dog, time) = [there EXCEPT !.x = end]
    BY <1>10 DEF Arrival, there
  <2>2. end \in {there.x, LowerBorder(lane).x}
    BY <1>6
  <2> HIDE DEF end
  <2>3. [there EXCEPT !.x = end] = [x |-> end, y |-> there.y]
    BY <1>5
  <2> QED
    BY <1>4, <1>5, <1>10, <2>1, <2>2, <2>3 DEF there
<1> QED
  BY <1>1, <1>7, <1>8, <1>9, <1>10 DEF Directions

\* The point ahead, each way.
LEMMA AheadOf ==
  ASSUME NEW p \in Point
  PROVE  /\ Ahead(p, "D") = [x |-> p.x, y |-> p.y + 1]
         /\ Ahead(p, "U") = [x |-> p.x, y |-> p.y - 1]
         /\ Ahead(p, "R") = [x |-> p.x + 1, y |-> p.y]
         /\ Ahead(p, "L") = [x |-> p.x - 1, y |-> p.y]
<1>1. p.x \in Int /\ p.y \in Int
  BY DEF Point
<1> QED
  BY <1>1 DEF Ahead, SpeedTowards

\* Where UpdateDogLocation stops a dog no road leads on.
LEMMA StopsAtRoadsEnd ==
  ASSUME NEW roads \in Seq(RoadType), WellFormed(roads), Unjointed(roads),
         NEW dog \in WalkerType, dog.speed \in {Still, SpeedTowards(dog.dir, dog.standard)},
         NEW time \in Int, dog.dir # "S",
         NEW moved, moved = UpdateDogLocation(IndexOf(roads), dog, time),
         Runs(dog), ~Runs(moved),
         NEW i \in DOMAIN roads,
         Covers(roads[i], moved.loc), Covers(roads[i], Ahead(moved.loc, dog.dir))
  PROVE  FALSE
<1> DEFINE hor  == FindHorizontal(IndexOf(roads), dog.loc)
           vert == FindVertical(IndexOf(roads), dog.loc)
           lane == LaneOf(hor, vert, dog.dir)
<1>1. /\ dog.loc \in Point /\ dog.dir \in Directions
      /\ dog.loc.x \in Int /\ dog.loc.y \in Int
  BY DEF WalkerType, Point
<1>2. hor # {} \/ vert # {}
  BY DEF UpdateDogLocation
<1>3. moved = Walk(lane, dog, time)
  BY <1>2 DEF UpdateDogLocation
<1>4. PICK j \in DOMAIN roads :
        /\ roads[j] = lane
        /\ Covers(roads[j], dog.loc)
        /\ dog.dir \in {"U", "D"} =>
             \/ IsVertical(roads[j])
             \/ \A k \in DOMAIN roads : Covers(roads[k], dog.loc) => ~IsVertical(roads[k])
        /\ dog.dir \notin {"U", "D"} =>
             \/ ~IsVertical(roads[j])
             \/ \A k \in DOMAIN roads : Covers(roads[k], dog.loc) => IsVertical(roads[k])
  BY <1>1, <1>2, LaneAlong
<1> HIDE DEF lane
<1> DEFINE arrival == Arrival(lane, dog, time)
           speed   == IF arrival = Target(dog, time) THEN dog.speed ELSE Still
<1>5. moved = [dog EXCEPT !.loc = arrival, !.speed = speed]
  BY <1>3, Zenon DEF Walk
<1> HIDE DEF arrival
<1>6. moved.loc = arrival /\ moved.speed = speed
  BY <1>5 DEF WalkerType
<1>7. arrival # Target(dog, time)
  BY <1>6 DEF Runs
<1>8. lane \in RoadType
  BY <1>4
<1>9. /\ dog.dir = "D" => arrival = [x |-> dog.loc.x, y |-> UpperBorder(lane).y]
      /\ dog.dir = "U" => arrival = [x |-> dog.loc.x, y |-> LowerBorder(lane).y]
      /\ dog.dir = "R" => arrival = [x |-> UpperBorder(lane).x, y |-> dog.loc.y]
      /\ dog.dir = "L" => arrival = [x |-> LowerBorder(lane).x, y |-> dog.loc.y]
  BY <1>7, <1>8, StoppedAtBorder DEF arrival
<1>10. /\ LowerBorder(lane).x \in Int /\ LowerBorder(lane).y \in Int
       /\ UpperBorder(lane).x \in Int /\ UpperBorder(lane).y \in Int
  BY <1>8, Corners
<1>11. CASE dog.dir \in {"U", "D"}
  <2>1. arrival \in Point
    BY <1>1, <1>9, <1>10, <1>11 DEF Point
  <2>2. /\ ~ /\ Covers(roads[i], [x |-> dog.loc.x, y |-> UpperBorder(lane).y])
             /\ Covers(roads[i], [x |-> dog.loc.x, y |-> UpperBorder(lane).y + 1])
        /\ ~ /\ Covers(roads[i], [x |-> dog.loc.x, y |-> LowerBorder(lane).y])
             /\ Covers(roads[i], [x |-> dog.loc.x, y |-> LowerBorder(lane).y - 1])
    BY <1>1, <1>4, <1>11, NoColumnOnward
  <2> QED
    BY <1>6, <1>9, <1>11, <2>1, <2>2, AheadOf
<1>12. CASE dog.dir \in {"L", "R"}
  <2>1. arrival \in Point
    BY <1>1, <1>9, <1>10, <1>12 DEF Point
  <2>2. /\ ~ /\ Covers(roads[i], [x |-> UpperBorder(lane).x, y |-> dog.loc.y])
             /\ Covers(roads[i], [x |-> UpperBorder(lane).x + 1, y |-> dog.loc.y])
        /\ ~ /\ Covers(roads[i], [x |-> LowerBorder(lane).x, y |-> dog.loc.y])
             /\ Covers(roads[i], [x |-> LowerBorder(lane).x - 1, y |-> dog.loc.y])
    BY <1>1, <1>4, <1>12, NoRowOnward
  <2> QED
    BY <1>6, <1>9, <1>12, <2>1, <2>2, AheadOf
<1> QED
  BY <1>1, <1>11, <1>12 DEF Directions

\* What StopsOnlyAtBorder says of one dog.
StopsAtEnd(id) ==
  LET roads == RoadsOf[player[id].session]
  IN  (Unjointed(roads) /\ Runs(dogs[id]) /\ ~Runs(dogs'[id]) /\ dogs'[id].dir # "S") =>
        ~ \E i \in DOMAIN roads :
            /\ Covers(roads[i], dogs'[id].loc)
            /\ Covers(roads[i], Ahead(dogs'[id].loc, dogs'[id].dir))

\* A standard speed that leaves a dog standing one way does so every way.
LEMMA SteeredRunsOn ==
  ASSUME NEW dir \in Directions, NEW turned \in Directions, NEW standard \in Int,
         turned # "S", SpeedTowards(turned, standard) = Still
  PROVE  SpeedTowards(dir, standard) = Still
<1>1. standard = 0
  BY DEF SpeedTowards, Still, Directions
<1> QED
  BY <1>1 DEF SpeedTowards, Still, Directions

\* A tick stops a dog at a road's end only, and nothing else stops one that is not told to.
LEMMA StopStep ==
  ASSUME RoadsLogical, IInv, [Next]_vars, NEW id \in Ids
  PROVE  StopsAtEnd(id)
<1>0. Rests \/ Joins \/ Steers \/ Clocks
  BY StepKinds DEF IInv
<1> DEFINE map   == player[id].session
           roads == RoadsOf[map]
<1>1. map \in Maps /\ map \in sessions /\ id \in dogsOf[map] /\ SessionOf(id) = map
  BY SessionOfPlayer DEF IInv
<1>2. roads \in Seq(RoadType) /\ WellFormed(roads)
  BY <1>1, ConfigAssumption DEF RoadsLogical
<1>3. dogs[id] \in DogType
  BY DEF IInv, TypeOK
<1>4. /\ dogs[id] \in WalkerType
      /\ dogs[id].speed \in {Still, SpeedTowards(dogs[id].dir, dogs[id].standard)}
  BY <1>1, <1>3 DEF IInv, SpeedFollowsDirection, DogType, WalkerType
<1>5. CASE Rests
  BY <1>5 DEF Rests, world, StopsAtEnd
<1>6. CASE Joins
  <2>1. dogs'[id] = dogs[id]
    BY <1>6, JoinEffect DEF IInv
  <2> QED
    BY <2>1 DEF StopsAtEnd
<1>7. CASE Steers
  <2>1. PICK steered \in Ids, dir \in Directions :
          dogs' = [i \in Ids |->
                    IF i = steered
                    THEN [dogs[i] EXCEPT !.dir = dir,
                                         !.speed = SpeedTowards(dir, dogs[i].standard)]
                    ELSE dogs[i]]
    BY <1>7, SteerEffect DEF IInv
  <2>2. CASE id # steered
    <3>1. dogs'[id] = dogs[id]
      BY <2>1, <2>2
    <3> QED
      BY <3>1 DEF StopsAtEnd
  <2>3. CASE id = steered
    <3>1. dogs'[id].dir = dir /\ dogs'[id].speed = SpeedTowards(dir, dogs[id].standard)
      BY <1>3, <2>1, <2>3, SteeredDog
    <3>2. dogs[id].dir \in Directions /\ dogs[id].standard \in Int
      BY <1>4 DEF WalkerType
    <3>3. Runs(dogs[id]) /\ dir # "S" => Runs(dogs'[id])
      BY <1>4, <3>1, <3>2, SteeredRunsOn DEF Runs
    <3> QED
      BY <3>1, <3>3 DEF StopsAtEnd
  <2> QED
    BY <2>2, <2>3
<1>8. CASE Clocks
  <2>1. PICK time \in (TickTimes \cup TimerDeltas) \cap Int :
          dogs'[id] = IF \E m \in sessions : id \in dogsOf[m]
                      THEN UpdateDogLocation(IndexOf(RoadsOf[SessionOf(id)]), dogs[id], time)
                      ELSE dogs[id]
    BY <1>8, ClockEffect DEF IInv
  <2>2. dogs'[id] = UpdateDogLocation(IndexOf(roads), dogs[id], time) /\ time \in Int
    BY <1>1, <2>1
  <2>3. dogs'[id].dir = dogs[id].dir
    BY <1>8, ClockedDog DEF IInv
  <2> HIDE DEF roads
  <2>4. ASSUME Unjointed(roads), Runs(dogs[id]), ~Runs(dogs'[id]), dogs'[id].dir # "S",
               NEW i \in DOMAIN roads,
               Covers(roads[i], dogs'[id].loc),
               Covers(roads[i], Ahead(dogs'[id].loc, dogs'[id].dir))
        PROVE  FALSE
    BY <1>2, <1>4, <2>2, <2>3, <2>4, StopsAtRoadsEnd
  <2> QED
    BY <2>4 DEF StopsAtEnd, roads
<1> QED
  BY <1>0, <1>5, <1>6, <1>7, <1>8

\* On maps whose roads are logical and not split in two, no tick stops a dog short of where
\* the road ends, whatever the time that passed and whatever the speeds in the config.
THEOREM StopsAtBorders ==
  ASSUME RoadsLogical
  PROVE  Spec => StopsOnlyAtBorder
<1>1. IInv /\ [Next]_vars =>
        [\A id \in Ids :
           LET roads == RoadsOf[player[id].session]
           IN  (Unjointed(roads) /\ Runs(dogs[id]) /\ ~Runs(dogs'[id]) /\ dogs'[id].dir # "S") =>
                 ~ \E i \in DOMAIN roads :
                     /\ Covers(roads[i], dogs'[id].loc)
                     /\ Covers(roads[i], Ahead(dogs'[id].loc, dogs'[id].dir))]_vars
  BY StopStep DEF StopsAtEnd
<1> QED
  BY <1>1, Invariant, PTL DEF Spec, StopsOnlyAtBorder

-----------------------------------------------------------------------------
(* How long a dog runs that nobody steers.                                 *)

\* When time passes, the target of a running dog is further on the way it faces.
LEMMA TargetFurther ==
  ASSUME NEW dog, Walks(dog), Runs(dog), NEW time \in Nat, time > 0
  PROVE  /\ dog.dir = "D" => Target(dog, time).y > dog.loc.y
         /\ dog.dir = "U" => Target(dog, time).y < dog.loc.y
         /\ dog.dir = "R" => Target(dog, time).x > dog.loc.x
         /\ dog.dir = "L" => Target(dog, time).x < dog.loc.x
         /\ dog.dir # "S"
<1> DEFINE standard == dog.standard
           far      == standard * time
<1>1. /\ dog.loc.x \in Int /\ dog.loc.y \in Int /\ dog.dir \in Directions
      /\ standard \in Nat /\ dog.speed = SpeedTowards(dog.dir, standard)
  BY DEF Walks, WalkerType, Point, Runs
<1>2. dog.dir # "S" /\ standard # 0
  BY <1>1 DEF Runs, SpeedTowards, Still, Directions
<1>3. far \in Nat /\ far > 0 /\ (-standard) * time = -far
  <2> HIDE DEF standard
  <2> QED BY <1>1, <1>2
<1> HIDE DEF standard
<1>4. /\ dog.dir = "D" => dog.speed.y * time = far
      /\ dog.dir = "U" => dog.speed.y * time = -far
      /\ dog.dir = "R" => dog.speed.x * time = far
      /\ dog.dir = "L" => dog.speed.x * time = -far
  BY <1>1, <1>3 DEF SpeedTowards
<1>5. /\ Target(dog, time).x = dog.loc.x + dog.speed.x * time
      /\ Target(dog, time).y = dog.loc.y + dog.speed.y * time
  BY DEF Target
<1> HIDE DEF far
<1> QED
  BY <1>1, <1>2, <1>3, <1>4, <1>5

\* A dog on a road of the map has the edge it faces ahead of it, or is there.
LEMMA RoomOnRoad ==
  ASSUME NEW roads \in Seq(RoadType), NEW edge \in Int, RoadsWithin(roads, edge),
         NEW dog \in WalkerType, NEW i \in DOMAIN roads, Covers(roads[i], dog.loc)
  PROVE  RoomAhead(dog, edge) \in Nat
<1> DEFINE road == roads[i]
<1>1. road \in RoadType
  OBVIOUS
<1>2. /\ dog.dir \in Directions /\ dog.loc.x \in Int /\ dog.loc.y \in Int
  BY DEF WalkerType, Point
<1>3. /\ -edge <= LowerBorder(road).x /\ UpperBorder(road).x <= edge
      /\ -edge <= LowerBorder(road).y /\ UpperBorder(road).y <= edge
  BY DEF RoadsWithin
<1>4. /\ LowerBorder(road).x <= dog.loc.x /\ dog.loc.x <= UpperBorder(road).x
      /\ LowerBorder(road).y <= dog.loc.y /\ dog.loc.y <= UpperBorder(road).y
  BY DEF Covers
<1> HIDE DEF road
<1>5. /\ LowerBorder(road).x \in Int /\ LowerBorder(road).y \in Int
      /\ UpperBorder(road).x \in Int /\ UpperBorder(road).y \in Int
  BY <1>1, Corners
<1>6. /\ -edge <= dog.loc.x /\ dog.loc.x <= edge
      /\ -edge <= dog.loc.y /\ dog.loc.y <= edge
  BY <1>2, <1>3, <1>4, <1>5
<1>7. \A n \in Int : -edge <= n /\ n <= edge => edge - n \in Nat /\ n + edge \in Nat
  OBVIOUS
<1> QED
  BY <1>2, <1>6, <1>7 DEF RoomAhead, Directions

\* UpdateDogLocation stops a running dog or takes it nearer to the edge it faces.
LEMMA RunnerGetsOn ==
  ASSUME NEW roads \in Seq(RoadType), WellFormed(roads), NEW edge \in Int,
         RoadsWithin(roads, edge),
         NEW dog, Walks(dog), Runs(dog), OnRoad(roads, dog.loc),
         NEW time \in Nat, time > 0,
         NEW moved, moved = UpdateDogLocation(IndexOf(roads), dog, time), Runs(moved)
  PROVE  RoomAhead(moved, edge) \in Nat /\ RoomAhead(moved, edge) < RoomAhead(dog, edge)
<1> DEFINE hor   == FindHorizontal(IndexOf(roads), dog.loc)
           vert  == FindVertical(IndexOf(roads), dog.loc)
           lane  == LaneOf(hor, vert, dog.dir)
           there == Target(dog, time)
           speed == IF Arrival(lane, dog, time) = there THEN dog.speed ELSE Still
<1>1. /\ dog \in WalkerType /\ dog.loc \in Point /\ dog.dir \in Directions
      /\ dog.loc.x \in Int /\ dog.loc.y \in Int
  BY DEF Walks, WalkerType, Point
<1>2. hor # {} \/ vert # {}
  BY <1>1, LookupExact DEF OnRoad
<1>3. moved = Walk(lane, dog, time)
  BY <1>2 DEF UpdateDogLocation
<1> HIDE DEF lane
<1>4. moved = [dog EXCEPT !.loc = Arrival(lane, dog, time), !.speed = speed]
  BY <1>3, Zenon DEF Walk
<1>5. moved.loc = Arrival(lane, dog, time) /\ moved.speed = speed
  BY <1>1, <1>4 DEF WalkerType
<1>6. moved.loc = there
  BY <1>5 DEF Runs
<1>7. /\ moved \in WalkerType /\ moved.dir = dog.dir
      /\ \E i \in DOMAIN roads : Covers(roads[i], moved.loc)
  BY UpdateStaysOnOneRoad DEF Walks
<1>8. RoomAhead(moved, edge) \in Nat
  BY <1>7, RoomOnRoad
<1>9. there.x \in Int /\ there.y \in Int
  BY TargetAhead DEF Point
<1>10. /\ dog.dir = "D" => there.y > dog.loc.y
       /\ dog.dir = "U" => there.y < dog.loc.y
       /\ dog.dir = "R" => there.x > dog.loc.x
       /\ dog.dir = "L" => there.x < dog.loc.x
       /\ dog.dir # "S"
  BY TargetFurther
<1> HIDE DEF there
<1>11. RoomAhead(moved, edge) < RoomAhead(dog, edge)
  <2>1. CASE dog.dir = "D"
    BY <1>1, <1>6, <1>7, <1>9, <1>10, <2>1 DEF RoomAhead
  <2>2. CASE dog.dir = "U"
    BY <1>1, <1>6, <1>7, <1>9, <1>10, <2>2 DEF RoomAhead
  <2>3. CASE dog.dir = "R"
    BY <1>1, <1>6, <1>7, <1>9, <1>10, <2>3 DEF RoomAhead
  <2>4. CASE dog.dir = "L"
    BY <1>1, <1>6, <1>7, <1>9, <1>10, <2>4 DEF RoomAhead
  <2> QED
    BY <1>1, <1>10, <2>1, <2>2, <2>3, <2>4 DEF Directions
<1> QED
  BY <1>8, <1>11

\* What a tick does to the distance, in every state the server comes to.
LEMMA NearerByTick ==
  ASSUME TimeForward, SpeedsForward, RoadsLogical, NEW edge \in Int, IInv, NeverStranded
  PROVE  NearsEdge(edge)
<1> SUFFICES ASSUME NEW id \in Ids, NEW time \in TickTimes \cup TimerDeltas,
                    RoadsWithin(RoadsOf[player[id].session], edge), time > 0,
                    UpdateOnTime(time), Runs(dogs[id]), Runs(dogs'[id])
             PROVE  /\ RoomAhead(dogs'[id], edge) \in Nat
                    /\ RoomAhead(dogs'[id], edge) < RoomAhead(dogs[id], edge)
  BY DEF NearsEdge
<1> DEFINE map   == player[id].session
           roads == RoadsOf[map]
<1>1. map \in Maps /\ map \in sessions /\ id \in dogsOf[map] /\ SessionOf(id) = map
  BY SessionOfPlayer DEF IInv
<1>2. roads \in Seq(RoadType) /\ WellFormed(roads)
  BY <1>1, ConfigAssumption DEF RoadsLogical
<1>3. time \in Nat
  BY SettingAssumption DEF TimeForward
<1>4. dogs'[id] = UpdateDogLocation(IndexOf(roads), dogs[id], time)
  BY <1>1 DEF UpdateOnTime, MapIndex
<1>5. Walks(dogs[id])
  <2>1. dogs[id] \in WalkerType
    BY DEF IInv, TypeOK, DogType, WalkerType
  <2>2. /\ dogs[id].standard >= 0
        /\ dogs[id].speed \in {Still, SpeedTowards(dogs[id].dir, dogs[id].standard)}
    BY <1>1 DEF IInv, SpeedFollowsDirection, SpeedsForward
  <2> QED
    BY <2>1, <2>2 DEF Walks
<1>6. OnRoad(roads, dogs[id].loc)
  BY DEF NeverStranded
<1> HIDE DEF roads
<1>7. RoadsWithin(roads, edge)
  BY DEF roads
<1> QED
  BY <1>2, <1>3, <1>4, <1>5, <1>6, <1>7, RunnerGetsOn

\* Each tick in which time passes brings a dog that it does not stop nearer to the edge of
\* the map, wherever one sets that: it has 2 * edge steps to go at most.
THEOREM RunnersNearEdge ==
  ASSUME TimeForward, SpeedsForward, SpawnsOnRoads, RoadsLogical, NEW edge \in Int
  PROVE  Spec => [][NearsEdge(edge)]_vars
<1>1. IInv /\ NeverStranded => [NearsEdge(edge)]_vars
  BY NearerByTick
<1> QED
  BY <1>1, Invariant, NobodyStranded, PTL DEF Spec

\* No dog runs on for ever: the measure behind RestEventually, for any roads, speeds and
\* periods.
THEOREM NobodyRunsForever ==
  ASSUME TimeForward, SpeedsForward, SpawnsOnRoads, RoadsLogical
  PROVE  Spec => RunsOutOfRoad
<1>1. ASSUME NEW m \in Maps, NEW i \in DOMAIN RoadsOf[m]
      PROVE  \A b \in BordersOf(RoadsOf[m][i]) : Abs(b) \in Int
  <2>1. RoadsOf[m][i] \in RoadType
    BY ConfigAssumption
  <2> QED
    BY <2>1, Corners DEF BordersOf, Abs
<1>2. \A edge \in Edges : edge \in Int
  BY <1>1 DEF Edges
<1>3. \A edge \in Edges : IInv /\ NeverStranded => NearsEdge(edge)
  BY <1>2, NearerByTick
<1>4. IInv /\ NeverStranded => [\A edge \in Edges : NearsEdge(edge)]_vars
  BY <1>3
<1> QED
  BY <1>4, Invariant, NobodyStranded, PTL DEF Spec, RunsOutOfRoad
=============================================================================
