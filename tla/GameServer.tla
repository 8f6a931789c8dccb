----------------------------- MODULE GameServer -----------------------------
(***************************************************************************)
(* The game behind the API: model::Game with its sessions and dogs, the    *)
(* PlayerLibrary, and the handlers of GameDataBaseHolder.  One action is   *)
(* one handler run to its end: api_strand_ admits one at a time (module    *)
(* ApiStrand says how, and when it does not).                              *)
(*                                                                         *)
(* A definition marked (fault) is no part of the model: it is the next one *)
(* with a mistake in it, that a property below tells from the real one.    *)
(***************************************************************************)
EXTENDS Roads

CONSTANTS
  Maps,          \* ids of the maps of the config
  UnknownMap,    \* any other map id a client may send
  RoadsOf,       \* the roads of each map, in the order of the config
  ConfigSpeed,   \* each map's dogSpeed, negative where the config gives none
  DefaultSpeed,  \* the game's defaultDogSpeed
  Tokens,        \* the 32-digit tokens that occur
  BadHeader,     \* an Authorization header that is not "Bearer " and 32 characters
  TimerOn,       \* --tick-period was given
  RandomSpawn,   \* --randomize-spawn-points was given
  TokensRepeat,  \* whether Tokenizer::GetToken may return a token twice
  Methods,       \* the request methods clients use
  Moves,         \* the directions they ask for
  TickTimes,     \* the timeDelta values clients send
  TimerDeltas,   \* the milliseconds the ticker measures between two ticks
  MaxDogs        \* bound on the dogs of one run

ASSUME ConfigAssumption ==
  /\ UnknownMap \notin Maps
  /\ RoadsOf \in [Maps -> Seq(RoadType) \ {<<>>}]
  /\ ConfigSpeed \in [Maps -> Int]
  /\ DefaultSpeed \in Int

ASSUME RequestAssumption ==
  /\ BadHeader \notin Tokens
  /\ Methods \subseteq {"GET", "HEAD", "POST", "PUT", "OS"}
  /\ Moves \subseteq Directions
  /\ TickTimes \subseteq Int

ASSUME SettingAssumption ==
  /\ {TimerOn, RandomSpawn, TokensRepeat} \subseteq BOOLEAN
  /\ TimerDeltas \subseteq Nat
  /\ MaxDogs \in Nat

VARIABLES
  nextId,     \* Zoo::next_id_
  dogs,       \* the Dog objects by id
  sessions,   \* Game::game_sessions_: the maps that have a session
  dogsOf,     \* GameSession::dogs_ of each map's session
  player,     \* the Player objects by id (the id of a player is its dog's)
  players,    \* PlayerLibrary::players: token to player, 0 for no player
  playersOf,  \* PlayerLibrary::game_sessions, {} for no entry
  reply       \* status of the last response, 0 after a tick of the timer

world == <<nextId, dogs, sessions, dogsOf, player, players, playersOf>>
vars  == <<world, reply>>

Ids == 1 .. nextId

DogType ==
  [loc : Point, dir : Directions, speed : Point, standard : Int]

PlayerType == [session : Maps, token : Tokens]

Statuses == {0, 200, 400, 401, 404, 405, 424}

\* Every variable has its type, and ids are handed out from 1 without gaps.
TypeOK ==
  /\ nextId \in 0 .. MaxDogs
  /\ dogs \in [Ids -> DogType]
  /\ sessions \subseteq Maps
  /\ dogsOf \in [Maps -> SUBSET Ids]
  /\ player \in [Ids -> PlayerType]
  /\ players \in [Tokens -> 0 .. nextId]
  /\ playersOf \in [Maps -> SUBSET Ids]
  /\ reply \in Statuses

Init ==
  /\ nextId = 0
  /\ dogs = [i \in {} |-> 0]
  /\ sessions = {}
  /\ dogsOf = [m \in Maps |-> {}]
  /\ player = [i \in {} |-> 0]
  /\ players = [t \in Tokens |-> 0]
  /\ playersOf = [m \in Maps |-> {}]
  /\ reply = 0

-----------------------------------------------------------------------------
(* What a request may hold.  Data the handlers only copy is left out.      *)

(* CheckMethod looks the method up as a substring of the Allow header:     *)
(* "OS" stands for the methods that are a part of an allowed one's name.   *)
AllowGetHead == {"GET", "HEAD"}
AllowPost    == {"POST", "OS"}

Headers == Tokens \cup {BadHeader}

JoinBodies ==
  [form : {"unreadable", "lacks_field", "no_name", "complete"},
   map  : Maps \cup {UnknownMap}]

MoveBodies == Moves \cup {"unreadable", "no_such_move"}

\* "unreadable": not JSON, or an integer too wide for int.
TickBodies ==
  [form : {"unreadable", "no_time", "complete"}, time : TickTimes]

\* ErrorHandle: the status of each ErrorType; its default is SERVER_ERROR.
StatusOf(error) ==
  CASE error = "OK" -> 200
    [] error \in {"INVALID_TOKEN", "UNKNOWN_TOKEN"} -> 401
    [] error = "INVALID_METHOD" -> 405
    [] error = "MAP_NOT_FOUND" -> 404
    [] error \in {"BAD_REQUEST", "INVALID_ARGUMENT_NAME", "INVALID_ARGUMENT_PARSING",
                  "INVALID_MOVE", "INVALID_TICK_TIME"} -> 400
    [] error = "SERVER_ERROR" -> 424

\* The end of a handler that changes nothing.
Answer(error) == reply' = StatusOf(error) /\ UNCHANGED world

\* Authorization_Process with PlayerLibrary::FindPlayer.
Authorization(header) ==
  IF header \notin Tokens THEN "INVALID_TOKEN"
  ELSE IF players[header] = 0 THEN "UNKNOWN_TOKEN" ELSE "OK"

\* The checks the handlers of authorized requests begin with.
Admission(allowed, method, header) ==
  IF method \notin allowed THEN "INVALID_METHOD" ELSE Authorization(header)

-----------------------------------------------------------------------------
(* Joining a game.                                                         *)

\* f with k mapped to v.
With(f, k, v) == [x \in DOMAIN f \cup {k} |-> IF x = k THEN v ELSE f[x]]

\* Game::AddMap: a map without a speed of its own takes the game's.
MapSpeed(map) ==
  IF ConfigSpeed[map] < 0 THEN DefaultSpeed ELSE ConfigSpeed[map]

\* (fault) The coordinates of the start are swapped.
SpawnPointsSwapped(map) ==
  {[x |-> Cell * RoadsOf[map][i].start.y, y |-> Cell * RoadsOf[map][i].start.x] :
     i \in DOMAIN RoadsOf[map]}

\* Where CreateNewPlayer puts a dog: (0, 0), or the start of some road.
SpawnPoints(map) ==
  IF RandomSpawn
  THEN {[x |-> Cell * RoadsOf[map][i].start.x, y |-> Cell * RoadsOf[map][i].start.y] :
          i \in DOMAIN RoadsOf[map]}
  ELSE {Origin}

\* (fault) A map without a speed keeps the -100 it was built with.
NewDogUnset(map, spawn) ==
  [loc |-> spawn, dir |-> "U", speed |-> Still, standard |-> ConfigSpeed[map]]

\* A Dog as its constructor, CreateNewPlayer and Player's constructor leave it.
NewDog(map, spawn) ==
  [loc |-> spawn, dir |-> "U", speed |-> Still, standard |-> MapSpeed(map)]

UsedTokens == {player[i].token : i \in Ids}

\* Tokenizer::GetToken: 128 random bits.
NewTokens == IF TokensRepeat THEN Tokens ELSE Tokens \ UsedTokens

\* (fault) The id is used and not incremented.
CreateDogSameId(map, spawn) ==
  /\ nextId' = nextId
  /\ dogs' = With(dogs, nextId + 1, NewDog(map, spawn))
  /\ dogsOf' = [dogsOf EXCEPT ![map] = @ \cup {nextId + 1}]

\* Zoo::GetDog and GameSession::Add_Dog.
CreateDog(map, spawn) ==
  /\ nextId' = nextId + 1
  /\ dogs' = With(dogs, nextId + 1, NewDog(map, spawn))
  /\ dogsOf' = [dogsOf EXCEPT ![map] = @ \cup {nextId + 1}]

\* (fault) players[new_token] = new_player.
AddNewPlayerAssigns(map, token, id) ==
  /\ player' = With(player, id, [session |-> map, token |-> token])
  /\ players' = [players EXCEPT ![token] = id]
  /\ playersOf' = [playersOf EXCEPT ![map] = @ \cup {id}]

\* (fault) A player whose token is taken is left out of the session's list.
AddNewPlayerSkips(map, token, id) ==
  /\ player' = With(player, id, [session |-> map, token |-> token])
  /\ players' = [players EXCEPT ![token] = IF @ = 0 THEN id ELSE @]
  /\ playersOf' = IF players[token] = 0
                  THEN [playersOf EXCEPT ![map] = @ \cup {id}] ELSE playersOf

\* (fault) Only a session that has an entry is given the player.
AddNewPlayerNoEntry(map, token, id) ==
  /\ player' = With(player, id, [session |-> map, token |-> token])
  /\ players' = [players EXCEPT ![token] = IF @ = 0 THEN id ELSE @]
  /\ playersOf' = IF playersOf[map] = {} THEN playersOf
                  ELSE [playersOf EXCEPT ![map] = @ \cup {id}]

\* PlayerLibrary::AddNewPlayer: insert keeps the player a token already has.
AddNewPlayer(map, token, id) ==
  /\ player' = With(player, id, [session |-> map, token |-> token])
  /\ players' = [players EXCEPT ![token] = IF @ = 0 THEN id ELSE @]
  /\ playersOf' = [playersOf EXCEPT ![map] = @ \cup {id}]

\* GameDataBaseHolder::CreateNewPlayer, which opens the map's session if need be.
CreateNewPlayer(map) ==
  /\ nextId < MaxDogs
  /\ \E spawn \in SpawnPoints(map), token \in NewTokens :
       /\ sessions' = sessions \cup {map}
       /\ CreateDog(map, spawn)
       /\ AddNewPlayer(map, token, nextId + 1)

\* The checks of Authorize_Request, CheckInitialAuthorize and GetGameSession.
JoinVerdict(method, body) ==
  IF method \notin AllowPost THEN "INVALID_METHOD"
  ELSE CASE body.form = "unreadable"  -> "SERVER_ERROR"
         [] body.form = "lacks_field" -> "INVALID_ARGUMENT_PARSING"
         [] body.form = "no_name"     -> "INVALID_ARGUMENT_NAME"
         [] body.form = "complete"    ->
              IF body.map \in Maps THEN "OK" ELSE "MAP_NOT_FOUND"

Authorize_Request(method, body) ==
  \/ JoinVerdict(method, body) = "OK" /\ CreateNewPlayer(body.map) /\ reply' = 200
  \/ JoinVerdict(method, body) # "OK" /\ Answer(JoinVerdict(method, body))

-----------------------------------------------------------------------------
(* Moving, and the two clocks.                                             *)

SetDirection(id, dir) ==
  dogs' = [dogs EXCEPT ![id].dir = dir,
                       ![id].speed = SpeedTowards(dir, dogs[id].standard)]

MoveVerdict(method, header, body) ==
  IF Admission(AllowPost, method, header) # "OK" THEN Admission(AllowPost, method, header)
  ELSE CASE body = "unreadable"   -> "SERVER_ERROR"
         [] body = "no_such_move" -> "INVALID_MOVE"
         [] body \in Directions   -> "OK"

Move_Request(method, header, body) ==
  \/ /\ MoveVerdict(method, header, body) = "OK"
     /\ SetDirection(players[header], body)
     /\ reply' = 200
     /\ UNCHANGED <<nextId, sessions, dogsOf, player, players, playersOf>>
  \/ /\ MoveVerdict(method, header, body) # "OK"
     /\ Answer(MoveVerdict(method, header, body))

\* The indexes that Map::AddRoads built when the config was loaded.
MapIndex == [m \in Maps |-> IndexOf(RoadsOf[m])]

\* The session that walks a dog: the one whose dogs_ it is in.
SessionOf(id) == CHOOSE m \in sessions : id \in dogsOf[m]

\* Game::UpdateOnTime and GameSession::UpdateOnTime: every dog of every session.
UpdateOnTime(time) ==
  /\ dogs' = [id \in Ids |->
                IF \E m \in sessions : id \in dogsOf[m]
                THEN UpdateDogLocation(MapIndex[SessionOf(id)], dogs[id], time)
                ELSE dogs[id]]
  /\ UNCHANGED <<nextId, sessions, dogsOf, player, players, playersOf>>

\* active_time_management is the opposite of TimerOn (SetStartParameters).
TickVerdict(method, body) ==
  IF TimerOn THEN "BAD_REQUEST"
  ELSE IF method \notin AllowPost THEN "INVALID_METHOD"
  ELSE CASE body.form = "unreadable" -> "SERVER_ERROR"
         [] body.form = "no_time"    -> "INVALID_TICK_TIME"
         [] body.form = "complete"   -> "OK"

UpdateOnTime_Request(method, body) ==
  \/ TickVerdict(method, body) = "OK" /\ UpdateOnTime(body.time) /\ reply' = 200
  \/ TickVerdict(method, body) # "OK" /\ Answer(TickVerdict(method, body))

\* Ticker::OnTick, Application::Tick and GameDataBaseHolder::UpdateOnTick.
UpdateOnTick ==
  /\ TimerOn
  /\ \E delta \in TimerDeltas : UpdateOnTime(delta)
  /\ reply' = 0

-----------------------------------------------------------------------------
(* The requests that only read.                                            *)

GameState_Request(method, header) ==
  Answer(Admission(AllowGetHead, method, header))

\* PlayerLibrary::GetPlayerList uses at(), which throws when there is no entry.
PlayerListVerdict(method, header) ==
  IF Admission(AllowGetHead, method, header) # "OK"
  THEN Admission(AllowGetHead, method, header)
  ELSE IF playersOf[player[players[header]].session] = {} THEN "SERVER_ERROR" ELSE "OK"

PlayerList_Request(method, header) ==
  Answer(PlayerListVerdict(method, header))

\* FULL_INFO_REQUEST always succeeds; CERTAIN_MAP_REQUEST names a map.
Game_Request(method, map) ==
  Answer(IF method \notin AllowGetHead THEN "INVALID_METHOD"
         ELSE IF map \in Maps THEN "OK" ELSE "MAP_NOT_FOUND")

\* HandleURI with a target that is in no library.
UnknownTarget == Answer("BAD_REQUEST")

HandleURI ==
  \/ \E method \in Methods, body \in JoinBodies : Authorize_Request(method, body)
  \/ \E method \in Methods, header \in Headers, body \in MoveBodies :
       Move_Request(method, header, body)
  \/ \E method \in Methods, body \in TickBodies : UpdateOnTime_Request(method, body)
  \/ \E method \in Methods, header \in Headers : GameState_Request(method, header)
  \/ \E method \in Methods, header \in Headers : PlayerList_Request(method, header)
  \/ \E method \in Methods, map \in Maps \cup {UnknownMap} : Game_Request(method, map)
  \/ UnknownTarget

Next == HandleURI \/ UpdateOnTick

\* The ticker schedules itself again after every tick (module ApiStrand).
Fairness == WF_vars(UpdateOnTick)

Spec == Init /\ [][Next]_vars /\ Fairness

-----------------------------------------------------------------------------
(* Properties.                                                             *)

\* What /state lists (the session's dogs), what /players lists (the library's
\* players of the session) and where each player believes he is agree.
StateMatchesPlayers ==
  \A m \in Maps :
    /\ dogsOf[m] = playersOf[m]
    /\ dogsOf[m] = {id \in Ids : player[id].session = m}
    /\ dogsOf[m] # {} => m \in sessions

\* A token leads to the first player it was given to and never comes to lead to
\* another: AddNewPlayer inserts, and insert keeps what a key already has.
TokenLeadsToFirst ==
  \A t \in Tokens :
    LET holders == {id \in Ids : player[id].token = t}
    IN  IF holders = {} THEN players[t] = 0
        ELSE players[t] \in holders /\ \A id \in holders : players[t] <= id

\* Nobody is refused a list he may see: the at() of GetPlayerList finds the session
\* of every player that a token leads to.
PlayerListServed ==
  \A header \in Headers : PlayerListVerdict("GET", header) # "SERVER_ERROR"

\* Every dog stands still or runs with its map's speed the way it faces, whatever
\* joins, moves and stops at borders came before.
SpeedFollowsDirection ==
  \A id \in Ids :
    /\ dogs[id].standard = MapSpeed(player[id].session)
    /\ dogs[id].speed \in {Still, SpeedTowards(dogs[id].dir, dogs[id].standard)}

\* No dog is off the roads of its map, where UpdateDogLocation returns early and it
\* could never move again.
NeverStranded ==
  \A id \in Ids : OnRoad(RoadsOf[player[id].session], dogs[id].loc)

\* A tick takes a dog along one road: it neither jumps to another nor crosses a gap.
StaysOnOneRoad ==
  [][\A id \in Ids :
       \E i \in DOMAIN RoadsOf[player[id].session] :
         /\ Covers(RoadsOf[player[id].session][i], dogs[id].loc)
         /\ Covers(RoadsOf[player[id].session][i], dogs'[id].loc)]_vars

\* The next grid point for a dog that faces dir.
Ahead(p, dir) ==
  [x |-> p.x + SpeedTowards(dir, 1).x, y |-> p.y + SpeedTowards(dir, 1).y]

Runs(dog) == dog.speed # Still

\* Where roads are not split in two, time stops a dog only where the road ends: no
\* road leads on from there.
StopsOnlyAtBorder ==
  [][\A id \in Ids :
       LET roads == RoadsOf[player[id].session]
       IN  (Unjointed(roads) /\ Runs(dogs[id]) /\ ~Runs(dogs'[id]) /\ dogs'[id].dir # "S") =>
             ~ \E i \in DOMAIN roads :
                 /\ Covers(roads[i], dogs'[id].loc)
                 /\ Covers(roads[i], Ahead(dogs'[id].loc, dogs'[id].dir))]_vars

\* A player whose token was given out before him is locked out: his dog stands where it
\* was put, as it was made, whatever the first holder does with his own.
LockedOutStaysPut ==
  \A id \in Ids :
    players[player[id].token] # id =>
      /\ ~Runs(dogs[id]) /\ dogs[id].dir = "U"
      /\ dogs[id].loc \in SpawnPoints(player[id].session)

\* A dog sets off or turns: only a move request can do that to it.
Steered(id) ==
  /\ id \in Ids
  /\ \/ dogs'[id].dir # dogs[id].dir
     \/ ~Runs(dogs[id]) /\ Runs(dogs'[id])

RoadsWithin(roads, edge) ==
  \A i \in DOMAIN roads :
    /\ -edge <= LowerBorder(roads[i]).x /\ UpperBorder(roads[i]).x <= edge
    /\ -edge <= LowerBorder(roads[i]).y /\ UpperBorder(roads[i]).y <= edge

\* How far a dog is from the edge that it faces.
RoomAhead(dog, edge) ==
  CASE dog.dir = "D" -> edge - dog.loc.y
    [] dog.dir = "U" -> dog.loc.y + edge
    [] dog.dir = "R" -> edge - dog.loc.x
    [] dog.dir = "L" -> dog.loc.x + edge
    [] dog.dir = "S" -> 0

\* A tick in which time passes stops a running dog or takes it nearer to the edge.
NearsEdge(edge) ==
  \A id \in Ids, time \in TickTimes \cup TimerDeltas :
    LET roads == RoadsOf[player[id].session]
    IN  (RoadsWithin(roads, edge) /\ time > 0 /\ UpdateOnTime(time) /\ Runs(dogs[id])) =>
          \/ ~Runs(dogs'[id])
          \/ /\ RoomAhead(dogs'[id], edge) \in Nat
             /\ RoomAhead(dogs'[id], edge) < RoomAhead(dogs[id], edge)

\* The lines a road ends at.
BordersOf(road) ==
  {LowerBorder(road).x, LowerBorder(road).y, UpperBorder(road).x, UpperBorder(road).y}

\* How far from an axis the roads end: the largest such distance on a map is an edge that
\* all its roads lie within.
Edges ==
  UNION {UNION {{Abs(b) : b \in BordersOf(RoadsOf[m][i])} : i \in DOMAIN RoadsOf[m]} : m \in Maps}

\* A dog runs out of road: each tick in which time passes stops it or takes it nearer to
\* the edge of its map, which it never crosses, so that a dog that is not steered runs for
\* at most as many ticks as its map has steps from edge to edge.
RunsOutOfRoad == [][\A edge \in Edges : NearsEdge(edge)]_vars

\* With the timer on, and time passing between its ticks, a dog that nobody steers
\* any more comes to rest at some border.
RestEventually ==
  \A id \in 1 .. MaxDogs :
    \/ []<><<Steered(id)>>_vars
    \/ <>[](id \in Ids => ~Runs(dogs[id]))

\* The game as its players are promised it: the roads are its streets.
Park == INSTANCE DogPark WITH
  Streets <- [m \in Maps |->
                {[lo |-> LowerBorder(RoadsOf[m][i]), hi |-> UpperBorder(RoadsOf[m][i])] :
                   i \in DOMAIN RoadsOf[m]}],
  park    <- [id \in Ids |-> [map |-> player[id].session, loc |-> dogs[id].loc,
                              dir |-> dogs[id].dir, runs |-> Runs(dogs[id])]]

\* Whatever requests come and however often the clock ticks, each player sees a dog that
\* appears on a street, goes only where it is turned, only forward and along one street
\* at a time, and is stopped by time only at a street's end; and nothing that happens to
\* one dog, but time, happens to another.
KeepsPromise == Park!Spec
=============================================================================
