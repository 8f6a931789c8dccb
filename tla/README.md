# YellowBelt in TLA+

This directory specifies and verifies the game server of YellowBelt: a C++ server
(`src/Project/src`, Boost.Asio and Beast) that keeps maps, sessions, players and their
dogs in memory, serves them over an HTTP API, moves the dogs as time passes, and serves
the files of a browser client, which steers a dog and draws the game. Line references are to files of `src/Project/src` unless
a path is given; `README.md` and `ON_FUTURE.txt` are those of `src/Project`.

## 1. Inventory

### The parts and their state

| Part | Code | State | Operations |
|---|---|---|---|
| Road geometry, road index, walk of a dog | `model.h` (Point, Road, Map), `model.cpp` (SetBorders, AddRoad, FindRoads, UpdateDogLocation) | a map's road list, and two `std::set`s ordered by the upper border | AddRoad, FindRoads, UpdateDogLocation |
| Game world | `model.h` (Game, GameSession), `dog.h`, `dog.cpp` | sessions (one per map), each session's dogs, each dog's location, direction, speed; `Zoo::next_id_` | GetGameSession, CreateDog, SetDirection, UpdateOnTime |
| Players and tokens | `player.h`, `player.cpp` | token to player, session to players | GetToken, AddNewPlayer, FindPlayer, GetPlayerList |
| API handlers | `info_holders.h`, `info_holders.cpp` | two switches (`active_time_management`, `randomize_start_point`) | HandleURI and six handlers; UpdateOnTick |
| Request path | `request_handler.h`, `main.cpp` | worker threads, `api_strand_`, the frame of each call | operator(), dispatch to the strand, HandleFileRequest |
| Ticker | `request_handler.h:111-162` | `timer_`, `last_tick_` | Start, ScheduleTick, OnTick |
| Logging handler | `server_logger.h` | `start_time`, `end_time` shared by all requests; `resp_info` in the frame | LogRequest, LogResponse |
| HTTP sessions, listener | `http_server.h` | the connection, its buffer and request; the acceptor | Read, OnRead, Write, OnWrite, Close; DoAccept, OnAccept |
| Static files | `request_handler.cpp` | `base_path_` (assigned by every request) | DecodeURI, CheckIsSubPath, CheckEntryPoint, CheckDownloadFile |
| Config loader, command line, logger | `json_loader.*`, `model.cpp:200-347`, `automation.*`, `logger.*` | none after the start | |
| Browser: steering | `static/js/game.js` (KeyState, setupKeyEvents) | `pressedKeys` | keyDown, keyUp, `_pressKey` |
| Browser: polling and pictures | `static/js/game.js` (GameState, render) | `players`, `desiredState`, `currentState`, four flags, `ticks` | the constructor, tick, the callbacks of `/state` and `/players` |
| Browser: map drawing | `static/js/game_map.js`, `game.js:313-370` | `map_tiles` | gameLoadMap, makeRoadTile, makeRoads |
| Browser: lobby | `static/index.html`, `game.html` | cookies `authToken`, `playerId` | join, load the maps |
| TeamTasks | `src/main.cpp` | tasks of each person by status | AddNewTask, PerformPersonTasks |

### How they interact

A request is read by an HTTP session on some worker thread, handed to the logging handler
(which sets `start_time` and owns `resp_info`) and from there to `RequestHandler`, all on
one stack. A file is answered at once. An API request is *dispatched* to `api_strand_`: if
no other thread is in the strand, the handler runs there and then; if one is, the handler
is queued, the stack unwinds and whoever runs the strand next runs it. The ticker's timer
has the same strand as its executor. Inside the strand, `HandleURI` finds the handler,
which reads and changes the game. `SIGINT` and `SIGTERM` stop the `io_context`. The
mutex `api_request_lock_` is taken by the ticker only, so it excludes nothing.

The page loads the map and the token of its player, makes a `GameState` with the first
frame after the model of a dog is loaded, and from then on polls `/state` with every
frame and `/players` with every fiftieth, while key events post moves. All three go over
several connections, and nothing orders them or their answers.

### What is hard, and what makes each part correct

* *Geometry.* Binary search by comparators that mix roads and points, in an order that
  looks at upper borders only; borders 0.4 to each side of roads; where roads cross,
  which of two stops a dog; streets split in two, where at the joint the search gives the
  road that ends there. Correct: the search finds a road exactly where there is one;
  a walk stays on one road and stops where the road ends; how time is cut into ticks
  makes no difference where streets are whole.
* *World and players.* Several structures that must agree although different classes
  write them; tokens from a random generator that nobody compares with those in use.
  Correct: the lists agree, a token keeps its player, dogs have their map's speed and are
  on its roads.
* *Request path.* Threads, a strand, references to stacks, a shared member. Correct:
  handlers exclude each other, none is forgotten, each finds what it refers to, each log
  line is about its request, requests are answered and ticks go on.
* *Sessions and listener.* Requests sent ahead, clients that fall silent or reset, the
  30 s of a read that go on while the answer is written, accepts that fail or throw.
  Correct: one thing at a time on a stream, answers in the order of the requests, at most
  one of them lost; a session does not outlive its client; whoever connects is accepted.
* *Steering.* Keys overlap, repeat, get lost with the focus; every change is a
  request of its own, which others may overtake. Correct: the dog ends up doing what the
  keys that are down say.
* *Polling and pictures.* Two polls that answer in any order, old answers after new ones,
  dogs in one list and not in the other. Correct: no frame throws (one that does is the
  last), no dog is left on the scene, the page catches up with the game.
* *Map drawing.* The page works out from the roads alone what the server's index decides.
  Correct: tiles fit together, and are open exactly where dogs may walk, which fails at the
  joints of split streets.

`PROJECT.json` lists these hazards at their lines, with the properties that cover them.

## 2. The modules and how they correspond to the code

| Module | What it is |
|---|---|
| `Roads` | operators for Road, the two indexes of Map, FindRoads and UpdateDogLocation |
| `RoadList` | a map taking in its roads one by one (`Map::AddRoads`), over `Roads` |
| `GameServer` | the world, the players and every API handler, over `Roads` |
| `MCGameServer` | small maps for `GameServer` |
| `ApiStrand` | threads, strand, ticker, connections, the frames of calls, the log |
| `HttpServer` | the listener, the sessions, their clients, and the threads that run them |
| `KeyState` | the keys, the page's list of them, and the posts of moves on their way |
| `GameState` | the page: its frames, its polls under way, what it shows; the session it asks for |
| `MapTiles` | the page's tiles of a map, over the lists of roads of `RoadList` |
| `DogPark` | abstract: what the game promises its players; `GameServer` implements it (`Park`, `KeepsPromise`) |
| `HandlerQueue` | abstract: what the strand promises its users; `ApiStrand` implements it (`Strand`, `ServesInOrder`) |
| `RoadsProofs`, `RoadListProofs`, `GameServerProofs`, `DogParkProofs`, `ApiStrandProofs`, `HttpServerProofs`, `KeyStateProofs`, `GameStateProofs` | theorems and their proofs |

**How they fit together.** `HttpServer` leaves out what a handler does with a request;
`ApiStrand` starts where a request has been read and ends when its answer is written;
`GameServer` is what happens inside the strand. `GameState` and `KeyState` see the server
through the answers of two handlers and the effect of one. `MapTiles` puts the page and the
geometry of `Roads` side by side over the same list of roads.

**Two levels.** `GameServer` has one action for a whole handler. That is what the strand
is for, and `ApiStrand` is where it is shown: `OneAtATime` says that handlers and ticks
never overlap. `ApiStrand` in turn leaves out what a handler does to the game.

**Two abstract specifications.** `DogPark` knows no sessions, tokens, requests or
indexes: dogs appear at rest on a street of a map, are turned, and run ahead along one street
until its end. `Park` in `GameServer` maps each dog to its place, heading and whether it
runs, and the map of a dog to that of its player's session. `HandlerQueue` knows no threads:
handlers begin in the order they were submitted, one at a time, and come to their end
while the process lives. `Strand` in `ApiStrand` puts together `ready`, `waiting` and the
handlers on their way into one queue.

**Positions.** The config has integers, the program walks in doubles. `Roads` has a
grid with `Cell` steps per unit, and `Width` steps for the 0.4 of `Road::width`. On the
grid all borders are exact; the rounding of doubles is not modelled. Speeds are grid
steps per time unit; the division by 1000 in `UpdateDogLocation` is in that unit.

**`std::set::find` with a location** is modelled by its definition: the first road that
is not before the location, kept if the location is not before it. What an
implementation of a search tree returns when the comparators are inconsistent is not
modelled; `IndexPartitioned` shows that on well-formed lists they are consistent at every
location: the roads before it come first, those it is before come last, and none is both,
so that a descent of the tree ends where the definition says. *Well-formed* is what `README.md:56` calls a logical list of roads: every road
has a length, and two roads of one orientation on one line share at most an end. The
split street that the same line complains about is allowed.

**State of `GameServer`.** `nextId` is `Zoo::next_id_`; `dogs` the Dog objects;
`sessions` and `dogsOf` are `Game::game_sessions_` and `GameSession::dogs_`; `player`,
`players` and `playersOf` the Player objects and `PlayerLibrary`'s two maps. A dog's id is
its player's. `Game::UpdateOnTime` goes over the sessions and each walks the dogs of its own
`dogs_` with its own map; the model goes over the dogs, and `SessionOf` is the session
whose `dogs_` holds one. Each handler is an action; the checks it begins with are an operator
named `...Verdict`, which gives the first error in the order of the code, and the status
follows by `ErrorHandle`. Bodies are classes: `"unreadable"` is what makes Boost.JSON
throw (answered 424 through the `catch (...)` of the caller). Names, JSON texts, and
the answer's body are left out. The method `OS` stands for those that `CheckMethod`'s
substring search lets through.

**State of `ApiStrand`.** `queue` is the work the `io_context` may run, in order;
`locked`, `ready`, `waiting` are the implementation of an Asio strand
(external: one invoker at a time takes all that waits, and posts itself again for
what came meanwhile). A worker's `pc` is where in the call it is: `dispatch` is
`RequestHandler::operator()`, `invoke` and `handle` are inside the strand, `log` is
`LogResponse`. `frame` says whose request a worker has on its stack; a handler refers
into that frame. When it is gone, `HandleDeadRequest` allows what undefined
behaviour may do here: any answer, a write over another frame's `resp_info`, or a crash.
After a signal a worker finishes what it runs and takes nothing more.

**State of `HttpServer`.** Requests of a client are numbered. `handling`, `done` and
`writing` are sets of these numbers, so that nothing in the model keeps a session from doing
two things at a time. `expiry` is the deadline of Beast's `tcp_stream`: while it is
`"ahead"` operations go on, when it is `"over"` the one that is pending, or the next one,
fails. Handlers end in any order and at any time. `AcceptThrows` is
`remote_endpoint()` on a connection that was reset: on one of the `jthread`s the exception
ends the process; on main's thread it unwinds `RunWorkers`, which joins the others, and they
have no reason to return. `failed` remembers that the listener is dead.

**State of `KeyState`.** `held` is the keyboard, `pressedKeys` the page's idea of it; they
differ by the keys in `missed`: pressed before the page listened, or let go in
another window. `posts` are under way, oldest first; `Serve` takes any of them. `newest`
remembers what became of the one posted last, which is all that `KeysObeyed` needs.

**State of `GameState`.** A picture is the set of dogs in an answer of `/state` and the
moment of the game it shows. A poll is in `polls` or `lists` from its request to its answer,
`served` when the server has looked at the game for it. `currentState` and
`desiredState` are as in the code; `players` the ids with an actor, `shown` those whose
actor has been made visible, `ghosts` the ids that were deleted while their actor was
visible (`_deletePlayer` does not remove it from the scene). Scripts run one at a time, so a
callback and a frame are actions. `updateInProgress` is set and cleared within
one callback and never seen set; it is left out.

**`MapTiles`.** A tile is the set of sides at which a road leaves it. The textures are named
as in `loadRoadTiles`; `OpenSides` is what their pictures show, `Turn` what a quarter
turn around the vertical axis does in three.js.

A definition marked `(fault)` is not part of a model. It repeats the next
definition with one plausible mistake and is there to show that a property can tell the
difference; every checked property has one (`mutants` in `PROJECT.json`).

## 3. What is checked

| Run | Module | Shows |
|---|---|---|
| `game` | MCGameServer | two players, two maps, two tokens that may repeat, every kind of request: `StateMatchesPlayers`, `TokenLeadsToFirst`, `PlayerListServed`, `SpeedFollowsDirection`, `LockedOutStaysPut`, `StopsOnlyAtBorder`, and `KeepsPromise` (refinement of `DogPark`) |
| `movement` | MCGameServer | one dog, random spawn, timer: `NeverStranded`, `StaysOnOneRoad`, `RunsOutOfRoad`, `RestEventually` (liveness) and `KeepsPromise` |
| `lookup` | RoadList | all well-formed lists of up to two roads on a 3 x 3 lattice: `FindExact`, `IndexPartitioned`, `TickSplit` |
| `strand_one` | ApiStrand | one worker: `RequestOutlivesHandler`, `LogMatchesResponse` |
| `strand_many` | ApiStrand | two workers: `OneAtATime`, `WorkInOnePlace`, `EveryRequestAnswered`, `TicksGoOn` (the last two liveness), and `ServesInOrder` (refinement of `HandlerQueue`, with its fairness) |
| `http` | HttpServer | two clients, two threads: `AnswersInOrder`, `AtMostOneUnanswered`, `Accepted` and `SessionsEnd` (the last two liveness) |
| `keys` | KeyState | three keys, three posts under way: `KeysObeyed` |
| `client` | GameState | a page, two other players, two polls of each kind under way: `NeverBroken`, `NoGhosts`, `PageCatchesUp` (liveness) |
| `tiles` | MapTiles | all well-formed maps of up to three roads on a 3 x 3 lattice: `TilesMeet`, `OpenWhereDogsWalk`, `TilesDrawn` |
| `backward` | MCGameServer | **violated**: `NeverStranded` with a negative `timeDelta` |
| `strand_dangling` | ApiStrand | **violated**: `RequestOutlivesHandler` with two workers |
| `strand_log` | ApiStrand | **violated**: `LogDrawsFromResponse` with two workers |

### The disagreements found

1. `CheckTimeTick` (`info_holders.cpp:40-42`) accepts a negative `timeDelta`. The dog
   walks backwards, only the border ahead is compared, and it ends off the roads, where it
   stays for ever. `README.md:60` says that such a move must come up against the border.
2. With more than one thread, a handler that found the strand busy runs after the frame
   with its `RequestInfo` is gone (`request_handler.h:57-69`). `README.md:126,132` say
   that the class works through the mutex, with the strand code commented out; the
   code has it the other way round, and with the mutex the frame would have been there.
   `ON_FUTURE.txt:8-9` records crashes of this kind.
3. With more than one thread the logger writes the line of a request that is not answered
   yet (`server_logger.h:44`): an API request that finds a tick of the timer in the strand is
   queued, its call returns, and the line is drawn from the `resp_info` that nobody has
   filled. `README.md:133` has the logger draw its information from the response.

### What the code does that the properties have to say

* *Split streets stop dogs that the page lets go on.* Where one road ends and another of
  its line begins, the page draws the way open, but `FindRoads` gives the road that ends
  there, and its border, 0.4 past the joint, stops a dog that heads down or right
  (`model.cpp:101-102,119-120`). Nor does a later move take it on: on the border the search
  still gives the road that ends. The `town` map of `data/config.json`
  has three such joints: (20,30) and (30,30) on streets that run down, (20,40) on one that runs
  right. `README.md:56` knows of split streets and keeps its argument to lists without them,
  so no document is contradicted; `OpenWhereDogsWalk` says that page and server agree
  everywhere but at the joints (`Ends`), and disagree there. For the same reason the tick
  matters on such streets to dogs that head up or left: a tick over the joint stops at the
  border of the second road, one that ended within it does not. `TickSplit` excepts that
  (`Unjointed`).
* *One start time for all.* `start_time` is a member of the logging handler
  (`server_logger.h:18`): with several threads a later request overwrites it before an
  earlier one's line is written. `LogMatchesResponse` is checked for one worker, where it
  cannot happen.
* *Dead ends and junctions are drawn mirrored.* `makeRoadTile` counts the quarter turns of
  tiles with one or three open sides clockwise (`game.js:320,340`), those of corners
  counter-clockwise, as three.js does (`game.js:334`). A street that ends to the right is
  drawn as ending to the left. No comment or document speaks of it; `TilesDrawn`
  states exactly which tiles are drawn wrong.
* *An old list of players leaves ghosts.* `playersSuncInProgress` is cleared before the
  answer is there (`game.js:177`), so polls of `/players` overlap. If an older list arrives
  later, a player is deleted, its visible actor stays on the scene, and a second one
  is made when the next list comes. `NoGhosts` has the premise that no poll was overtaken.
* *A lost first poll is not sent again.* There is no `.fail` (`game.js:79-86`): the game
  never starts. `PageCatchesUp` excepts it (`Stuck`).
* *An old answer may be drawn over a newer one* (`game.js:248`), and nothing stops it: the
  picture may go back in time for a while, and `PageCatchesUp` says that it does not stay so.
* *A failed or throwing accept ends the listener or the process* (`http_server.h:186,197`);
  `Accepted` holds until then, `SessionsEnd` and `AtMostOneUnanswered` also afterwards.
* *A lost move is not sent again*, nor does the page notice that the window lost the
  focus: `KeysObeyed` has the premises `newest = "served"` and `missed = {}`.

### Bounds, and why they are enough

* `game`: `MaxDogs = 2` gives two players on one map, on two maps, and with one token. The
  maps are a crossing and a corner: at both a dog is on two roads, of which
  the wrong one would stop it. Speeds 6 and 9 differ, so that a dog with the other
  map's speed would show; 6 stops inside a road and 9 beyond its end. `Moves` are right
  and down, as the `movement` run has all directions. Tokens are symmetric: the model
  only compares them.
* `movement`: a split street with a lane at the joint and a bend at its end; with speed 7
  the dog is stopped at borders and also reaches many points between.
* `lookup`: the comparators look at two roads at a time, and
  a search that goes wrong does so because of two roads whose order and whose places
  before and behind the location disagree (`IndexPartitioned`); so two roads and the coordinates 0..2 give every relative position of two roads
  (crossing, touching, joint, side by side, apart). Points are taken on each axis, border
  and just outside, which are all the cases comparisons can tell apart. The theorems
  `FindIsExact`, `LookupPartitions` and `PeriodIrrelevant` have no bound.
* `strand_*`: with two workers one can be inside the strand while another dispatches, and
  with two connections and the timer the strand's `waiting` holds more than one handler. A
  third worker adds no new place from which to meet the strand; the proofs have no bound
  on workers or connections.
* `http`: three requests are one that is answered, one that is handled or written, and one
  sent ahead. Sessions meet only in the listener and in the process, for which two clients are
  enough; of two threads one is main's, as an exception there and elsewhere differ.
* `keys`: three keys are one to press, one before and one after it in the list; of three posts
  the oldest, the newest and one between can be served last.
* `client`: two other players join one by one, so that a list can lack a dog of the picture
  and a picture a player of the list; two polls of a kind are what is needed to overtake;
  one more moment of the game tells an old picture of the same players from a new one.
  `playersUpdateInterval` is 2 for 50: frames with and without a poll of `/players` alternate.
* `tiles`: a tile has at most four open sides, from at most two roads that cross or up to
  four that end there; with three roads on nine places all ten kinds of tile occur but the
  one that needs four ends, which is the same tile as that of a crossing.
* `CHECK_DEADLOCK FALSE` is set in `lookup` and `tiles` (the list is full), in the strand's
  runs (a stopped or crashed process does nothing) and in `http` (the same).

### Fairness

* `GameServer`: weak fairness of `UpdateOnTick` only, because the ticker schedules itself
  after every tick, which `TicksGoOn` shows in `ApiStrand`. No client is obliged to do
  anything. `RestEventually` uses it: a dog that nobody steers any more comes to rest.
* `ApiStrand`: weak fairness of each worker's `Step` (a thread that has something to run
  runs it), of the completion of a write and of the timer. Requests and signals need
  not come. That the writes complete is an assumption on the network; without it a
  connection is just not used again, and no property depends on that for another one.

* `HttpServer`: weak fairness of the accept, of the completion of reads and writes that are
  over, of the answer of a handler (`EveryRequestAnswered` in `ApiStrand`) and of time
  (`Expire`). No client is obliged to send, to read or to leave: a write to one that does
  not read completes only by its time.
* `GameState`: weak fairness of the frames and of loading; strong fairness of
  serving and of arriving, each taken over all polls of a kind: single polls may be lost,
  but of polls sent for ever not all are. Without it a page whose network is dead would
  refute `PageCatchesUp`.
* `KeyState` has safety only.

## 4. What is proved

TLAPS proves the following for all values of the constants (all maps, tokens, numbers of
players, workers and connections), from the named assumptions of the modules.

* `RoadsProofs`: `LookupExact` (on a well-formed list the two indexes find a road of an
  orientation exactly where there is one, and one that covers the point),
  `UpdateStaysOnOneRoad` and `UpdateKeepsDog` (a step of the clock keeps a dog
  on a road it was on, whatever the time, as long as time and speed are not negative), and
  `UpdateSplits` (one tick is two that last as long together). The last one needs that
  the road whose border stops a dog is the same at every point of its walk (`ColumnKept`,
  `RowKept`). For a dog that heads down or right it is, on every list: of the roads
  along its heading that cover a point the search finds the one that ends first
  (`FirstColumn`, `FirstRow`), and a dog on its way towards that end stays on it. For one
  that heads up or left it is so where no road continues another (`Unjointed`), because two
  roads of an orientation that cover one point are then the same (`OneColumnAt`,
  `OneRowAt`); on a split street it is not, and the period matters.
* `RoadListProofs`: `LookupPartitions`, `FindIsExact`, `PeriodIrrelevant`, `PageShowsWays`,
  `TilesFit`, `TilesAreDrawn`. None of the properties is inductive; the
  invariant is that the index is what `Roads` defines from the whole list
  (`IndexMatchesList`) and that the list is well-formed.
  `LookupPartitions` has a lemma for each comparator (`RowsPartition`, `ColumnsPartition`):
  a road before another lies above it or, on one line, ends where the other begins at the
  latest, because `2 * Width < Cell` and roads of one line share at most an end.
  `PeriodIrrelevant` is `UpdateSplits` on such a list, with its premise for dogs that head up
  or left. `TilesFit` and `PageShowsWays` are about the page's tiles of every map that
  `AddRoads` can build: where a road leaves a tile it enters the next, and a dog walks on to
  the next tile exactly where its tile is open and no road along its heading ends in it
  (`Ends`). No premise keeps split streets out. The argument is that the road found is the
  one that ends first, so that the border ahead is within the tile exactly
  if a road ends there, and that its border is otherwise the only
  one within a tile (`OneTile`). `TilesAreDrawn` says which tiles the page draws as they
  are and which mirrored: a tile that the list can give has one of the sixteen sets of
  sides, and for each size of the set the table of `makeRoadTile` is compared with what
  the quarter turns make of the picture (`TileDrawn`).
* `GameServerProofs`: `TypeCorrect`, `ListsAgree`, `TokenKeepsPlayer`, `SpeedIsMaps`,
  `ListNeverRefused`. The inductive invariant is `TypeOK` with the
  first three properties: a tick needs `StateMatchesPlayers` to know that the session
  in which it finds a dog is its player's, so that its roads and speed are that map's.
  `StepKinds` first reduces all handlers to four effects: nothing, a join, a change of one
  dog's direction, a lapse of time; the rest of the proof speaks of those.
  `NobodyStranded` and `OneRoadAtATime` add three premises, which are what the code
  relies on: `TimeForward` (no negative `timeDelta`; `backward` shows it is needed),
  `SpeedsForward` (speeds that are not negative), `SpawnsOnRoads` (random spawn, or a map
  with a road at (0, 0)). `StopsAtBorders` has one premise, `RoadsLogical`: the roads of each
  map are well formed, as the README asks. It rests on `NoColumnOnward` and `NoRowOnward`: a
  road that covered both the place where a dog stops and the one ahead would overlap the
  dog's own or continue it, because `2 * Width < Cell`.
  `SecondHolderStaysPut`: a player whose token leads to another is locked out for good. His
  dog is never turned, because a move goes to the player that `players` gives for the
  token, and insert never puts a later one there; that no tick moves it needs
  that it never ran, and `StillStays` that the clock leaves a standing dog where it is.
  `NobodyRunsForever` has all four premises and is the safety half of `RestEventually`: each
  tick in which time passes stops a running dog or lessens its distance to the edge of the
  map that it faces (`RoomAhead`, a natural number as long as it is on a road). It needs
  `LookupExact`: a road that the search missed would leave a dog running on the spot.
  `RunnersNearEdge` is the same for any edge outside the roads.
* `ApiStrandProofs`: `TypeCorrect` and `HandlersExclude`, for any number
  of threads. The invariant adds to them that the invoker is posted at most once,
  that while it is posted nobody is in the strand, and that the strand is locked exactly
  while one of the two is the case (`StrandAwake`). `SingleThreadReferences` and
  `SingleThreadLog` have the premise of one worker: its invariant (`SingleInv`) says that
  the strand is then always free when a request is dispatched, so that nothing is queued.

  `StrandImplementsQueue` shows that its steps are steps of `HandlerQueue` or stutter, for
  any number of threads and handlers; the invariant it needs is `IInv` of the first two.

  `NothingLostOrTwice` counts the places of a handler: in the `io_context`, with a thread that has
  taken it and not yet entered the strand, in the strand's two lists, or run by a thread. The
  invariant is `IInv` with `Kept`, for each handler: it is nowhere twice, no two of the
  places hold it, and some place does exactly when it is due. That two threads never have
  the same request is no consequence of the strand's lock, which they have not yet asked for;
  it follows from the queue's holding it once.
* `DogParkProofs`: `ServerKeepsPromise`, that every step of `GameServer` is one of
  `DogPark` or a stutter, on every set of maps and under the three premises above. A join
  is `Appear`, a move `Turn`, a tick of either kind `Lapse`; the invariant is that of
  `GameServerProofs` with `NeverStranded`, and the walk of a dog is `UpdateStaysOnOneRoad`
  with the fact that a dog that stops does so at the border ahead.
* `HttpServerProofs`: `TypeCorrect`, `OrderKept`, `OneUnanswered`, for any number of
  clients, threads and requests. The invariant says which of five things a session is doing
  (`Before` it is opened, `Reads`, `Handles`, `Writes`, `After` it ended) and for each how
  many requests were taken, done and answered; none of the three properties is inductive
  without it, as an answer that arrives is the next only if nothing else was under way.
* `KeyStateProofs`: `TypeCorrect` and `DogObeys`, for any keys and any number of posts. The
  invariant relates the keyboard to the page (`PageKnows`: off the keys whose events the
  page missed both hold the same keys in the same order) and the page to the newest
  post (`NewestSays`); `Deaf` covers the page before it listens.
* `GameStateProofs`: `TypeCorrect`, `NoFrameThrows`, `NobodyOrphaned`, for any number of
  players and polls. `Follows` says that `currentState` is `desiredState` between frames
  once the game was started; `Growing` that, until a poll of `/players` overtakes another,
  the lists under way grow from each to the next, between what the page shows and the
  session's players.

### Only model-checked

`RestEventually`, `EveryRequestAnswered`, `TicksGoOn`, `Accepted`, `SessionsEnd`,
`PageCatchesUp` and the fairness half of `ServesInOrder` are liveness, which
TLAPS cannot prove here (fairness needs ENABLED). What can be said of them without fairness is
proved: `NothingLostOrTwice` for the strand, `NobodyRunsForever` for
`RestEventually`. Every invariant and every action property that a passing run checks is
a theorem. No module has a RECURSIVE operator, and no theorem is about induction over data.

## 5. What is not modelled, and why

* Rounding of doubles, and time in milliseconds: the model's grid is exact. The
  truncation in `OnTick` and the narrowing to `int` in `UpdateOnTick` are hazards without a
  property.
* The race on `base_path_` (`request_handler.cpp:30`): every file request assigns the same
  path, so what can go wrong happens inside `std::filesystem::path`. The rest of the static
  files is a function from a target to a file and has no state.
* Where a dog is drawn between two answers (`_interpolateState`, the rotation in
  `_applyDesiredState`): real numbers and the clock. `GameState` keeps of them what can go
  wrong in its control: which ids are looked up in which state.
* The camera, the lights, the materials and the animation of `game.js`.
* `TeamTasks` (`src/main.cpp`): an exercise that no part of the game uses.
* Buildings, offices, names, JSON texts, log formats: data that no decision of the server
  depends on. The config loader and the command line end the program on an error before
  anything is served.
* Third-party code (Boost; three.js with its loaders, controls and SkeletonUtils in
  `static/js`, some 46,000 lines that are kept in the repository unchanged; jQuery; js-cookie)
  and build files. Of the repository's scripts, `game.js` and `game_map.js` are its own.

## 6. Plan

Done, in this order: `Roads`, `RoadList`, `GameServer`, `ApiStrand` with their runs and
proofs; `HandlerQueue` and `DogPark` with the refinements and their proofs; `KeyState`,
`GameState`, `HttpServer`, `MapTiles` and their proofs.

What would come next: the conversion of a target to a file in `request_handler.cpp` as a function on
small paths; `HttpServer` and `ApiStrand` composed, once the handlers own their requests.
