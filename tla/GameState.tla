------------------------------ MODULE GameState ------------------------------
(***************************************************************************)
(* The page that shows the game: class GameState of game.js with the loop  *)
(* that draws the frames, the polls it sends and the session on the server *)
(* it asks for.  Scripts run one at a time: an action is one frame or one  *)
(* answer's callback.  Answers come in any order, or not at all.           *)
(*                                                                         *)
(* Where a dog is drawn between two answers is left out: a picture is the  *)
(* set of dogs in it and the moment of the game it shows.                  *)
(*                                                                         *)
(* A definition marked (fault) is no part of the model: it is the next one *)
(* with a mistake in it, that a property below tells from the real one.    *)
(***************************************************************************)
EXTENDS Integers, Sequences, SequencesExt

CONSTANTS
  Me,                     \* the id of the player at this page
  Others,                 \* the ids of the players who may join the session
  MaxMoment,              \* bound on the moments of the game
  MaxPolls,               \* bound on the polls of each kind under way at a time
  playersUpdateInterval   \* frames between two polls of /players (50 in the code)

ASSUME PageAssumption ==
  /\ Me \notin Others
  /\ MaxMoment \in Nat /\ MaxPolls \in Nat
  /\ playersUpdateInterval \in Nat \ {0}

VARIABLES
  roster, moment,          \* the session on the server: its players, and its time
  polls, lists,            \* the polls of /state and of /players under way, oldest first
  overtaken,               \* a poll of /players was overtaken by a later one
  loadedActor, gameState,  \* the model of a dog is loaded; the GameState is made
  stateLoaded, playersLoaded, started, ticks, playersSuncInProgress,
  desiredState, currentState,
  players,                 \* GameState.players: the ids that have an actor
  shown,                   \* those of them whose actor is visible
  ghosts,                  \* ids that were taken off players with a visible actor
  broken                   \* a frame threw an exception: no further one is drawn

session == <<roster, moment>>
loading == <<loadedActor, gameState, stateLoaded, playersLoaded, started>>
actors  == <<players, shown, ghosts>>
vars    == <<session, polls, lists, overtaken, loading, ticks, playersSuncInProgress,
             desiredState, currentState, actors, broken>>

Ids == {Me} \cup Others

Pictures == [ids : SUBSET Ids, moment : 0 .. MaxMoment]

\* What desiredState and currentState are before the first answer.
Undefined == [ids |-> {}, moment |-> -1]

Unserved == [served |-> FALSE, picture |-> Undefined]

Polls == [served : {TRUE}, picture : Pictures] \cup {Unserved}

\* Every variable has its type; an actor is visible or not, and known.
TypeOK ==
  /\ roster \subseteq Ids /\ moment \in 0 .. MaxMoment
  /\ polls \in Seq(Polls) /\ Len(polls) <= MaxPolls
  /\ lists \in Seq(Polls) /\ Len(lists) <= MaxPolls
  /\ {overtaken, loadedActor, gameState, stateLoaded, playersLoaded, started,
      playersSuncInProgress, broken} \subseteq BOOLEAN
  /\ ticks \in 0 .. playersUpdateInterval - 1
  /\ desiredState \in Pictures \cup {Undefined}
  /\ currentState \in Pictures \cup {Undefined}
  /\ players \subseteq Ids /\ shown \subseteq players /\ ghosts \subseteq Ids

\* The page is opened after its player joined; others may be there already.
Init ==
  /\ roster \in {{Me} \cup others : others \in SUBSET Others}
  /\ moment = 0
  /\ polls = <<>> /\ lists = <<>> /\ overtaken = FALSE
  /\ loadedActor = FALSE /\ gameState = FALSE
  /\ stateLoaded = FALSE /\ playersLoaded = FALSE /\ started = FALSE
  /\ ticks = 0 /\ playersSuncInProgress = FALSE
  /\ desiredState = Undefined /\ currentState = Undefined
  /\ players = {} /\ shown = {} /\ ghosts = {}
  /\ broken = FALSE

-----------------------------------------------------------------------------
(* The server and the network.                                             *)

Now == [ids |-> roster, moment |-> moment]

\* Another player joins, or the game goes on.
Live ==
  /\ \/ \E id \in Others \ roster : roster' = roster \cup {id} /\ UNCHANGED moment
     \/ moment < MaxMoment /\ moment' = moment + 1 /\ UNCHANGED roster
  /\ UNCHANGED <<polls, lists, overtaken, loading, ticks, playersSuncInProgress,
                 desiredState, currentState, actors, broken>>

Served == [served |-> TRUE, picture |-> Now]

\* GameState_Request and PlayerList_Request are handled.
ServeState(i) ==
  /\ ~polls[i].served
  /\ polls' = [polls EXCEPT ![i] = Served]
  /\ UNCHANGED <<session, lists, overtaken, loading, ticks, playersSuncInProgress,
                 desiredState, currentState, actors, broken>>

ServeList(i) ==
  /\ ~lists[i].served
  /\ lists' = [lists EXCEPT ![i] = Served]
  /\ overtaken' = (overtaken \/ \E j \in 1 .. i - 1 : ~lists[j].served)
  /\ UNCHANGED <<session, polls, loading, ticks, playersSuncInProgress,
                 desiredState, currentState, actors, broken>>

\* The request or its answer is lost, or the answer is an error.  There is no .fail.
LosePoll ==
  /\ \/ \E i \in DOMAIN polls : polls' = RemoveAt(polls, i) /\ UNCHANGED lists
     \/ \E i \in DOMAIN lists : lists' = RemoveAt(lists, i) /\ UNCHANGED polls
  /\ UNCHANGED <<session, overtaken, loading, ticks, playersSuncInProgress,
                 desiredState, currentState, actors, broken>>

-----------------------------------------------------------------------------
(* The callbacks.                                                          *)

\* _applyDesiredState: the new picture, of the dogs of desiredState.
ApplyDesiredState == currentState' = desiredState'

\* (fault) A dog of the picture is put in place whether it has an actor or not.
InstantApplyStateAll == shown' = (shown \cap players') \cup currentState'.ids

\* _instantApplyState: the actors of the picture's dogs are put in place.
InstantApplyState ==
  shown' = (shown \cap players') \cup (currentState'.ids \cap players')

\* (fault) The first picture is left to the first frame.
StartGameWithoutPicture ==
  IF started \/ ~stateLoaded' \/ ~playersLoaded'
  THEN UNCHANGED <<started, currentState>> /\ shown' = shown \cap players'
  ELSE started' = TRUE /\ shown' = shown \cap players' /\ UNCHANGED currentState

\* _startGame: with both first answers, the first picture.
StartGame ==
  IF started \/ ~stateLoaded' \/ ~playersLoaded'
  THEN UNCHANGED <<started, currentState>> /\ shown' = shown \cap players'
  ELSE started' = TRUE /\ ApplyDesiredState /\ InstantApplyState

\* The answer of a poll of /state: the first may start the game, the others are drawn.
ArriveState(i) ==
  /\ polls[i].served
  /\ polls' = RemoveAt(polls, i)
  /\ desiredState' = polls[i].picture
  /\ UNCHANGED <<players, ghosts, playersLoaded>>
  /\ IF ~stateLoaded
     THEN stateLoaded' = TRUE /\ StartGame
     ELSE ApplyDesiredState /\ InstantApplyState /\ UNCHANGED <<stateLoaded, started>>
  /\ UNCHANGED <<session, lists, overtaken, loadedActor, gameState, ticks,
                 playersSuncInProgress, broken>>

\* (fault) The list of all players is a list of the new ones.
UpdatePlayersListNew(ids) ==
  /\ players' = ids \ players
  /\ ghosts' = ghosts \cup (shown \ players')

\* _updatePlayersList: _addPlayer for the new ids, _deletePlayer for those that are gone.
\* The actor of a deleted player is not taken off the scene.
UpdatePlayersList(ids) ==
  /\ players' = ids
  /\ ghosts' = ghosts \cup (shown \ ids)

\* The answer of a poll of /players.
ArriveList(i) ==
  /\ lists[i].served
  /\ lists' = RemoveAt(lists, i)
  /\ UpdatePlayersList(lists[i].picture.ids)
  /\ playersLoaded' = TRUE
  /\ UNCHANGED <<stateLoaded, desiredState>>
  /\ IF ~playersLoaded
     THEN StartGame
     ELSE shown' = shown \cap players' /\ UNCHANGED <<started, currentState>>
  /\ overtaken' = (overtaken \/ i # 1)
  /\ UNCHANGED <<session, polls, loadedActor, gameState, ticks, playersSuncInProgress, broken>>

-----------------------------------------------------------------------------
(* The loop that draws.                                                    *)

\* _updateState.
UpdateState ==
  /\ Len(polls) < MaxPolls
  /\ polls' = Append(polls, Unserved)

\* (fault) The flag is left set.
SyncPlayersHoldsFlag ==
  /\ Len(lists) < MaxPolls
  /\ lists' = Append(lists, Unserved)
  /\ playersSuncInProgress' = TRUE

\* _syncPlayers: its flag is cleared before the answer is there.
SyncPlayers ==
  /\ Len(lists) < MaxPolls
  /\ lists' = Append(lists, Unserved)
  /\ playersSuncInProgress' = FALSE

LoadActor ==
  /\ ~loadedActor /\ loadedActor' = TRUE
  /\ UNCHANGED <<session, polls, lists, overtaken, gameState, stateLoaded, playersLoaded,
                 started, ticks, playersSuncInProgress, desiredState, currentState, actors,
                 broken>>

\* _interpolateState walks over the dogs of desiredState and looks each up in
\* currentState: it throws when one is not there, or when there is no desiredState.
Interpolates == desiredState # Undefined /\ desiredState.ids \subseteq currentState.ids

Tick == ticks' = (ticks + 1) % playersUpdateInterval

\* The first frame with isReady(): the constructor of GameState, and its first tick.
FirstFrame ==
  /\ loadedActor /\ ~gameState /\ gameState' = TRUE
  /\ UpdateState /\ SyncPlayers /\ Tick
  /\ UNCHANGED <<session, overtaken, loadedActor, stateLoaded, playersLoaded, started,
                 desiredState, currentState, actors, broken>>

\* A frame before the game has started.
IdleFrame ==
  /\ gameState /\ ~started /\ Tick
  /\ UNCHANGED <<session, polls, lists, overtaken, loading, playersSuncInProgress,
                 desiredState, currentState, actors, broken>>

\* tick() of a game that has started; an exception in it ends the loop.
GameFrame ==
  /\ started /\ ~broken /\ Tick
  /\ UpdateState
  /\ IF ticks' = 0 /\ ~playersSuncInProgress
     THEN SyncPlayers ELSE UNCHANGED <<lists, playersSuncInProgress>>
  /\ UNCHANGED <<players, ghosts, currentState>>
  /\ IF Interpolates
     THEN InstantApplyState /\ UNCHANGED broken
     ELSE broken' = TRUE /\ UNCHANGED shown
  /\ UNCHANGED <<session, overtaken, loading, desiredState>>

Frame == FirstFrame \/ IdleFrame \/ GameFrame

Next ==
  \/ Live
  \/ LoadActor
  \/ Frame
  \/ \E i \in DOMAIN polls : ServeState(i)
  \/ \E i \in DOMAIN lists : ServeList(i)
  \/ \E i \in DOMAIN polls : ArriveState(i)
  \/ \E i \in DOMAIN lists : ArriveList(i)
  \/ LosePoll

\* Frames are drawn while the page is open, and of polls sent again and again not all are
\* lost: infinitely many are handled, and of those infinitely many answers arrive.
Fairness ==
  /\ WF_vars(LoadActor) /\ WF_vars(Frame)
  /\ SF_vars(\E i \in DOMAIN polls : ServeState(i))
  /\ SF_vars(\E i \in DOMAIN lists : ServeList(i))
  /\ SF_vars(\E i \in DOMAIN polls : ArriveState(i))
  /\ SF_vars(\E i \in DOMAIN lists : ArriveList(i))

Spec == Init /\ [][Next]_vars /\ Fairness

-----------------------------------------------------------------------------
(* Properties.                                                             *)

\* No frame ever throws, whichever of the two first answers comes first and however
\* late or overtaken the others are: desiredState never holds a dog of which
\* currentState knows nothing.
NeverBroken == ~broken

\* As long as no poll of /players overtakes another, no dog stays on the scene that
\* belongs to nobody.
NoGhosts == ~overtaken => ghosts = {}

\* One of the two first polls is lost: they are never sent again.
Stuck ==
  /\ gameState
  /\ \/ ~stateLoaded /\ polls = <<>>
     \/ ~playersLoaded /\ lists = <<>>

\* The page ends up showing all the players and the game as it is, if it started, though
\* nothing stops an old answer from being drawn over a newer one.
PageCatchesUp == <>[](Stuck \/ (currentState = Now /\ shown = roster))
=============================================================================
