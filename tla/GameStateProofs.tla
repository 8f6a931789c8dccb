-------------------------- MODULE GameStateProofs --------------------------
(***************************************************************************)
(* The page with any number of players and of polls under way: no frame    *)
(* throws, and no dog is left on the scene but by polls that overtake.     *)
(***************************************************************************)
EXTENDS GameState, SequenceTheorems, TLAPS

\* What taking one element out of a sequence leaves.
LEMMA RemoveAtProperties ==
  ASSUME NEW S, NEW s \in Seq(S), NEW i \in 1 .. Len(s)
  PROVE  /\ RemoveAt(s, i) \in Seq(S)
         /\ Len(RemoveAt(s, i)) = Len(s) - 1
         /\ \A j \in 1 .. Len(s) - 1 : RemoveAt(s, i)[j] = IF j < i THEN s[j] ELSE s[j + 1]
<1> DEFINE before == SubSeq(s, 1, i - 1)
           after  == SubSeq(s, i + 1, Len(s))
<1>1. Len(s) \in Nat /\ \A j \in 1 .. Len(s) : s[j] \in S
  BY LenProperties, ElementOfSeq
<1>2. /\ before \in Seq(S)
      /\ Len(before) = i - 1
      /\ \A j \in 1 .. i - 1 : before[j] = s[j]
  <2>1. 1 \in Int /\ i - 1 \in Int /\ \A j \in 1 .. i - 1 : s[j] \in S
    BY <1>1
  <2>2. /\ before \in Seq(S)
        /\ Len(before) = IF 1 <= i - 1 THEN i - 1 - 1 + 1 ELSE 0
        /\ \A j \in 1 .. i - 1 - 1 + 1 : before[j] = s[1 + j - 1]
    BY <2>1, SubSeqProperties
  <2> QED
    BY <2>2, <1>1
<1>3. /\ after \in Seq(S)
      /\ Len(after) = Len(s) - i
      /\ \A j \in 1 .. Len(s) - i : after[j] = s[j + i]
  <2>1. i + 1 \in Int /\ Len(s) \in Int /\ \A j \in i + 1 .. Len(s) : s[j] \in S
    BY <1>1
  <2>2. /\ after \in Seq(S)
        /\ Len(after) = IF i + 1 <= Len(s) THEN Len(s) - (i + 1) + 1 ELSE 0
        /\ \A j \in 1 .. Len(s) - (i + 1) + 1 : after[j] = s[i + 1 + j - 1]
    BY <2>1, SubSeqProperties
  <2> QED
    BY <2>2, <1>1
<1>4. /\ before \o after \in Seq(S)
      /\ Len(before \o after) = Len(before) + Len(after)
      /\ \A j \in 1 .. Len(before) + Len(after) :
           (before \o after)[j] = IF j <= Len(before) THEN before[j] ELSE after[j - Len(before)]
  BY <1>2, <1>3, ConcatProperties
<1>5. RemoveAt(s, i) = before \o after
  BY DEF RemoveAt
<1> HIDE DEF before, after
<1>6. ASSUME NEW j \in 1 .. Len(s) - 1
      PROVE  RemoveAt(s, i)[j] = IF j < i THEN s[j] ELSE s[j + 1]
  <2>1. CASE j < i
    BY <2>1, <1>1, <1>2, <1>3, <1>4, <1>5
  <2>2. CASE ~(j < i)
    <3>1. /\ j - (i - 1) \in 1 .. Len(s) - i /\ j - (i - 1) + i = j + 1
          /\ j \in 1 .. Len(before) + Len(after) /\ ~(j <= Len(before))
      BY <2>2, <1>1, <1>2, <1>3
    <3>2. after[j - (i - 1)] = s[j + 1]
      BY <3>1, <1>3
    <3> QED
      BY <2>2, <3>1, <3>2, <1>2, <1>4, <1>5
  <2> QED
    BY <2>1, <2>2
<1>7. RemoveAt(s, i) \in Seq(S) /\ Len(RemoveAt(s, i)) = Len(s) - 1
  <2>1. Len(before) + Len(after) = Len(s) - 1
    BY <1>1, <1>2, <1>3
  <2> QED
    BY <2>1, <1>4, <1>5, Zenon
<1> QED
  BY <1>6, <1>7, Zenon

\* desiredState is there from the first answer, and currentState follows it from the start.
Follows ==
  /\ ~broken
  /\ stateLoaded => desiredState \in Pictures
  /\ started => stateLoaded /\ playersLoaded /\ currentState = desiredState

\* The lists of players under way are served in order and grow from each to the next.
InOrder(ps) ==
  \A i, j \in DOMAIN ps :
    i < j /\ ps[j].served => ps[i].served /\ ps[i].picture.ids \subseteq ps[j].picture.ids

Between(lower, ps, upper) ==
  \A i \in DOMAIN ps :
    ps[i].served => lower \subseteq ps[i].picture.ids /\ ps[i].picture.ids \subseteq upper

Growing ==
  ~overtaken =>
    ghosts = {} /\ players \subseteq roster /\ InOrder(lists) /\ Between(players, lists, roster)

IInv == TypeOK /\ Follows /\ Growing

\* What is known of a poll.
LEMMA PollType ==
  ASSUME NEW ps \in Seq(Polls), NEW i \in DOMAIN ps
  PROVE  /\ ps[i] \in Polls
         /\ ps[i].served \in BOOLEAN
         /\ ps[i].served => ps[i].picture \in Pictures
<1>1. ps[i] \in Polls
  BY ElementOfSeq, LenProperties
<1>2. CASE ps[i] \in [served : {TRUE}, picture : Pictures]
  BY <1>1, <1>2
<1>3. CASE ps[i] = Unserved
  BY <1>1, <1>3 DEF Unserved
<1> QED
  BY <1>1, <1>2, <1>3 DEF Polls

LEMMA InitInv == Init => IInv
<1> SUFFICES ASSUME Init PROVE IInv
  OBVIOUS
<1>1. TypeOK
  <2>1. <<>> \in Seq(Polls) /\ Len(<<>>) = 0
    BY EmptySeq
  <2>2. roster \subseteq Ids /\ moment \in 0 .. MaxMoment
    BY PageAssumption DEF Init, Ids
  <2>3. {overtaken, loadedActor, gameState, stateLoaded, playersLoaded, started,
         playersSuncInProgress, broken} \subseteq BOOLEAN
    BY DEF Init
  <2>4. ticks \in 0 .. playersUpdateInterval - 1 /\ 0 <= MaxPolls
    BY PageAssumption DEF Init
  <2>5. /\ desiredState = Undefined /\ currentState = Undefined
        /\ players \subseteq Ids /\ shown \subseteq players /\ ghosts \subseteq Ids
    BY DEF Init
  <2> QED
    BY <2>1, <2>2, <2>3, <2>4, <2>5 DEF Init, TypeOK
<1>2. Follows
  BY DEF Init, Follows
<1>3. Growing
  BY EmptySeq DEF Init, Growing, InOrder, Between
<1> QED
  BY <1>1, <1>2, <1>3 DEF IInv

-----------------------------------------------------------------------------
(* The polls under way.                                                    *)

\* One is answered, or lost.
LEMMA RemovePoll ==
  ASSUME NEW ps \in Seq(Polls), NEW i \in DOMAIN ps
  PROVE  /\ RemoveAt(ps, i) \in Seq(Polls)
         /\ Len(RemoveAt(ps, i)) = Len(ps) - 1
         /\ InOrder(ps) => InOrder(RemoveAt(ps, i))
         /\ \A lower, upper : Between(lower, ps, upper) => Between(lower, RemoveAt(ps, i), upper)
         /\ \A lower, upper :
              i = 1 /\ InOrder(ps) /\ Between(lower, ps, upper)
              => Between(ps[1].picture.ids, RemoveAt(ps, i), upper)
<1> DEFINE rest == RemoveAt(ps, i)
<1>1. Len(ps) \in Nat /\ DOMAIN ps = 1 .. Len(ps) /\ i \in 1 .. Len(ps)
  BY LenProperties
<1>2. /\ rest \in Seq(Polls) /\ Len(rest) = Len(ps) - 1
      /\ \A j \in 1 .. Len(ps) - 1 : rest[j] = IF j < i THEN ps[j] ELSE ps[j + 1]
  BY <1>1, RemoveAtProperties
<1>3. DOMAIN rest = 1 .. Len(ps) - 1
  BY <1>2, LenProperties
<1> HIDE DEF rest
<1> DEFINE old(j) == IF j < i THEN j ELSE j + 1
<1>4. ASSUME NEW j \in 1 .. Len(ps) - 1
      PROVE  old(j) \in 1 .. Len(ps) /\ rest[j] = ps[old(j)] /\ (i = 1 => old(j) > 1)
  BY <1>1, <1>2
<1>5. ASSUME NEW j \in 1 .. Len(ps) - 1, NEW k \in 1 .. Len(ps) - 1, j < k
      PROVE  old(j) < old(k)
  BY <1>1, <1>5
<1> HIDE DEF old
<1>6. ASSUME InOrder(ps) PROVE InOrder(rest)
  BY <1>1, <1>3, <1>4, <1>5, <1>6 DEF InOrder
<1>7. ASSUME NEW lower, NEW upper, Between(lower, ps, upper) PROVE Between(lower, rest, upper)
  BY <1>1, <1>3, <1>4, <1>7 DEF Between
<1>8. ASSUME NEW lower, NEW upper, i = 1, InOrder(ps), Between(lower, ps, upper)
      PROVE  Between(ps[1].picture.ids, rest, upper)
  <2> SUFFICES ASSUME NEW j \in 1 .. Len(ps) - 1, rest[j].served
               PROVE  ps[1].picture.ids \subseteq rest[j].picture.ids /\ rest[j].picture.ids \subseteq upper
    BY <1>3 DEF Between
  <2> QED
    BY <1>1, <1>4, <1>8 DEF InOrder, Between
<1> QED
  BY <1>2, <1>6, <1>7, <1>8 DEF rest

\* One is sent.
LEMMA AppendPoll ==
  ASSUME NEW ps \in Seq(Polls)
  PROVE  /\ Append(ps, Unserved) \in Seq(Polls)
         /\ Len(Append(ps, Unserved)) = Len(ps) + 1
         /\ InOrder(ps) => InOrder(Append(ps, Unserved))
         /\ \A lower, upper : Between(lower, ps, upper) => Between(lower, Append(ps, Unserved), upper)
<1> DEFINE more == Append(ps, Unserved)
<1>1. Unserved \in Polls /\ ~Unserved.served
  BY DEF Polls, Unserved
<1>2. Len(ps) \in Nat /\ DOMAIN ps = 1 .. Len(ps)
  BY LenProperties
<1>3. /\ more \in Seq(Polls) /\ Len(more) = Len(ps) + 1
      /\ \A j \in 1 .. Len(ps) : more[j] = ps[j]
      /\ more[Len(ps) + 1] = Unserved
  BY <1>1, AppendProperties
<1>4. DOMAIN more = 1 .. Len(ps) + 1
  BY <1>3, LenProperties
<1> HIDE DEF more
<1>5. \A j \in DOMAIN more : more[j].served => j \in 1 .. Len(ps)
  BY <1>1, <1>2, <1>3, <1>4
<1>6. InOrder(ps) => InOrder(more)
  BY <1>2, <1>3, <1>4, <1>5 DEF InOrder
<1>7. ASSUME NEW lower, NEW upper, Between(lower, ps, upper) PROVE Between(lower, more, upper)
  BY <1>2, <1>3, <1>4, <1>5, <1>7 DEF Between
<1> QED
  BY <1>3, <1>6, <1>7 DEF more

\* One is served, with all that the session holds.
LEMMA ServePoll ==
  ASSUME TypeOK, NEW ps \in Seq(Polls), NEW i \in DOMAIN ps, ~ps[i].served
  PROVE  LET after == [ps EXCEPT ![i] = Served]
         IN  /\ after \in Seq(Polls) /\ Len(after) = Len(ps)
             /\ \A lower : lower \subseteq roster /\ Between(lower, ps, roster)
                           => Between(lower, after, roster)
             /\ InOrder(ps) /\ Between({}, ps, roster) /\ (\A j \in 1 .. i - 1 : ps[j].served)
                => InOrder(after)
<1> DEFINE after == [ps EXCEPT ![i] = Served]
<1>1. Served \in Polls /\ Served.served /\ Served.picture.ids = roster
  BY DEF TypeOK, Served, Now, Polls, Pictures
<1>2. Len(ps) \in Nat /\ DOMAIN ps = 1 .. Len(ps) /\ i \in 1 .. Len(ps)
  BY LenProperties
<1>3. /\ after \in Seq(Polls) /\ Len(after) = Len(ps)
      /\ \A j \in 1 .. Len(ps) : after[j] = IF j = i THEN Served ELSE ps[j]
  BY <1>1, <1>2, ExceptSeq
<1>4. DOMAIN after = 1 .. Len(ps)
  BY <1>3, LenProperties
<1> HIDE DEF after
<1>5. ASSUME NEW lower, lower \subseteq roster, Between(lower, ps, roster)
      PROVE  Between(lower, after, roster)
  BY <1>1, <1>2, <1>3, <1>4, <1>5 DEF Between
<1>6. ASSUME InOrder(ps), Between({}, ps, roster), \A j \in 1 .. i - 1 : ps[j].served
      PROVE  InOrder(after)
  <2> SUFFICES ASSUME NEW j \in 1 .. Len(ps), NEW k \in 1 .. Len(ps), j < k, after[k].served
               PROVE  after[j].served /\ after[j].picture.ids \subseteq after[k].picture.ids
    BY <1>4 DEF InOrder
  <2>1. CASE k = i
    <3>1. j \in 1 .. i - 1 /\ j # i
      BY <2>1, <1>2
    <3>2. after[j] = ps[j] /\ after[k] = Served /\ ps[j].served
      BY <2>1, <3>1, <1>3, <1>6
    <3> QED
      BY <3>2, <1>1, <1>2, <1>6 DEF Between
  <2>2. CASE k # i
    <3>1. ps[k].served /\ after[k] = ps[k]
      BY <2>2, <1>3
    <3>2. ps[j].served /\ ps[j].picture.ids \subseteq ps[k].picture.ids
      BY <3>1, <1>2, <1>6 DEF InOrder
    <3>3. j # i
      BY <3>2
    <3> QED
      BY <3>1, <3>2, <3>3, <1>3
  <2> QED
    BY <2>1, <2>2
<1> QED
  BY <1>3, <1>5, <1>6 DEF after

-----------------------------------------------------------------------------
(* The steps.                                                              *)

\* What most steps leave alone.
LEMMA FollowsKept ==
  ASSUME Follows, UNCHANGED <<broken, stateLoaded, started, playersLoaded, desiredState, currentState>>
  PROVE  Follows'
BY DEF Follows

LEMMA GrowingKept ==
  ASSUME Growing, UNCHANGED <<overtaken, ghosts, players, lists, roster>>
  PROVE  Growing'
BY DEF Growing

LEMMA LiveStep == ASSUME IInv, Live PROVE IInv'
<1>1. TypeOK /\ Follows /\ Growing
  BY DEF IInv
<1>2. /\ roster \subseteq roster' /\ roster' \subseteq Ids /\ moment' \in 0 .. MaxMoment
      /\ UNCHANGED <<polls, lists, overtaken, loading, ticks, playersSuncInProgress,
                     desiredState, currentState, actors, broken>>
  BY <1>1, PageAssumption DEF Live, TypeOK, Ids
<1>3. TypeOK'
  BY <1>1, <1>2 DEF TypeOK, loading, actors
<1>4. Growing'
  BY <1>1, <1>2 DEF Growing, Between, actors
<1> QED
  BY <1>1, <1>2, <1>3, <1>4, FollowsKept DEF IInv, loading

LEMMA LoadActorStep == ASSUME IInv, LoadActor PROVE IInv'
<1>1. TypeOK /\ Follows /\ Growing
  BY DEF IInv
<1>2. TypeOK'
  BY <1>1 DEF LoadActor, TypeOK, session, actors
<1> QED
  BY <1>1, <1>2, FollowsKept, GrowingKept DEF IInv, LoadActor, session, actors

LEMMA ServeStateStep == ASSUME IInv, NEW i \in DOMAIN polls, ServeState(i) PROVE IInv'
<1>1. TypeOK /\ Follows /\ Growing
  BY DEF IInv
<1>2. polls' \in Seq(Polls) /\ Len(polls') = Len(polls)
  BY <1>1, ServePoll DEF ServeState, TypeOK
<1>3. TypeOK'
  BY <1>1, <1>2 DEF ServeState, TypeOK, session, loading, actors
<1> QED
  BY <1>1, <1>3, FollowsKept, GrowingKept DEF IInv, ServeState, session, loading, actors

LEMMA ServeListStep == ASSUME IInv, NEW i \in DOMAIN lists, ServeList(i) PROVE IInv'
<1>1. TypeOK /\ Follows /\ Growing
  BY DEF IInv
<1>2. /\ ~lists[i].served /\ lists' = [lists EXCEPT ![i] = Served]
      /\ overtaken' = (overtaken \/ \E j \in 1 .. i - 1 : ~lists[j].served)
      /\ UNCHANGED <<session, polls, loading, ticks, playersSuncInProgress,
                     desiredState, currentState, actors, broken>>
  BY DEF ServeList
<1>3. /\ lists' \in Seq(Polls) /\ Len(lists') = Len(lists)
      /\ \A lower : lower \subseteq roster /\ Between(lower, lists, roster)
                    => Between(lower, lists', roster)
      /\ InOrder(lists) /\ Between({}, lists, roster) /\ (\A j \in 1 .. i - 1 : lists[j].served)
         => InOrder(lists')
  BY <1>1, <1>2, ServePoll DEF TypeOK
<1>4. TypeOK'
  <2>1. overtaken' \in BOOLEAN
    BY <1>2
  <2> QED
    BY <1>1, <1>2, <1>3, <2>1 DEF TypeOK, session, loading, actors
<1>5. Growing'
  <2> SUFFICES ASSUME ~overtaken'
               PROVE  ghosts' = {} /\ players' \subseteq roster' /\ InOrder(lists')
                      /\ Between(players', lists', roster')
    BY DEF Growing
  <2>1. ~overtaken /\ \A j \in 1 .. i - 1 : lists[j].served
    BY <1>2
  <2>2. ghosts = {} /\ players \subseteq roster /\ InOrder(lists) /\ Between(players, lists, roster)
    BY <1>1, <2>1 DEF Growing
  <2>3. Between({}, lists, roster)
    BY <2>2 DEF Between
  <2> QED
    BY <1>2, <1>3, <2>1, <2>2, <2>3 DEF session, actors
<1> QED
  BY <1>1, <1>2, <1>4, <1>5, FollowsKept DEF IInv, loading

LEMMA LosePollStep == ASSUME IInv, LosePoll PROVE IInv'
<1>1. TypeOK /\ Follows /\ Growing
  BY DEF IInv
<1>2. UNCHANGED <<session, overtaken, loading, ticks, playersSuncInProgress,
                  desiredState, currentState, actors, broken>>
  BY DEF LosePoll
<1>3. CASE \E i \in DOMAIN polls : polls' = RemoveAt(polls, i) /\ UNCHANGED lists
  <2>1. polls' \in Seq(Polls) /\ Len(polls') <= MaxPolls
    BY <1>1, <1>3, RemovePoll, LenProperties, PageAssumption DEF TypeOK
  <2>2. TypeOK'
    BY <1>1, <1>2, <1>3, <2>1 DEF TypeOK, session, loading, actors
  <2> QED
    BY <1>1, <1>2, <1>3, <2>2, FollowsKept, GrowingKept DEF IInv, session, loading, actors
<1>4. CASE \E i \in DOMAIN lists : lists' = RemoveAt(lists, i) /\ UNCHANGED polls
  <2>1. /\ lists' \in Seq(Polls) /\ Len(lists') <= MaxPolls
        /\ InOrder(lists) => InOrder(lists')
        /\ \A lower, upper : Between(lower, lists, upper) => Between(lower, lists', upper)
    BY <1>1, <1>4, RemovePoll, LenProperties, PageAssumption DEF TypeOK
  <2>2. TypeOK'
    BY <1>1, <1>2, <1>4, <2>1 DEF TypeOK, session, loading, actors
  <2>3. Growing'
    BY <1>1, <1>2, <2>1 DEF Growing, session, actors
  <2> QED
    BY <1>1, <1>2, <2>2, <2>3, FollowsKept DEF IInv, loading
<1> QED
  BY <1>3, <1>4 DEF LosePoll

\* What StartGame, and a later answer of /state, do to a page with the first answers.
LEMMA StartGameEffect ==
  ASSUME TypeOK, Follows, StartGame,
         players' \subseteq Ids, stateLoaded' \in BOOLEAN, playersLoaded' \in BOOLEAN,
         stateLoaded => stateLoaded', playersLoaded => playersLoaded',
         started => desiredState' = desiredState,
         desiredState' \in Pictures \cup {Undefined}, stateLoaded' => desiredState' \in Pictures
  PROVE  /\ started' \in BOOLEAN /\ currentState' \in Pictures \cup {Undefined}
         /\ shown' \subseteq players'
         /\ started' => stateLoaded' /\ playersLoaded' /\ currentState' = desiredState'
<1>1. CASE started \/ ~stateLoaded' \/ ~playersLoaded'
  <2>1. UNCHANGED <<started, currentState>> /\ shown' = shown \cap players'
    BY <1>1 DEF StartGame
  <2> QED
    BY <2>1 DEF TypeOK, Follows
<1>2. CASE ~started /\ stateLoaded' /\ playersLoaded'
  <2>1. /\ started' = TRUE /\ currentState' = desiredState'
        /\ shown' = (shown \cap players') \cup (currentState'.ids \cap players')
    BY <1>2 DEF StartGame, ApplyDesiredState, InstantApplyState
  <2> QED
    BY <1>2, <2>1
<1> QED
  BY <1>1, <1>2 DEF TypeOK

LEMMA ArriveStateStep == ASSUME IInv, NEW i \in DOMAIN polls, ArriveState(i) PROVE IInv'
<1>1. TypeOK /\ Follows /\ Growing
  BY DEF IInv
<1>2. /\ polls[i].served /\ polls' = RemoveAt(polls, i)
      /\ desiredState' = polls[i].picture
      /\ UNCHANGED <<players, ghosts, playersLoaded>>
      /\ UNCHANGED <<session, lists, overtaken, loadedActor, gameState, ticks,
                     playersSuncInProgress, broken>>
  BY DEF ArriveState
<1>3. /\ polls' \in Seq(Polls) /\ Len(polls') <= MaxPolls
      /\ desiredState' \in Pictures
  BY <1>1, <1>2, RemovePoll, PollType, LenProperties, PageAssumption DEF TypeOK
<1>4. /\ stateLoaded' \in BOOLEAN /\ started' \in BOOLEAN
      /\ currentState' \in Pictures \cup {Undefined} /\ shown' \subseteq players'
      /\ started' => stateLoaded' /\ playersLoaded' /\ currentState' = desiredState'
  <2>1. CASE ~stateLoaded
    <3>1. stateLoaded' = TRUE /\ StartGame /\ ~started
      BY <1>1, <2>1 DEF ArriveState, Follows
    <3> QED
      BY <1>1, <1>2, <1>3, <3>1, StartGameEffect DEF TypeOK
  <2>2. CASE stateLoaded
    <3>1. /\ currentState' = desiredState' /\ UNCHANGED <<stateLoaded, started>>
          /\ shown' = (shown \cap players') \cup (currentState'.ids \cap players')
      BY <2>2 DEF ArriveState, ApplyDesiredState, InstantApplyState
    <3> QED
      BY <1>1, <1>2, <1>3, <3>1 DEF TypeOK, Follows
  <2> QED
    BY <2>1, <2>2 DEF TypeOK
<1>5. TypeOK'
  BY <1>1, <1>2, <1>3, <1>4 DEF TypeOK, session
<1>6. Follows'
  BY <1>1, <1>2, <1>3, <1>4 DEF Follows
<1> QED
  BY <1>1, <1>2, <1>5, <1>6, GrowingKept DEF IInv, session

LEMMA ArriveListStep == ASSUME IInv, NEW i \in DOMAIN lists, ArriveList(i) PROVE IInv'
<1>1. TypeOK /\ Follows /\ Growing
  BY DEF IInv
<1>2. /\ lists[i].served /\ lists' = RemoveAt(lists, i)
      /\ players' = lists[i].picture.ids
      /\ ghosts' = ghosts \cup (shown \ lists[i].picture.ids)
      /\ playersLoaded' = TRUE
      /\ UNCHANGED <<stateLoaded, desiredState>>
      /\ overtaken' = (overtaken \/ i # 1)
      /\ UNCHANGED <<session, polls, loadedActor, gameState, ticks, playersSuncInProgress, broken>>
  BY DEF ArriveList, UpdatePlayersList
<1>3. /\ lists' \in Seq(Polls) /\ Len(lists') <= MaxPolls
      /\ InOrder(lists) => InOrder(lists')
      /\ i = 1 /\ InOrder(lists) /\ Between(players, lists, roster)
         => Between(lists[1].picture.ids, lists', roster)
  BY <1>1, <1>2, RemovePoll, LenProperties, PageAssumption DEF TypeOK
<1>4. lists[i].picture.ids \subseteq Ids
  BY <1>1, <1>2, PollType DEF TypeOK, Pictures
<1>5. /\ started' \in BOOLEAN /\ currentState' \in Pictures \cup {Undefined}
      /\ shown' \subseteq players'
      /\ started' => stateLoaded' /\ playersLoaded' /\ currentState' = desiredState'
  <2>1. CASE ~playersLoaded
    <3>1. StartGame
      BY <2>1 DEF ArriveList
    <3>2. stateLoaded' => desiredState' \in Pictures
      BY <1>1, <1>2 DEF Follows
    <3> QED
      BY <1>1, <1>2, <1>4, <3>1, <3>2, StartGameEffect DEF TypeOK
  <2>2. CASE playersLoaded
    <3>1. shown' = shown \cap players' /\ UNCHANGED <<started, currentState>>
      BY <2>2 DEF ArriveList
    <3> QED
      BY <1>1, <1>2, <3>1 DEF TypeOK, Follows
  <2> QED
    BY <2>1, <2>2 DEF TypeOK
<1>6. TypeOK'
  <2>1. players' \subseteq Ids /\ ghosts' \subseteq Ids /\ overtaken' \in BOOLEAN
    BY <1>1, <1>2, <1>4 DEF TypeOK
  <2> QED
    BY <1>1, <1>2, <1>3, <1>5, <2>1 DEF TypeOK, session
<1>7. Follows'
  BY <1>1, <1>2, <1>5 DEF Follows
<1>8. Growing'
  <2> SUFFICES ASSUME ~overtaken'
               PROVE  ghosts' = {} /\ players' \subseteq roster' /\ InOrder(lists')
                      /\ Between(players', lists', roster')
    BY DEF Growing
  <2>1. ~overtaken /\ i = 1
    BY <1>2
  <2>2. ghosts = {} /\ players \subseteq roster /\ InOrder(lists) /\ Between(players, lists, roster)
    BY <1>1, <2>1 DEF Growing
  <2>3. players \subseteq lists[i].picture.ids /\ lists[i].picture.ids \subseteq roster
    BY <1>2, <2>2 DEF Between
  <2>4. shown \subseteq players
    BY <1>1 DEF TypeOK
  <2> QED
    BY <1>2, <1>3, <2>1, <2>2, <2>3, <2>4 DEF session
<1> QED
  BY <1>6, <1>7, <1>8 DEF IInv

\* A poll of /players is sent.
LEMMA SyncPlayersEffect ==
  ASSUME TypeOK, Growing, SyncPlayers
  PROVE  /\ lists' \in Seq(Polls) /\ Len(lists') <= MaxPolls /\ playersSuncInProgress' \in BOOLEAN
         /\ InOrder(lists) => InOrder(lists')
         /\ \A lower, upper : Between(lower, lists, upper) => Between(lower, lists', upper)
<1>1. /\ lists \in Seq(Polls) /\ Len(lists) < MaxPolls /\ lists' = Append(lists, Unserved)
      /\ playersSuncInProgress' = FALSE
  BY DEF TypeOK, SyncPlayers
<1>2. /\ lists' \in Seq(Polls) /\ Len(lists') = Len(lists) + 1
      /\ InOrder(lists) => InOrder(lists')
      /\ \A lower, upper : Between(lower, lists, upper) => Between(lower, lists', upper)
  BY <1>1, AppendPoll
<1>3. Len(lists') <= MaxPolls
  BY <1>1, <1>2, LenProperties, PageAssumption
<1> QED
  BY <1>1, <1>2, <1>3

LEMMA UpdateStateEffect ==
  ASSUME TypeOK, UpdateState
  PROVE  polls' \in Seq(Polls) /\ Len(polls') <= MaxPolls
BY AppendPoll, LenProperties, PageAssumption DEF TypeOK, UpdateState

LEMMA TickEffect ==
  ASSUME TypeOK, Tick PROVE ticks' \in 0 .. playersUpdateInterval - 1
<1>1. ticks + 1 \in Nat /\ playersUpdateInterval \in Nat /\ playersUpdateInterval > 0
  BY PageAssumption DEF TypeOK
<1> QED
  BY <1>1 DEF Tick

LEMMA FirstFrameStep == ASSUME IInv, FirstFrame PROVE IInv'
<1>1. TypeOK /\ Follows /\ Growing
  BY DEF IInv
<1>2. TypeOK'
  BY <1>1, UpdateStateEffect, SyncPlayersEffect, TickEffect DEF FirstFrame, TypeOK, session, actors
<1>3. Growing'
  BY <1>1, SyncPlayersEffect DEF FirstFrame, Growing, session, actors
<1> QED
  BY <1>1, <1>2, <1>3, FollowsKept DEF IInv, FirstFrame

LEMMA IdleFrameStep == ASSUME IInv, IdleFrame PROVE IInv'
<1>1. TypeOK /\ Follows /\ Growing
  BY DEF IInv
<1>2. TypeOK'
  BY <1>1, TickEffect DEF IdleFrame, TypeOK, session, loading, actors
<1> QED
  BY <1>1, <1>2, FollowsKept, GrowingKept DEF IInv, IdleFrame, session, loading, actors

LEMMA GameFrameStep == ASSUME IInv, GameFrame PROVE IInv'
<1>1. TypeOK /\ Follows /\ Growing
  BY DEF IInv
<1>2. /\ started /\ Tick /\ UpdateState
      /\ UNCHANGED <<players, ghosts, currentState>>
      /\ UNCHANGED <<session, overtaken, loading, desiredState>>
      /\ SyncPlayers \/ UNCHANGED <<lists, playersSuncInProgress>>
  BY DEF GameFrame
<1>3. Interpolates
  <2>1. desiredState \in Pictures /\ currentState = desiredState
    BY <1>1, <1>2 DEF Follows
  <2>2. desiredState # Undefined
    BY <2>1, PageAssumption DEF Pictures, Undefined
  <2> QED
    BY <2>1, <2>2 DEF Interpolates
<1>4. broken' = broken /\ shown' \subseteq players'
  BY <1>1, <1>3 DEF GameFrame, InstantApplyState, TypeOK
<1>5. TypeOK'
  <2>1. lists' \in Seq(Polls) /\ Len(lists') <= MaxPolls /\ playersSuncInProgress' \in BOOLEAN
    BY <1>1, <1>2, SyncPlayersEffect DEF TypeOK
  <2>2. ticks' \in 0 .. playersUpdateInterval - 1 /\ polls' \in Seq(Polls) /\ Len(polls') <= MaxPolls
    BY <1>1, <1>2, UpdateStateEffect, TickEffect
  <2> QED
    BY <1>1, <1>2, <1>4, <2>1, <2>2 DEF TypeOK, session, loading
<1>6. Growing'
  BY <1>1, <1>2, SyncPlayersEffect DEF Growing, session
<1> QED
  BY <1>1, <1>2, <1>4, <1>5, <1>6, FollowsKept DEF IInv, loading

LEMMA NextInv == IInv /\ [Next]_vars => IInv'
<1> SUFFICES ASSUME IInv, [Next]_vars PROVE IInv'
  OBVIOUS
<1>1. CASE UNCHANGED vars
  <2>1. UNCHANGED <<roster, moment, polls, lists, overtaken, loadedActor, gameState, stateLoaded,
                    playersLoaded, started, ticks, playersSuncInProgress, desiredState,
                    currentState, players, shown, ghosts, broken>>
    BY <1>1 DEF vars, session, loading, actors
  <2>2. TypeOK'
    BY <2>1 DEF IInv, TypeOK
  <2> QED
    BY <2>1, <2>2, FollowsKept, GrowingKept DEF IInv
<1> QED
  BY <1>1, LiveStep, LoadActorStep, FirstFrameStep, IdleFrameStep, GameFrameStep, ServeStateStep,
     ServeListStep, ArriveStateStep, ArriveListStep, LosePollStep DEF Next, Frame

LEMMA Invariance == Spec => []IInv
<1>1. Init => IInv
  BY InitInv
<1>2. IInv /\ [Next]_vars => IInv'
  BY NextInv
<1> QED
  BY <1>1, <1>2, PTL DEF Spec

\* The page has its type for any number of players, of polls under way and of frames
\* between two polls of /players: it shows no dog that has no actor.
THEOREM TypeCorrect == Spec => []TypeOK
<1>1. IInv => TypeOK
  BY DEF IInv
<1> QED
  BY <1>1, Invariance, PTL

\* For any number of players and polls, in whatever order the answers arrive, no frame
\* throws: currentState has followed desiredState since the game was started.
THEOREM NoFrameThrows == Spec => []NeverBroken
<1>1. IInv => NeverBroken
  BY DEF IInv, Follows, NeverBroken
<1> QED
  BY <1>1, Invariance, PTL

\* For any number of players and polls, no dog is left on the scene unless a poll of
\* /players overtook another.
THEOREM NobodyOrphaned == Spec => []NoGhosts
<1>1. IInv => NoGhosts
  BY DEF IInv, Growing, NoGhosts
<1> QED
  BY <1>1, Invariance, PTL
=============================================================================
