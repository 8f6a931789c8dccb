--------------------------- MODULE KeyStateProofs ---------------------------
(***************************************************************************)
(* The dog obeys the keys, for any keys and any number of posts under way. *)
(***************************************************************************)
EXTENDS KeyState, SequenceTheorems, TLAPS

\* What taking one element out of a sequence leaves.
LEMMA RemoveAtProperties ==
  ASSUME NEW S, NEW s \in Seq(S), NEW i \in 1 .. Len(s)
  PROVE  /\ RemoveAt(s, i) \in Seq(S)
         /\ Len(RemoveAt(s, i)) = Len(s) - 1
         /\ \A j \in 1 .. Len(s) - 1 : RemoveAt(s, i)[j] = IF j < i THEN s[j] ELSE s[j + 1]
<1> DEFINE before == SubSeq(s, 1, i - 1)
           after  == SubSeq(s, i + 1, Len(s))
<1>1. Len(s) \in Nat /\ \A j \in 1 .. Len(s) : s[j] \in S
  BY LenProperties, ElementOfSeq
<1>2. /\ before \in Seq(S)
      /\ Len(before) = i - 1
      /\ \A j \in 1 .. i - 1 : before[j] = s[j]
  <2>1. 1 \in Int /\ i - 1 \in Int /\ \A j \in 1 .. i - 1 : s[j] \in S
    BY <1>1
  <2>2. /\ before \in Seq(S)
        /\ Len(before) = IF 1 <= i - 1 THEN i - 1 - 1 + 1 ELSE 0
        /\ \A j \in 1 .. i - 1 - 1 + 1 : before[j] = s[1 + j - 1]
    BY <2>1, SubSeqProperties
  <2> QED
    BY <2>2, <1>1
<1>3. /\ after \in Seq(S)
      /\ Len(after) = Len(s) - i
      /\ \A j \in 1 .. Len(s) - i : after[j] = s[j + i]
  <2>1. i + 1 \in Int /\ Len(s) \in Int /\ \A j \in i + 1 .. Len(s) : s[j] \in S
    BY <1>1
  <2>2. /\ after \in Seq(S)
        /\ Len(after) = IF i + 1 <= Len(s) THEN Len(s) - (i + 1) + 1 ELSE 0
        /\ \A j \in 1 .. Len(s) - (i + 1) + 1 : after[j] = s[i + 1 + j - 1]
    BY <2>1, SubSeqProperties
  <2> QED
    BY <2>2, <1>1
<1>4. /\ before \o after \in Seq(S)
      /\ Len(before \o after) = Len(before) + Len(after)
      /\ \A j \in 1 .. Len(before) + Len(after) :
           (before \o after)[j] = IF j <= Len(before) THEN before[j] ELSE after[j - Len(before)]
  BY <1>2, <1>3, ConcatProperties
<1>5. RemoveAt(s, i) = before \o after
  BY DEF RemoveAt
<1> HIDE DEF before, after
<1>6. ASSUME NEW j \in 1 .. Len(s) - 1
      PROVE  RemoveAt(s, i)[j] = IF j < i THEN s[j] ELSE s[j + 1]
  <2>1. CASE j < i
    BY <2>1, <1>1, <1>2, <1>3, <1>4, <1>5
  <2>2. CASE ~(j < i)
    <3>1. /\ j - (i - 1) \in 1 .. Len(s) - i /\ j - (i - 1) + i = j + 1
          /\ j \in 1 .. Len(before) + Len(after) /\ ~(j <= Len(before))
      BY <2>2, <1>1, <1>2, <1>3
    <3>2. after[j - (i - 1)] = s[j + 1]
      BY <3>1, <1>3
    <3> QED
      BY <2>2, <3>1, <3>2, <1>2, <1>4, <1>5
  <2> QED
    BY <2>1, <2>2
<1>7. RemoveAt(s, i) \in Seq(S) /\ Len(RemoveAt(s, i)) = Len(s) - 1
  <2>1. Len(before) + Len(after) = Len(s) - 1
    BY <1>1, <1>2, <1>3
  <2> QED
    BY <2>1, <1>4, <1>5, Zenon
<1> QED
  BY <1>6, <1>7, Zenon

\* k stands before j among keys.
Before(keys, k, j) == \E a, b \in DOMAIN keys : a < b /\ keys[a] = k /\ keys[b] = j

\* A key added at the end.
LEMMA AppendKey ==
  ASSUME NEW keys \in Seq(Keys), NEW k \in Keys
  PROVE  /\ Append(keys, k) \in Seq(Keys)
         /\ LastKey(Append(keys, k)) = k
         /\ \A j : Holds(Append(keys, k), j) <=> Holds(keys, j) \/ j = k
         /\ IsInjective(keys) /\ ~Holds(keys, k) => IsInjective(Append(keys, k))
         /\ \A i, j : Before(Append(keys, k), i, j) <=> Before(keys, i, j) \/ (j = k /\ Holds(keys, i))
<1> DEFINE more == Append(keys, k)
<1>1. /\ more \in Seq(Keys) /\ Len(keys) \in Nat /\ more # <<>> /\ Len(more) = Len(keys) + 1
      /\ DOMAIN keys = 1 .. Len(keys) /\ DOMAIN more = 1 .. Len(keys) + 1
      /\ \A i \in 1 .. Len(keys) : more[i] = keys[i]
      /\ more[Len(keys) + 1] = k
  BY AppendProperties, LenProperties
<1> HIDE DEF more
<1>2. LastKey(more) = k
  BY <1>1 DEF LastKey
<1>3. \A j : Holds(more, j) <=> Holds(keys, j) \/ j = k
  BY <1>1 DEF Holds
<1>4. IsInjective(keys) /\ ~Holds(keys, k) => IsInjective(more)
  BY <1>1 DEF IsInjective, Holds
<1>5. ASSUME NEW i, NEW j
      PROVE  Before(more, i, j) <=> Before(keys, i, j) \/ (j = k /\ Holds(keys, i))
  <2>1. Before(more, i, j) => Before(keys, i, j) \/ (j = k /\ Holds(keys, i))
    BY <1>1 DEF Before, Holds
  <2>2. Before(keys, i, j) => Before(more, i, j)
    BY <1>1 DEF Before
  <2>3. j = k /\ Holds(keys, i) => Before(more, i, j)
    BY <1>1 DEF Before, Holds
  <2> QED
    BY <2>1, <2>2, <2>3
<1> QED
  BY <1>1, <1>2, <1>3, <1>4, <1>5 DEF more

\* A key taken out, wherever it was.
LEMMA WithoutKey ==
  ASSUME NEW keys \in Seq(Keys), IsInjective(keys), NEW k \in Keys, Holds(keys, k)
  PROVE  /\ Without(keys, k) \in Seq(Keys) /\ IsInjective(Without(keys, k))
         /\ \A j : Holds(Without(keys, k), j) <=> Holds(keys, j) /\ j # k
         /\ \A i, j : Before(Without(keys, k), i, j) <=> Before(keys, i, j) /\ i # k /\ j # k
<1> DEFINE p == CHOOSE i \in DOMAIN keys : keys[i] = k
           rest == Without(keys, k)
<1>1. Len(keys) \in Nat /\ DOMAIN keys = 1 .. Len(keys)
  BY LenProperties
<1>2. p \in 1 .. Len(keys) /\ keys[p] = k
  BY <1>1 DEF Holds
<1>3. /\ rest \in Seq(Keys)
      /\ DOMAIN rest = 1 .. Len(keys) - 1
      /\ \A j \in 1 .. Len(keys) - 1 : rest[j] = IF j < p THEN keys[j] ELSE keys[j + 1]
  BY <1>1, <1>2, RemoveAtProperties, LenProperties DEF Without
<1> HIDE DEF p, rest
<1>4. \A a, b \in 1 .. Len(keys) : keys[a] = keys[b] => a = b
  BY <1>1 DEF IsInjective
<1>5. ASSUME NEW a \in 1 .. Len(keys), keys[a] # k
      PROVE  \E b \in 1 .. Len(keys) - 1 : rest[b] = keys[a] /\ b = IF a < p THEN a ELSE a - 1
  <2>1. CASE a < p
    BY <2>1, <1>1, <1>2, <1>3
  <2>2. CASE p < a
    <3>1. a - 1 \in 1 .. Len(keys) - 1 /\ ~(a - 1 < p) /\ (a - 1) + 1 = a /\ ~(a < p)
      BY <2>2, <1>1, <1>2
    <3> QED
      BY <3>1, <1>3
  <2> QED
    BY <2>1, <2>2, <1>1, <1>2, <1>5
<1>6. ASSUME NEW b \in 1 .. Len(keys) - 1
      PROVE  \E a \in 1 .. Len(keys) : a # p /\ rest[b] = keys[a] /\ a = IF b < p THEN b ELSE b + 1
  BY <1>1, <1>2, <1>3
<1>7. IsInjective(rest)
  <2> SUFFICES ASSUME NEW a \in 1 .. Len(keys) - 1, NEW b \in 1 .. Len(keys) - 1, rest[a] = rest[b]
               PROVE  a = b
    BY <1>3 DEF IsInjective
  <2> QED
    BY <1>1, <1>2, <1>4, <1>6
<1>8. \A j : Holds(rest, j) <=> Holds(keys, j) /\ j # k
  <2> SUFFICES ASSUME NEW j
               PROVE  Holds(rest, j) <=> Holds(keys, j) /\ j # k
    OBVIOUS
  <2>1. ASSUME NEW b \in 1 .. Len(keys) - 1, rest[b] = j
        PROVE  Holds(keys, j) /\ j # k
    <3>1. PICK a \in 1 .. Len(keys) : a # p /\ rest[b] = keys[a]
      BY <1>6
    <3>2. keys[a] = j /\ j # k
      BY <2>1, <3>1, <1>2, <1>4
    <3> QED
      BY <3>2, <1>1 DEF Holds
  <2>2. ASSUME Holds(keys, j), j # k
        PROVE  Holds(rest, j)
    <3>1. PICK a \in 1 .. Len(keys) : keys[a] = j
      BY <2>2, <1>1 DEF Holds
    <3>2. PICK b \in 1 .. Len(keys) - 1 : rest[b] = keys[a]
      BY <2>2, <3>1, <1>5
    <3> QED
      BY <3>1, <3>2, <1>3 DEF Holds
  <2> QED
    BY <2>1, <2>2, <1>3 DEF Holds
<1>9. ASSUME NEW i, NEW j
      PROVE  Before(rest, i, j) <=> Before(keys, i, j) /\ i # k /\ j # k
  <2>1. ASSUME NEW a \in 1 .. Len(keys) - 1, NEW b \in 1 .. Len(keys) - 1, a < b, rest[a] = i, rest[b] = j
        PROVE  Before(keys, i, j) /\ i # k /\ j # k
    <3>1. PICK c \in 1 .. Len(keys) : c # p /\ rest[a] = keys[c] /\ c = IF a < p THEN a ELSE a + 1
      BY <1>6
    <3>2. PICK d \in 1 .. Len(keys) : d # p /\ rest[b] = keys[d] /\ d = IF b < p THEN b ELSE b + 1
      BY <1>6
    <3>3. c < d
      BY <2>1, <3>1, <3>2, <1>1, <1>2
    <3> QED
      BY <2>1, <3>1, <3>2, <3>3, <1>1, <1>2, <1>4 DEF Before
  <2>2. ASSUME NEW a \in 1 .. Len(keys), NEW b \in 1 .. Len(keys), a < b, keys[a] = i, keys[b] = j, i # k, j # k
        PROVE  Before(rest, i, j)
    <3>1. PICK c \in 1 .. Len(keys) - 1 : rest[c] = keys[a] /\ c = IF a < p THEN a ELSE a - 1
      BY <2>2, <1>5
    <3>2. PICK d \in 1 .. Len(keys) - 1 : rest[d] = keys[b] /\ d = IF b < p THEN b ELSE b - 1
      BY <2>2, <1>5
    <3>3. c < d
      BY <2>2, <3>1, <3>2, <1>1, <1>2
    <3> QED
      BY <2>2, <3>1, <3>2, <3>3, <1>3 DEF Before
  <2> QED
    BY <2>1, <2>2, <1>1, <1>3 DEF Before
<1> QED
  BY <1>3, <1>7, <1>8, <1>9 DEF rest

-----------------------------------------------------------------------------

\* Off the keys whose events the page missed, keyboard and page agree on what is pressed
\* and in which order.
PageKnows ==
  /\ \A k \in Keys \ missed : Holds(held, k) <=> Holds(pressedKeys, k)
  /\ \A i, j \in Keys \ missed : Before(held, i, j) => Before(pressedKeys, i, j)

\* A page that does not listen knows nothing.
Deaf == ~listening => pressedKeys = <<>>

\* The newest post says what pressedKeys says.
NewestSays ==
  /\ newest = "under_way" => posts # <<>> /\ posts[Len(posts)] = LastKey(pressedKeys)
  /\ newest = "served" => facing = LastKey(pressedKeys)

IInv == TypeOK /\ PageKnows /\ Deaf /\ NewestSays

LEMMA EmptyKeys ==
  /\ <<>> \in Seq(Keys) /\ IsInjective(<<>>) /\ LastKey(<<>>) = NoKey
  /\ \A k : ~Holds(<<>>, k)
  /\ \A i, j : ~Before(<<>>, i, j)
BY EmptySeq DEF IsInjective, LastKey, Holds, Before

LEMMA InitInv == Init => IInv
<1> SUFFICES ASSUME Init PROVE IInv
  OBVIOUS
<1> USE DEF Init
<1>1. TypeOK
  <2>1. posts \in Seq(Directions) /\ Len(posts) <= MaxPosts
    BY KeyAssumption
  <2> QED
    BY <2>1, EmptyKeys DEF TypeOK, Directions
<1>2. PageKnows
  BY EmptyKeys DEF PageKnows
<1>3. NewestSays
  BY EmptyKeys DEF NewestSays
<1> QED
  BY <1>1, <1>2, <1>3 DEF IInv, Deaf

LEMMA LastKeyType ==
  ASSUME NEW keys \in Seq(Keys)
  PROVE  LastKey(keys) \in Directions
BY ElementOfSeq, LenProperties, EmptySeq DEF LastKey, Directions

\* A post of what pressedKeys says is the newest.
LEMMA PressKeySays ==
  ASSUME TypeOK, NEW keys \in Seq(Keys), pressedKeys' = keys, PressKey(LastKey(keys))
  PROVE  /\ posts' \in Seq(Directions) /\ Len(posts') <= MaxPosts
         /\ newest' \in {"under_way", "served", "overtaken", "lost"} /\ facing' \in Directions
         /\ NewestSays'
<1>1. LastKey(keys) \in Directions
  BY LastKeyType
<1>2. posts' = Append(posts, LastKey(keys)) /\ newest' = "under_way" /\ facing' = facing /\ Len(posts) < MaxPosts
  BY DEF PressKey
<1>3. posts \in Seq(Directions) /\ facing \in Directions
  BY DEF TypeOK
<1>4. /\ posts' \in Seq(Directions) /\ posts' # <<>>
      /\ Len(posts') = Len(posts) + 1 /\ posts'[Len(posts) + 1] = LastKey(keys)
  BY <1>1, <1>2, <1>3, AppendProperties
<1>5. Len(posts') <= MaxPosts
  BY <1>2, <1>3, <1>4, LenProperties, KeyAssumption
<1> QED
  BY <1>2, <1>3, <1>4, <1>5 DEF NewestSays

\* What keyDown does to the page's list and to the posts.
LEMMA KeyDownEffect ==
  ASSUME IInv, NEW k \in Keys, KeyDown(k)
  PROVE  /\ pressedKeys' \in Seq(Keys) /\ IsInjective(pressedKeys')
         /\ posts' \in Seq(Directions) /\ Len(posts') <= MaxPosts
         /\ newest' \in {"under_way", "served", "overtaken", "lost"} /\ facing' \in Directions
         /\ \A j : Holds(pressedKeys', j) <=> Holds(pressedKeys, j) \/ j = k
         /\ \A i, j : Before(pressedKeys, i, j) => Before(pressedKeys', i, j)
         /\ ~Holds(pressedKeys, k) => \A i : Holds(pressedKeys, i) => Before(pressedKeys', i, k)
         /\ NewestSays'
<1>1. pressedKeys \in Seq(Keys) /\ IsInjective(pressedKeys) /\ TypeOK /\ NewestSays
  BY DEF IInv, TypeOK
<1>2. CASE Holds(pressedKeys, k)
  <2>1. /\ pressedKeys' = pressedKeys /\ posts' = posts /\ facing' = facing /\ newest' = newest
    BY <1>2 DEF KeyDown, server
  <2> QED
    BY <1>1, <1>2, <2>1 DEF TypeOK, NewestSays
<1>3. CASE ~Holds(pressedKeys, k)
  <2>1. pressedKeys' = Append(pressedKeys, k) /\ PressKey(LastKey(pressedKeys'))
    BY <1>3 DEF KeyDown
  <2>2. /\ Append(pressedKeys, k) \in Seq(Keys) /\ IsInjective(Append(pressedKeys, k))
        /\ \A j : Holds(Append(pressedKeys, k), j) <=> Holds(pressedKeys, j) \/ j = k
        /\ \A i, j : Before(Append(pressedKeys, k), i, j)
                         <=> Before(pressedKeys, i, j) \/ (j = k /\ Holds(pressedKeys, i))
    BY <1>1, <1>3, AppendKey
  <2>3. /\ posts' \in Seq(Directions) /\ Len(posts') <= MaxPosts
        /\ newest' \in {"under_way", "served", "overtaken", "lost"} /\ facing' \in Directions
        /\ NewestSays'
    BY <1>1, <2>1, <2>2, PressKeySays
  <2> QED
    BY <2>1, <2>2, <2>3
<1> QED
  BY <1>2, <1>3

\* What keyUp does to them.
LEMMA KeyUpEffect ==
  ASSUME IInv, NEW k \in Keys, KeyUp(k)
  PROVE  /\ pressedKeys' \in Seq(Keys) /\ IsInjective(pressedKeys')
         /\ posts' \in Seq(Directions) /\ Len(posts') <= MaxPosts
         /\ newest' \in {"under_way", "served", "overtaken", "lost"} /\ facing' \in Directions
         /\ \A j : Holds(pressedKeys', j) <=> Holds(pressedKeys, j) /\ j # k
         /\ \A i, j : Before(pressedKeys', i, j) <=> Before(pressedKeys, i, j) /\ i # k /\ j # k
         /\ NewestSays'
<1>1. pressedKeys \in Seq(Keys) /\ IsInjective(pressedKeys) /\ TypeOK /\ NewestSays
  BY DEF IInv, TypeOK
<1>2. CASE ~Holds(pressedKeys, k)
  <2>1. /\ pressedKeys' = pressedKeys /\ posts' = posts /\ facing' = facing /\ newest' = newest
    BY <1>2 DEF KeyUp, server
  <2>2. \A i, j : Before(pressedKeys, i, j) => i # k /\ j # k
    BY <1>2 DEF Before, Holds
  <2> QED
    BY <1>1, <1>2, <2>1, <2>2 DEF TypeOK, NewestSays
<1>3. CASE Holds(pressedKeys, k)
  <2>1. pressedKeys' = Without(pressedKeys, k) /\ PressKey(LastKey(pressedKeys'))
    BY <1>3 DEF KeyUp
  <2>2. /\ Without(pressedKeys, k) \in Seq(Keys) /\ IsInjective(Without(pressedKeys, k))
        /\ \A j : Holds(Without(pressedKeys, k), j) <=> Holds(pressedKeys, j) /\ j # k
        /\ \A i, j : Before(Without(pressedKeys, k), i, j)
                         <=> Before(pressedKeys, i, j) /\ i # k /\ j # k
    BY <1>1, <1>3, WithoutKey
  <2>3. /\ posts' \in Seq(Directions) /\ Len(posts') <= MaxPosts
        /\ newest' \in {"under_way", "served", "overtaken", "lost"} /\ facing' \in Directions
        /\ NewestSays'
    BY <1>1, <2>1, <2>2, PressKeySays
  <2> QED
    BY <2>1, <2>2, <2>3
<1> QED
  BY <1>2, <1>3

LEMMA SetupStep == IInv /\ SetupKeyEvents => IInv'
BY DEF IInv, SetupKeyEvents, TypeOK, PageKnows, Deaf, NewestSays, server

LEMMA PressStep == ASSUME NEW k \in Keys PROVE IInv /\ Press(k) => IInv'
<1> SUFFICES ASSUME IInv, Press(k) PROVE IInv'
  OBVIOUS
<1>1. TypeOK /\ PageKnows /\ Deaf /\ NewestSays
  BY DEF IInv
<1>2. ~Holds(held, k) /\ held' = Append(held, k) /\ listening' = listening
  BY DEF Press
<1>3. /\ held' \in Seq(Keys) /\ IsInjective(held')
      /\ \A j : Holds(held', j) <=> Holds(held, j) \/ j = k
      /\ \A i, j : Before(held', i, j) <=> Before(held, i, j) \/ (j = k /\ Holds(held, i))
  BY <1>1, <1>2, AppendKey DEF TypeOK
<1>4. CASE listening /\ KeyDown(k) /\ missed' = missed
  <2>1. PageKnows'
    BY <1>1, <1>2, <1>3, <1>4, KeyDownEffect DEF PageKnows
  <2> QED
    BY <1>1, <1>2, <1>3, <1>4, <2>1, KeyDownEffect DEF IInv, TypeOK, Deaf
<1>5. CASE ~listening /\ missed' = missed \cup {k} /\ UNCHANGED <<pressedKeys, server>>
  <2>1. PageKnows'
    BY <1>1, <1>2, <1>3, <1>5 DEF PageKnows
  <2> QED
    BY <1>1, <1>2, <1>3, <1>5, <2>1 DEF IInv, TypeOK, Deaf, NewestSays, server
<1> QED
  BY <1>4, <1>5 DEF Press

LEMMA RepeatStep == ASSUME NEW k \in Keys PROVE IInv /\ Repeat(k) => IInv'
<1> SUFFICES ASSUME IInv, Repeat(k) PROVE IInv'
  OBVIOUS
<1>1. TypeOK /\ PageKnows /\ Deaf /\ NewestSays
  BY DEF IInv
<1>2. Holds(held, k) /\ listening /\ KeyDown(k) /\ UNCHANGED <<held, listening, missed>>
  BY DEF Repeat
<1>3. PageKnows'
  BY <1>1, <1>2, KeyDownEffect DEF PageKnows
<1> QED
  BY <1>1, <1>2, <1>3, KeyDownEffect DEF IInv, TypeOK, Deaf

LEMMA ReleaseStep == ASSUME NEW k \in Keys PROVE IInv /\ Release(k) => IInv'
<1> SUFFICES ASSUME IInv, Release(k) PROVE IInv'
  OBVIOUS
<1>1. TypeOK /\ PageKnows /\ Deaf /\ NewestSays
  BY DEF IInv
<1>2. /\ Holds(held, k) /\ held' = Without(held, k)
      /\ missed' = missed \ {k} /\ listening' = listening
  BY DEF Release
<1>3. /\ held' \in Seq(Keys) /\ IsInjective(held')
      /\ \A j : Holds(held', j) <=> Holds(held, j) /\ j # k
      /\ \A i, j : Before(held', i, j) <=> Before(held, i, j) /\ i # k /\ j # k
  BY <1>1, <1>2, WithoutKey DEF TypeOK
<1>4. CASE listening /\ KeyUp(k)
  <2>1. PageKnows'
    BY <1>1, <1>2, <1>3, <1>4, KeyUpEffect DEF PageKnows
  <2> QED
    BY <1>1, <1>2, <1>3, <1>4, <2>1, KeyUpEffect DEF IInv, TypeOK, Deaf
<1>5. CASE ~listening /\ UNCHANGED <<pressedKeys, server>>
  <2>1. pressedKeys = <<>> /\ pressedKeys' = <<>>
    BY <1>1, <1>5 DEF Deaf
  <2>2. PageKnows'
    BY <1>1, <1>2, <1>3, <2>1, EmptyKeys DEF PageKnows
  <2> QED
    BY <1>1, <1>2, <1>3, <1>5, <2>2 DEF IInv, TypeOK, Deaf, NewestSays, server
<1> QED
  BY <1>4, <1>5 DEF Release

LEMMA BlurStep == IInv /\ Blur => IInv'
<1> SUFFICES ASSUME IInv, Blur PROVE IInv'
  OBVIOUS
<1>1. TypeOK /\ PageKnows /\ Deaf /\ NewestSays
  BY DEF IInv
<1>2. /\ held' = <<>> /\ UNCHANGED <<listening, pressedKeys, server>>
      /\ missed' = IF listening THEN missed \cup {held[i] : i \in DOMAIN held} ELSE {}
  BY DEF Blur
<1>3. missed' \subseteq Keys
  BY <1>1, <1>2, ElementOfSeq, LenProperties DEF TypeOK
<1>4. PageKnows'
  <2>1. CASE listening
    <3>1. \A k \in Keys \ missed' : k \notin missed /\ ~Holds(held, k)
      BY <1>2, <2>1 DEF Holds
    <3> QED
      BY <1>1, <1>2, <3>1, EmptyKeys DEF PageKnows
  <2>2. CASE ~listening
    BY <1>1, <1>2, <2>2, EmptyKeys DEF PageKnows, Deaf
  <2> QED
    BY <2>1, <2>2
<1> QED
  BY <1>1, <1>2, <1>3, <1>4, EmptyKeys DEF IInv, TypeOK, Deaf, NewestSays, server

\* A post taken from its way leaves the newest where it is, or was the newest itself.
LEMMA PostTaken ==
  ASSUME TypeOK, NEW i \in DOMAIN posts, posts' = RemoveAt(posts, i)
  PROVE  /\ posts' \in Seq(Directions) /\ Len(posts') <= MaxPosts
         /\ posts[i] \in Directions
         /\ i # Len(posts) => posts' # <<>> /\ posts'[Len(posts')] = posts[Len(posts)]
<1>1. posts \in Seq(Directions) /\ Len(posts) <= MaxPosts
  BY DEF TypeOK
<1>2. Len(posts) \in Nat /\ i \in 1 .. Len(posts) /\ MaxPosts \in Nat
  BY <1>1, LenProperties, KeyAssumption
<1>3. /\ posts' \in Seq(Directions)
      /\ Len(posts') = Len(posts) - 1
      /\ \A j \in 1 .. Len(posts) - 1 : posts'[j] = IF j < i THEN posts[j] ELSE posts[j + 1]
  BY <1>1, <1>2, RemoveAtProperties
<1>4. i # Len(posts) => posts' # <<>> /\ posts'[Len(posts')] = posts[Len(posts)]
  <2> SUFFICES ASSUME i # Len(posts) PROVE posts' # <<>> /\ posts'[Len(posts')] = posts[Len(posts)]
    OBVIOUS
  <2>1. Len(posts) - 1 \in 1 .. Len(posts) - 1 /\ ~(Len(posts) - 1 < i) /\ Len(posts) - 1 + 1 = Len(posts)
    BY <1>2
  <2> QED
    BY <1>3, <2>1, EmptySeq
<1> QED
  BY <1>1, <1>2, <1>3, <1>4, ElementOfSeq

LEMMA ServeStep == ASSUME NEW i \in DOMAIN posts PROVE IInv /\ Serve(i) => IInv'
<1> SUFFICES ASSUME IInv, Serve(i) PROVE IInv'
  OBVIOUS
<1>1. TypeOK /\ PageKnows /\ Deaf /\ NewestSays
  BY DEF IInv
<1>2. /\ facing' = posts[i] /\ posts' = RemoveAt(posts, i)
      /\ newest' = CASE newest = "under_way" /\ i = Len(posts) -> "served"
                      [] newest = "served" -> "overtaken"
                      [] OTHER -> newest
      /\ UNCHANGED <<held, listening, pressedKeys, missed>>
  BY DEF Serve
<1>3. /\ posts' \in Seq(Directions) /\ Len(posts') <= MaxPosts
      /\ posts[i] \in Directions
      /\ i # Len(posts) => posts' # <<>> /\ posts'[Len(posts')] = posts[Len(posts)]
  BY <1>1, <1>2, PostTaken
<1>4. newest' \in {"under_way", "served", "overtaken", "lost"} /\ NewestSays'
  BY <1>1, <1>2, <1>3 DEF NewestSays, TypeOK
<1> QED
  BY <1>1, <1>2, <1>3, <1>4 DEF IInv, TypeOK, PageKnows, Deaf

LEMMA LoseStep == ASSUME NEW i \in DOMAIN posts PROVE IInv /\ Lose(i) => IInv'
<1> SUFFICES ASSUME IInv, Lose(i) PROVE IInv'
  OBVIOUS
<1>1. TypeOK /\ PageKnows /\ Deaf /\ NewestSays
  BY DEF IInv
<1>2. /\ posts' = RemoveAt(posts, i)
      /\ newest' = IF newest = "under_way" /\ i = Len(posts) THEN "lost" ELSE newest
      /\ UNCHANGED <<held, listening, pressedKeys, missed, facing>>
  BY DEF Lose
<1>3. /\ posts' \in Seq(Directions) /\ Len(posts') <= MaxPosts
      /\ i # Len(posts) => posts' # <<>> /\ posts'[Len(posts')] = posts[Len(posts)]
  BY <1>1, <1>2, PostTaken
<1>4. newest' \in {"under_way", "served", "overtaken", "lost"} /\ NewestSays'
  BY <1>1, <1>2, <1>3 DEF NewestSays, TypeOK
<1> QED
  BY <1>1, <1>2, <1>3, <1>4 DEF IInv, TypeOK, PageKnows, Deaf

LEMMA NextInv == IInv /\ [Next]_vars => IInv'
<1> SUFFICES ASSUME IInv, [Next]_vars PROVE IInv'
  OBVIOUS
<1>1. CASE UNCHANGED vars
  BY <1>1 DEF vars, server, IInv, TypeOK, PageKnows, Deaf, NewestSays
<1> QED
  BY <1>1, SetupStep, PressStep, RepeatStep, ReleaseStep, BlurStep, ServeStep, LoseStep DEF Next

\* Where the page missed nothing, the last of the keys that are down is its last key.
LEMMA LastAgrees == IInv /\ missed = {} => LastKey(pressedKeys) = LastKey(held)
<1> SUFFICES ASSUME IInv, missed = {} PROVE LastKey(pressedKeys) = LastKey(held)
  OBVIOUS
<1>1. /\ held \in Seq(Keys) /\ IsInjective(held)
      /\ pressedKeys \in Seq(Keys) /\ IsInjective(pressedKeys)
      /\ \A k \in Keys : Holds(held, k) <=> Holds(pressedKeys, k)
      /\ \A i, j \in Keys : Before(held, i, j) => Before(pressedKeys, i, j)
  BY DEF IInv, TypeOK, PageKnows
<1> DEFINE n == Len(held)
           m == Len(pressedKeys)
<1>2. /\ n \in Nat /\ m \in Nat
      /\ DOMAIN held = 1 .. n /\ DOMAIN pressedKeys = 1 .. m
      /\ (held = <<>> <=> n = 0) /\ (pressedKeys = <<>> <=> m = 0)
      /\ \A i \in 1 .. n : held[i] \in Keys
      /\ \A i \in 1 .. m : pressedKeys[i] \in Keys
  BY <1>1, LenProperties, ElementOfSeq, EmptySeq
<1> HIDE DEF n, m
<1>3. n = 0 <=> m = 0
  BY <1>1, <1>2 DEF Holds
<1>4. CASE n = 0
  BY <1>2, <1>3, <1>4 DEF LastKey
<1>5. CASE n # 0
  <2>1. n \in 1 .. n /\ m \in 1 .. m
    BY <1>2, <1>3, <1>5
  <2>2. PICK i \in 1 .. n : held[i] = pressedKeys[m]
    BY <1>1, <1>2, <2>1 DEF Holds
  <2>3. ASSUME i # n PROVE FALSE
    <3>1. Before(held, pressedKeys[m], held[n])
      BY <1>2, <2>1, <2>2, <2>3 DEF Before
    <3>2. Before(pressedKeys, pressedKeys[m], held[n])
      BY <1>1, <1>2, <2>1, <3>1
    <3>3. PICK a, b \in 1 .. m : a < b /\ pressedKeys[a] = pressedKeys[m]
      BY <1>2, <3>2 DEF Before
    <3>4. a = m
      BY <1>1, <1>2, <2>1, <3>3 DEF IsInjective
    <3> QED
      BY <1>2, <3>3, <3>4
  <2> QED
    BY <1>2, <1>3, <1>5, <2>2, <2>3 DEF LastKey, n, m
<1> QED
  BY <1>4, <1>5

LEMMA Invariance == Spec => []IInv
<1>1. Init => IInv
  BY InitInv
<1>2. IInv /\ [Next]_vars => IInv'
  BY NextInv
<1> QED
  BY <1>1, <1>2, PTL DEF Spec

\* For any keys and any number of posts under way, keyboard, page and server have their
\* types, and no list holds a key twice.
THEOREM TypeCorrect == Spec => []TypeOK
<1>1. IInv => TypeOK
  BY DEF IInv
<1> QED
  BY <1>1, Invariance, PTL

\* For any keys and any number of posts under way, whatever is lost or overtaken: once the
\* newest post is the last that was served, the dog obeys the keys.
THEOREM DogObeys == Spec => []KeysObeyed
<1>1. IInv => KeysObeyed
  BY LastAgrees DEF IInv, NewestSays, KeysObeyed
<1> QED
  BY <1>1, Invariance, PTL
=============================================================================
