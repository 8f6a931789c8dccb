------------------------------ MODULE KeyState ------------------------------
(***************************************************************************)
(* Steering from the browser: class KeyState of game.js, the two handlers  *)
(* of setupKeyEvents, and the posts of the player's moves on their way to  *)
(* the server, which may overtake each other or be lost.                   *)
(*                                                                         *)
(* A definition marked (fault) is no part of the model: it is the next one *)
(* with a mistake in it, that the property below tells from the real one.  *)
(***************************************************************************)
EXTENDS Integers, Sequences, SequencesExt

CONSTANTS
  Keys,     \* the arrow keys a player uses, by their directions
  NoKey,    \* the empty string: no key is pressed
  MaxPosts  \* bound on the posts under way at a time

ASSUME KeyAssumption == NoKey \notin Keys /\ MaxPosts \in Nat

VARIABLES
  held,         \* the keys that are down on the keyboard, in the order pressed
  listening,    \* setupKeyEvents has been called
  pressedKeys,  \* KeyState.pressedKeys
  posts,        \* the moves posted and not yet handled, in the order posted
  facing,       \* where the server's dog was last told to go
  newest,       \* what became of the newest post
  missed        \* the keys of which the page missed an event, until their next keyup

server == <<posts, facing, newest>>
vars   == <<held, listening, pressedKeys, missed, server>>

Directions == Keys \cup {NoKey}

\* Keys are pressed once each, posts are under the bound.
TypeOK ==
  /\ held \in Seq(Keys) /\ IsInjective(held)
  /\ listening \in BOOLEAN
  /\ pressedKeys \in Seq(Keys) /\ IsInjective(pressedKeys)
  /\ posts \in Seq(Directions) /\ Len(posts) <= MaxPosts
  /\ facing \in Directions
  /\ newest \in {"under_way", "served", "overtaken", "lost"}
  /\ missed \subseteq Keys

Init ==
  /\ held = <<>> /\ listening = FALSE /\ pressedKeys = <<>>
  /\ posts = <<>> /\ facing = NoKey /\ newest = "served"
  /\ missed = {}

\* indexOf(key) is not -1.
Holds(keys, k) == \E i \in DOMAIN keys : keys[i] = k

\* splice(indexOf(key), 1).
Without(keys, k) == RemoveAt(keys, CHOOSE i \in DOMAIN keys : keys[i] = k)

\* getLastKey.
LastKey(keys) == IF keys = <<>> THEN NoKey ELSE keys[Len(keys)]

\* _pressKey: the direction is posted; nothing waits for the answer.
PressKey(dir) ==
  /\ Len(posts) < MaxPosts
  /\ posts' = Append(posts, dir)
  /\ newest' = "under_way"
  /\ UNCHANGED facing

\* (fault) A repeated keydown is pushed again.
KeyDownRepeats(k) ==
  pressedKeys' = Append(pressedKeys, k) /\ PressKey(LastKey(pressedKeys'))

\* keyDown: a key that is pressed already is a repetition and changes nothing.
KeyDown(k) ==
  IF Holds(pressedKeys, k) THEN UNCHANGED <<pressedKeys, server>>
  ELSE pressedKeys' = Append(pressedKeys, k) /\ PressKey(LastKey(pressedKeys'))

\* (fault) The last key is taken out, whichever was let go.
KeyUpPops(k) ==
  IF Holds(pressedKeys, k)
  THEN pressedKeys' = Front(pressedKeys) /\ PressKey(LastKey(pressedKeys'))
  ELSE UNCHANGED <<pressedKeys, server>>

\* keyUp: what is pressed then is posted, be it nothing.
KeyUp(k) ==
  IF Holds(pressedKeys, k)
  THEN pressedKeys' = Without(pressedKeys, k) /\ PressKey(LastKey(pressedKeys'))
  ELSE UNCHANGED <<pressedKeys, server>>

-----------------------------------------------------------------------------
(* The keyboard and the browser.                                           *)

\* The game is made: from now on the page sees the keys.
SetupKeyEvents ==
  /\ ~listening /\ listening' = TRUE
  /\ UNCHANGED <<held, pressedKeys, missed, server>>

Press(k) ==
  /\ ~Holds(held, k) /\ held' = Append(held, k)
  /\ \/ listening /\ KeyDown(k) /\ UNCHANGED missed
     \/ ~listening /\ missed' = missed \cup {k} /\ UNCHANGED <<pressedKeys, server>>
  /\ UNCHANGED listening

\* The keydown of a key that stays down comes again and again.
Repeat(k) ==
  /\ listening /\ Holds(held, k) /\ KeyDown(k)
  /\ UNCHANGED <<held, listening, missed>>

Release(k) ==
  /\ Holds(held, k) /\ held' = Without(held, k)
  /\ \/ listening /\ KeyUp(k)
     \/ ~listening /\ UNCHANGED <<pressedKeys, server>>
  /\ missed' = missed \ {k}
  /\ UNCHANGED listening

\* The player turns to another window and lets go of the keys there.
Blur ==
  /\ held # <<>> /\ held' = <<>>
  /\ missed' = IF listening THEN missed \cup {held[i] : i \in DOMAIN held} ELSE {}
  /\ UNCHANGED <<listening, pressedKeys, server>>

-----------------------------------------------------------------------------
(* The network and the server.                                             *)

\* A move request is handled; posts go over several connections, so any may be next.
Serve(i) ==
  /\ facing' = posts[i]
  /\ posts' = RemoveAt(posts, i)
  /\ newest' = CASE newest = "under_way" /\ i = Len(posts) -> "served"
                 [] newest = "served" -> "overtaken"
                 [] OTHER -> newest
  /\ UNCHANGED <<held, listening, pressedKeys, missed>>

\* A post never reaches the server, or is refused there.  There is no .fail to notice.
Lose(i) ==
  /\ posts' = RemoveAt(posts, i)
  /\ newest' = IF newest = "under_way" /\ i = Len(posts) THEN "lost" ELSE newest
  /\ UNCHANGED <<held, listening, pressedKeys, missed, facing>>

Next ==
  \/ SetupKeyEvents
  \/ \E k \in Keys : Press(k)
  \/ \E k \in Keys : Repeat(k)
  \/ \E k \in Keys : Release(k)
  \/ Blur
  \/ \E i \in DOMAIN posts : Serve(i)
  \/ \E i \in DOMAIN posts : Lose(i)

Spec == Init /\ [][Next]_vars

-----------------------------------------------------------------------------
(* Properties.                                                             *)

\* The dog goes the way of the key pressed last of those still down, and stands when
\* none is: whatever was pressed, repeated, released, lost or overtaken before, it is
\* enough that the server has handled the newest post, and no older one after it, and
\* that no key is down or was let go behind the page's back.
KeysObeyed == newest = "served" /\ missed = {} => facing = LastKey(held)
=============================================================================
