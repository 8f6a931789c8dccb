------------------------------- MODULE DogPark -------------------------------
(***************************************************************************)
(* What the game promises to those who play it, without sessions, tokens,  *)
(* requests or indexes: dogs appear on the streets of a map, are turned by *)
(* their players, and, when time passes, run ahead along one street until  *)
(* they are stopped at its end.  GameServer implements it.                 *)
(***************************************************************************)
EXTENDS Integers

CONSTANTS
  Maps,
  Streets   \* the streets of each map, rectangles from a corner lo to a corner hi

VARIABLE park   \* the dogs, by id: where each is, the way it faces, whether it runs

Within(street, p) ==
  /\ street.lo.x <= p.x /\ p.x <= street.hi.x
  /\ street.lo.y <= p.y /\ p.y <= street.hi.y

\* A point further on from p for a dog that faces dir, or p itself.
Onward(p, dir, q) ==
  CASE dir = "D" -> q.x = p.x /\ q.y >= p.y
    [] dir = "U" -> q.x = p.x /\ q.y <= p.y
    [] dir = "R" -> q.y = p.y /\ q.x >= p.x
    [] dir = "L" -> q.y = p.y /\ q.x <= p.x
    [] dir = "S" -> q = p

\* The end of the street for a dog that faces dir.
AtEnd(street, p, dir) ==
  CASE dir = "D" -> p.y = street.hi.y
    [] dir = "U" -> p.y = street.lo.y
    [] dir = "R" -> p.x = street.hi.x
    [] dir = "L" -> p.x = street.lo.x
    [] dir = "S" -> TRUE

Init == park = [id \in {} |-> 0]

\* A dog appears on a street, facing up and at rest.
Appear(id) ==
  /\ DOMAIN park' = DOMAIN park \cup {id}
  /\ \A i \in DOMAIN park : park'[i] = park[i]
  /\ park'[id].map \in Maps /\ park'[id].dir = "U" /\ ~park'[id].runs
  /\ \E street \in Streets[park'[id].map] : Within(street, park'[id].loc)

\* One dog is turned where it is; told to stop, it does not run.
Turn(id, dir) ==
  \E runs \in BOOLEAN :
    /\ dir = "S" => ~runs
    /\ park' = [park EXCEPT ![id].dir = dir, ![id].runs = runs]

\* What a lapse of time may make of a dog.
RunsOn(dog, moved) ==
  /\ moved.map = dog.map /\ moved.dir = dog.dir
  /\ moved.runs => dog.runs
  /\ ~dog.runs => moved.loc = dog.loc
  /\ Onward(dog.loc, dog.dir, moved.loc)
  /\ \E street \in Streets[dog.map] :
       /\ Within(street, dog.loc) /\ Within(street, moved.loc)
       /\ dog.runs /\ ~moved.runs => AtEnd(street, moved.loc, dog.dir)

\* Time passes for all dogs alike.
Lapse ==
  /\ DOMAIN park' = DOMAIN park
  /\ \A id \in DOMAIN park : RunsOn(park[id], park'[id])

Next ==
  \/ \E id \in DOMAIN park' \ DOMAIN park : Appear(id)
  \/ \E id \in DOMAIN park, dir \in {"U", "D", "L", "R", "S"} : Turn(id, dir)
  \/ Lapse

Spec == Init /\ [][Next]_park
=============================================================================
