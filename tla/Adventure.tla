----------------------------- MODULE Adventure -----------------------------
(***************************************************************************)
(* adventure.cpp, the text adventure: a map of rooms, objects that are     *)
(* carried about, a grate, a snake and a win when ten treasures are in the *)
(* building.  Commands that only print (look, inventory, map, help) are    *)
(* left out, and so is the set of rooms visited, which only map prints.    *)
(***************************************************************************)
EXTENDS Integers

CONSTANTS
  Touched,     \* bound: the objects the player takes and drops
  DropRooms    \* bound: the rooms the player drops things in

VARIABLES
  playerLocation,
  location,      \* location field of each of the objects
  grateLocked,
  vaseBroken,
  over           \* "no", "won" or "quit"

advVars == <<playerLocation, location, grateLocked, vaseBroken, over>>

Rooms == 0 .. 29
Carried == -1
Gone == -2

Treasures == {"gold", "diamonds", "silver", "jewelry", "coins", "eggs",
              "trident", "vase", "emerald", "pyramid"}
Objects == Treasures \cup {"lamp", "keys", "bottle", "food", "cage", "bird",
                           "rod", "pillow", "snake", "chest"}

ASSUME AdventureAssumption == Touched \subseteq Objects

\* Mutant: the walkthrough's way east of room 18 leads to room 21.
connections_Walkthrough ==
  { <<0, "south", 3>>, <<0, "east", 2>>, <<2, "west", 0>>, <<2, "east", 29>>,
    <<29, "west", 18>>, <<18, "east", 21>>, <<21, "east", 22>>, <<22, "down", 23>> }

\* The array connections without its entries of -1: from, direction, to.
connections ==
  { <<0, "south", 3>>, <<0, "east", 2>>, <<0, "west", 1>>, <<1, "east", 0>>,
    <<2, "west", 0>>, <<3, "north", 0>>, <<3, "south", 6>>, <<3, "west", 4>>,
    <<4, "east", 3>>, <<6, "north", 3>>, <<6, "down", 7>>, <<7, "up", 6>>,
    <<7, "down", 8>>, <<8, "west", 9>>, <<8, "up", 7>>, <<9, "east", 8>>,
    <<9, "west", 10>>, <<10, "east", 9>>, <<10, "west", 11>>, <<11, "east", 10>>,
    <<11, "west", 12>>, <<12, "east", 11>>, <<12, "west", 13>>, <<13, "east", 12>>,
    <<13, "down", 14>>, <<14, "west", 16>>, <<14, "up", 13>>, <<14, "down", 17>>,
    <<15, "down", 14>>, <<16, "north", 15>>, <<16, "south", 8>>, <<17, "north", 15>>,
    <<17, "up", 14>>, <<18, "north", 15>>, <<18, "south", 28>>, <<18, "east", 11>>,
    <<18, "west", 26>>, <<18, "up", 27>>, <<18, "down", 29>>, <<19, "north", 18>>,
    <<19, "south", 20>>, <<20, "west", 19>>, <<21, "east", 22>>, <<22, "west", 21>>,
    <<22, "down", 23>>, <<23, "east", 24>>, <<24, "north", 25>>, <<24, "south", 29>>,
    <<25, "south", 24>>, <<26, "east", 18>>, <<27, "down", 18>>, <<28, "south", 18>>,
    <<29, "north", 24>>, <<29, "west", 18>> }

\* The array objects: where each of them is at the start.
StartLocation(o) ==
  IF o \in {"lamp", "keys", "bottle", "food"} THEN 2
  ELSE IF o \in {"snake", "gold", "silver", "jewelry", "coins"} THEN 18
  ELSE IF o \in {"bird", "pyramid"} THEN 12
  ELSE IF o = "cage" THEN 9
  ELSE IF o = "rod" THEN 10
  ELSE IF o = "emerald" THEN 13
  ELSE IF o = "pillow" THEN 15
  ELSE IF o = "diamonds" THEN 17
  ELSE IF o = "eggs" THEN 23
  ELSE IF o = "vase" THEN 25
  ELSE IF o = "trident" THEN 26
  ELSE Carried    \* the chest

Init ==
  /\ playerLocation = 0
  /\ location = [o \in Objects |-> StartLocation(o)]
  /\ grateLocked = TRUE
  /\ vaseBroken = FALSE
  /\ over = "no"

\* The check at the end of the loop, of the state a command leaves behind.
AllCollected(place, things) ==
  place = 2 /\ \A t \in Treasures : things[t] = 2

CheckForWin(place, things) ==
  over' = IF AllCollected(place, things) THEN "won" ELSE "no"

GrateBars(direction) ==
  grateLocked /\ <<playerLocation, direction>> \in {<<7, "down">>, <<8, "up">>}

SnakeBars(direction) ==
  playerLocation = 18 /\ direction = "south" /\ location["snake"] = 18

go(direction) ==
  /\ over = "no"
  /\ \E c \in connections :
       /\ c[1] = playerLocation
       /\ c[2] = direction
       /\ ~GrateBars(direction)
       /\ ~SnakeBars(direction)
       /\ playerLocation' = c[3]
       /\ CheckForWin(c[3], location)
  /\ UNCHANGED <<location, grateLocked, vaseBroken>>

\* The bird is taken only with the cage in hand and the rod elsewhere.
take(o) ==
  /\ over = "no"
  /\ location[o] = playerLocation
  /\ o = "bird" => location["rod"] # Carried /\ location["cage"] = Carried
  /\ location' = [location EXCEPT ![o] = Carried]
  /\ CheckForWin(playerLocation, location')
  /\ UNCHANGED <<playerLocation, grateLocked, vaseBroken>>

Shatters(o) == o = "vase" /\ location["pillow"] # playerLocation

\* The vase breaks if it is dropped where the pillow is not; after that the
\* loop starts again without looking for a win.
dropVase ==
  /\ over = "no"
  /\ playerLocation \in DropRooms
  /\ location["vase"] = Carried
  /\ Shatters("vase")
  /\ vaseBroken' = TRUE
  /\ location' = [location EXCEPT !["vase"] = Gone]
  /\ UNCHANGED <<playerLocation, grateLocked, over>>

drop(o) ==
  /\ over = "no"
  /\ playerLocation \in DropRooms
  /\ location[o] = Carried
  /\ ~Shatters(o)
  /\ location' = [location EXCEPT
       ![o] = playerLocation,
       !["snake"] = IF o = "bird" /\ @ = playerLocation THEN Gone
                    ELSE IF o = "snake" THEN playerLocation ELSE @]
  /\ CheckForWin(playerLocation, location')
  /\ UNCHANGED <<playerLocation, grateLocked, vaseBroken>>

\* xyzzy joins rooms 2 and 10, plugh rooms 2 and 29.
sayMagicWord(far) ==
  /\ over = "no"
  /\ playerLocation \in {2, far}
  /\ playerLocation' = IF playerLocation = 2 THEN far ELSE 2
  /\ CheckForWin(playerLocation', location)
  /\ UNCHANGED <<location, grateLocked, vaseBroken>>

turnKey(locks) ==
  /\ over = "no"
  /\ playerLocation \in {7, 8}
  /\ location["keys"] = Carried
  /\ grateLocked' = locks
  /\ UNCHANGED <<playerLocation, location, vaseBroken, over>>

quit ==
  /\ over = "no"
  /\ over' = "quit"
  /\ UNCHANGED <<playerLocation, location, grateLocked, vaseBroken>>

Next ==
  \/ \E d \in {"north", "south", "east", "west", "up", "down"} : go(d)
  \/ \E o \in Touched : take(o) \/ drop(o)
  \/ dropVase
  \/ \E far \in {10, 29} : sayMagicWord(far)
  \/ \E locks \in BOOLEAN : turnKey(locks)
  \/ quit

Spec == Init /\ [][Next]_advVars

-----------------------------------------------------------------------------
(* Properties *)

TypeOK ==
  /\ playerLocation \in Rooms
  /\ location \in [Objects -> Rooms \cup {Carried, Gone}]
  /\ grateLocked \in BOOLEAN
  /\ vaseBroken \in BOOLEAN
  /\ over \in {"no", "won", "quit"}

\* The rooms no exit and no magic word leads into from anywhere else.
CutOff == 19 .. 23

\* The walkthrough at the top of the file ends with all ten treasures in the
\* building, but its way to the golden eggs (room 18, east, to room 21) is not
\* in the map: nobody ever reaches the eggs, so no play of the game is won.
EggsOutOfReach ==
  /\ playerLocation \notin CutOff
  /\ location["eggs"] = 23
  /\ over # "won"
=============================================================================
