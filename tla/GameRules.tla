----------------------------- MODULE GameRules -----------------------------
(***************************************************************************)
(* The rules of Pas-Cman, as operators without state: the data of          *)
(* struct GameState (game.h), the identifiers and messages of the protocol *)
(* (pascman.h) and what game.c computes from a state, a player and a       *)
(* direction.  Game makes a state machine of them, LoadMap and Server take *)
(* them apart into the steps other processes can interleave with.          *)
(*                                                                         *)
(* A definition whose name adds a word to that of the one it precedes      *)
(* (EatUncounted, Eat) is a bug one could write in its place; the specs    *)
(* never use it.                                                           *)
(***************************************************************************)
EXTENDS Integers, FiniteSets, Sequences

CONSTANTS WIDTH, HEIGHT      \* dimensions of the map (30 and 20 in pascman.h)

ASSUME SizeAssumption == WIDTH \in Nat \ {0} /\ HEIGHT \in Nat \ {0}

MAP_SIZE  == WIDTH * HEIGHT
Cells     == 0 .. MAP_SIZE - 1
Position  == [x : 0 .. WIDTH - 1, y : 0 .. HEIGHT - 1]
Player    == {1, 2}                                \* player_offset + 1
Other(p)  == IF p = 1 THEN 2 ELSE 1
Direction == {"DOWN", "RIGHT", "LEFT", "UP"}
Edible    == {"FOOD", "SUPERFOOD"}
Tile      == {"WALL", "FLOOR"} \cup Edible
Item      == Tile \cup {"NONE"}                    \* NONE: the 0 of a memset

GameState == [map        : [Cells -> Item],
              scores     : [Player -> Nat],
              food_count : Int,
              positions  : [Player -> Position],
              game_over  : BOOLEAN]

Position2Index(pos) == pos.y * WIDTH + pos.x

-----------------------------------------------------------------------------
(* Identifiers and messages.                                               *)

PlayerId(p) == 3 * MAP_SIZE + (p - 1)              \* PLAYER1_ID, PLAYER2_ID

BaseIdShared(item) == 0                            \* one range for food and tiles

BaseId(item) == IF item \in Edible THEN 0 ELSE MAP_SIZE

Id(x, y, item) ==
  CASE item = "PLAYER1" -> PlayerId(1)
    [] item = "PLAYER2" -> PlayerId(2)
    [] OTHER            -> BaseId(item) + (y * WIDTH + x)

Spawn(x, y, item) ==
  [msgt |-> "SPAWN", id |-> Id(x, y, item), item |-> item, pos |-> [x |-> x, y |-> y]]

Moved(p, to) == [msgt |-> "MOVEMENT", id |-> PlayerId(p), pos |-> to]
Eaten(p, to, item) == [msgt |-> "EAT_FOOD", eater |-> PlayerId(p),
                       food |-> Id(to.x, to.y, item)]
GameOver(w) == [msgt |-> "GAME_OVER", winner |-> w]
Registered(p) == [msgt |-> "REGISTRATION", player |-> p]

-----------------------------------------------------------------------------
(* reset_gamestate and load_map.  A level is what the map file says of     *)
(* each cell, row by row.                                                  *)

Glyph == {"#", ".", "*", " ", "@", "!"}
Mark  == [p \in Player |-> IF p = 1 THEN "@" ELSE "!"]

TileOf(g) == CASE g = "#" -> "WALL"
               [] g = "." -> "FOOD"
               [] g = "*" -> "SUPERFOOD"
               [] OTHER   -> "FLOOR"

\* What is spawned for a character, in this order.
SpawnsFloorless(g, i, j) ==
  CASE g = "#" -> <<Spawn(i, j, "WALL")>>
    [] g = "." -> <<Spawn(i, j, "FOOD")>>
    [] g = "*" -> <<Spawn(i, j, "SUPERFOOD")>>
    [] g = " " -> <<Spawn(i, j, "FLOOR")>>
    [] g = "@" -> <<Spawn(i, j, "PLAYER1"), Spawn(i, j, "FLOOR")>>
    [] g = "!" -> <<Spawn(i, j, "PLAYER2"), Spawn(i, j, "FLOOR")>>

Spawns(g, i, j) ==
  CASE g = "#" -> <<Spawn(i, j, "WALL")>>
    [] g = "." -> <<Spawn(i, j, "FLOOR"), Spawn(i, j, "FOOD")>>
    [] g = "*" -> <<Spawn(i, j, "FLOOR"), Spawn(i, j, "SUPERFOOD")>>
    [] g = " " -> <<Spawn(i, j, "FLOOR")>>
    [] g = "@" -> <<Spawn(i, j, "PLAYER1"), Spawn(i, j, "FLOOR")>>
    [] g = "!" -> <<Spawn(i, j, "PLAYER2"), Spawn(i, j, "FLOOR")>>

Origin == [x |-> 0, y |-> 0]

ResetState == [map        |-> [c \in Cells |-> "NONE"],
               scores     |-> [p \in Player |-> 0],
               food_count |-> 0,
               positions  |-> [p \in Player |-> Origin],
               game_over  |-> TRUE]

\* One character of the file: the tile goes at offset pos, a player at (x, y).
PutGlyph(st, pos, x, y, g) ==
  [st EXCEPT !.map[pos]    = TileOf(g),
             !.food_count  = IF TileOf(g) \in Edible THEN @ + 1 ELSE @,
             !.positions   = [p \in Player |-> IF g = Mark[p] THEN [x |-> x, y |-> y]
                                                              ELSE @[p]]]

EdibleCells(map) == {c \in Cells : map[c] \in Edible}

\* What a whole load_map leaves in the state; LoadMap checks the loop against it.
Load(level) ==
  LET map == [c \in Cells |-> TileOf(level[c])] IN
  [map        |-> map,
   scores     |-> [p \in Player |-> 0],
   food_count |-> Cardinality(EdibleCells(map)),
   positions  |-> [p \in Player |->
                    CHOOSE pos \in Position : level[Position2Index(pos)] = Mark[p]],
   game_over  |-> EdibleCells(map) = {}]

\* A level with both players on it, each of them once, as every map of the repository.
IsLevel(level) ==
  /\ level \in [Cells -> Glyph]
  /\ \A p \in Player : \E pos \in Position :
       \A other \in Position : level[Position2Index(other)] = Mark[p] <=> other = pos

-----------------------------------------------------------------------------
(* process_user_command, in the pieces its control flow is made of.        *)

Shift(pos, dir) ==
  CASE dir = "UP"    -> [pos EXCEPT !.y = @ - 1]
    [] dir = "DOWN"  -> [pos EXCEPT !.y = @ + 1]
    [] dir = "LEFT"  -> [pos EXCEPT !.x = @ - 1]
    [] dir = "RIGHT" -> [pos EXCEPT !.x = @ + 1]

\* The bounds tests keep a player who faces the border of the map where it is.
NextPosition(pos, dir) == LET to == Shift(pos, dir) IN IF to \in Position THEN to ELSE pos

ValueFlat(item) == 1                               \* superfood worth no more

Value(item) == IF item = "SUPERFOOD" THEN 17 ELSE 1

Winner(st) == IF st.scores[1] > st.scores[2] THEN 1 ELSE 2

CollidesWithSelf(st, p, next) == next = st.positions[p]

Collides(st, p, next) == next = st.positions[Other(p)]

Collide(st) == [st EXCEPT !.game_over = TRUE]

Walk(st, p, next) == [st EXCEPT !.positions[p] = next]

EatMarksPlayer(st, p, next, item) ==
  [st EXCEPT !.map[Position2Index(next)] = IF p = 1 THEN "PLAYER1" ELSE "PLAYER2",
             !.positions[p]  = next,
             !.scores[p]     = @ + Value(item),
             !.food_count    = @ - 1,
             !.game_over     = @ \/ st.food_count = 1]

EatUncounted(st, p, next, item) ==
  [st EXCEPT !.map[Position2Index(next)] = "FLOOR",
             !.positions[p]  = next,
             !.scores[p]     = @ + Value(item)]

EatOverEarly(st, p, next, item) ==
  [st EXCEPT !.map[Position2Index(next)] = "FLOOR",
             !.positions[p]  = next,
             !.scores[p]     = @ + Value(item),
             !.food_count    = @ - 1,
             !.game_over     = @ \/ st.food_count = 2]

EatNeverOver(st, p, next, item) ==
  [st EXCEPT !.map[Position2Index(next)] = "FLOOR",
             !.positions[p]  = next,
             !.scores[p]     = @ + Value(item),
             !.food_count    = @ - 1]

Eat(st, p, next, item) ==
  [st EXCEPT !.map[Position2Index(next)] = "FLOOR",
             !.positions[p]  = next,
             !.scores[p]     = @ + Value(item),
             !.food_count    = @ - 1,
             !.game_over     = @ \/ st.food_count = 1]

EnterAnything(st, p, next, item) ==
  IF item \in Edible THEN Eat(st, p, next, item) ELSE Walk(st, p, next)

\* The effect of entering a cell that held item, and what is written for it.
Enter(st, p, next, item) ==
  CASE item = "FLOOR"   -> Walk(st, p, next)
    [] item \in Edible  -> Eat(st, p, next, item)
    [] OTHER            -> st

EnterMessagesMoveOnly(p, next, item) ==
  IF item \in {"FLOOR"} \cup Edible THEN <<Moved(p, next)>> ELSE << >>

EnterMessages(p, next, item) ==
  CASE item = "FLOOR"   -> <<Moved(p, next)>>
    [] item \in Edible  -> <<Moved(p, next), Eaten(p, next, item)>>
    [] OTHER            -> << >>

=============================================================================
