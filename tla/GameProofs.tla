----------------------------- MODULE GameProofs -----------------------------
(***************************************************************************)
(* Theorems about Game for maps of every size and every set of levels: the *)
(* type invariant, and the invariants that tie the position of the players *)
(* and the food_count kept by hand to the map.                             *)
(***************************************************************************)
EXTENDS Game, RulesProofs

\* Being one step apart does not depend on who looks.
LEMMA AdjacentSymmetric ==
  ASSUME NEW a \in Position, NEW b \in Position, Adjacent(b, a)
  PROVE  Adjacent(a, b)
<1>1. PICK dir \in Direction : Shift(b, dir) = a BY DEF Adjacent
<1>2. CASE dir = "UP"
  <2>1. Shift(a, "DOWN") = b BY <1>1, <1>2 DEF Shift, Position
  <2> QED BY <2>1 DEF Adjacent, Direction
<1>3. CASE dir = "DOWN"
  <2>1. Shift(a, "UP") = b BY <1>1, <1>3 DEF Shift, Position
  <2> QED BY <2>1 DEF Adjacent, Direction
<1>4. CASE dir = "LEFT"
  <2>1. Shift(a, "RIGHT") = b BY <1>1, <1>4 DEF Shift, Position
  <2> QED BY <2>1 DEF Adjacent, Direction
<1>5. CASE dir = "RIGHT"
  <2>1. Shift(a, "LEFT") = b BY <1>1, <1>5 DEF Shift, Position
  <2> QED BY <2>1 DEF Adjacent, Direction
<1> QED BY <1>2, <1>3, <1>4, <1>5 DEF Direction

-----------------------------------------------------------------------------
(* The points left on the map.                                             *)

\* The cells that hold one kind of food can be counted.
LEMMA KindFinite ==
  ASSUME NEW map, NEW item \in Edible
  PROVE  LET cells == {c \in Cells : map[c] = item}
         IN  IsFiniteSet(cells) /\ Cardinality(cells) \in Nat
<1>1. IsFiniteSet(EdibleCells(map)) BY EdiblesFinite
<1>2. {c \in Cells : map[c] = item} \in SUBSET EdibleCells(map) BY DEF EdibleCells
<1> QED BY <1>1, <1>2, FS_Subset, FS_CardinalityType

LEMMA WorthTyped == ASSUME NEW map PROVE Worth(map) \in Nat
<1>1. /\ Cardinality({c \in Cells : map[c] = "FOOD"}) \in Nat
      /\ Cardinality({c \in Cells : map[c] = "SUPERFOOD"}) \in Nat
  BY KindFinite DEF Edible
<1> QED BY <1>1 DEF Worth

LEMMA WorthDrops ==
  ASSUME NEW map \in [Cells -> Item], NEW c \in Cells, map[c] \in Edible
  PROVE  Worth([map EXCEPT ![c] = "FLOOR"]) = Worth(map) - Value(map[c])
<1> DEFINE floored == [map EXCEPT ![c] = "FLOOR"]
           Of(m, item) == {d \in Cells : m[d] = item}
<1>1. /\ IsFiniteSet(Of(map, "FOOD")) /\ Cardinality(Of(map, "FOOD")) \in Nat
      /\ IsFiniteSet(Of(map, "SUPERFOOD")) /\ Cardinality(Of(map, "SUPERFOOD")) \in Nat
  BY KindFinite DEF Edible
<1>2. /\ Cardinality(Of(map, "FOOD")) \in Nat
      /\ Cardinality(Of(map, "SUPERFOOD")) \in Nat
  BY <1>1
<1>3. /\ Of(floored, "FOOD") = Of(map, "FOOD") \ {c}
      /\ Of(floored, "SUPERFOOD") = Of(map, "SUPERFOOD") \ {c}
  OBVIOUS
<1>4. /\ Cardinality(Of(floored, "FOOD"))
           = IF c \in Of(map, "FOOD") THEN Cardinality(Of(map, "FOOD")) - 1
                                      ELSE Cardinality(Of(map, "FOOD"))
      /\ Cardinality(Of(floored, "SUPERFOOD"))
           = IF c \in Of(map, "SUPERFOOD") THEN Cardinality(Of(map, "SUPERFOOD")) - 1
                                           ELSE Cardinality(Of(map, "SUPERFOOD"))
  BY <1>1, <1>3, FS_RemoveElement
<1>5. /\ Worth(map) = Cardinality(Of(map, "FOOD")) + 17 * Cardinality(Of(map, "SUPERFOOD"))
      /\ Worth(floored)
           = Cardinality(Of(floored, "FOOD")) + 17 * Cardinality(Of(floored, "SUPERFOOD"))
  BY DEF Worth
<1>6. CASE map[c] = "FOOD"
  <2>1. c \in Of(map, "FOOD") /\ c \notin Of(map, "SUPERFOOD") BY <1>6
  <2>2. Value(map[c]) = 1 BY <1>6 DEF Value
  <2> HIDE DEF Of, floored
  <2> QED BY <1>2, <1>4, <1>5, <2>1, <2>2 DEF floored
<1>7. CASE map[c] = "SUPERFOOD"
  <2>1. c \notin Of(map, "FOOD") /\ c \in Of(map, "SUPERFOOD") BY <1>7
  <2>2. Value(map[c]) = 17 BY <1>7 DEF Value
  <2> HIDE DEF Of, floored
  <2> QED BY <1>2, <1>4, <1>5, <2>1, <2>2 DEF floored
<1> QED BY <1>6, <1>7 DEF Edible


-----------------------------------------------------------------------------
(* Types.                                                                  *)

\* The variables keep their types, and the level one the server was started with.
Typed == TypeOK /\ IsLevel(level)

LEMMA TypedInit == Init => Typed
<1>1. SUFFICES ASSUME Init PROVE Typed OBVIOUS
<1>2. IsLevel(level) BY <1>1, LevelsAssumption DEF Init
<1>3. level \in [Cells -> Glyph] BY <1>2 DEF IsLevel
<1>4. [ResetState EXCEPT !.game_over = FALSE] \in GameState
  BY ResetTyped DEF GameState
<1> QED BY <1>1, <1>2, <1>3, <1>4 DEF Init, Typed, TypeOK

LEMMA TypedNext == Typed /\ [Next]_vars => Typed'
<1> SUFFICES ASSUME Typed, [Next]_vars PROVE Typed'
  OBVIOUS
<1> USE DEF Typed, TypeOK
<1>1. CASE LoadMap BY <1>1, LoadTyped DEF LoadMap
<1>2. CASE Reset BY <1>2, ResetTyped DEF Reset
<1>3. ASSUME NEW p \in Player, NEW dir \in Direction, Command(p, dir)
      PROVE  Typed'
  <2> DEFINE next == NextPosition(state.positions[p], dir)
  <2>1. CASE AlreadyOver(p, dir) BY <2>1 DEF AlreadyOver
  <2>2. CASE Collision(p, dir) BY <2>2, CollideFields DEF Collision
  <2>3. CASE Entry(p, dir)
    <3>1. next \in Position BY NextOnMap DEF GameState
    <3>2. state' \in GameState BY <2>3, <3>1, EnterTyped DEF Entry
    <3> QED BY <2>3, <3>2 DEF Entry
  <2> QED BY <1>3, <2>1, <2>2, <2>3 DEF Command
<1>4. CASE UNCHANGED vars BY <1>4 DEF vars
<1> QED BY <1>1, <1>2, <1>3, <1>4 DEF Next

\* TypeOK holds in every behaviour of the game, on a map of any size: no step of
\* game.c moves a player off the map or indexes map[] outside its bounds.
THEOREM TypeCorrect == Spec => []TypeOK
<1>1. Typed => TypeOK BY DEF Typed
<1> QED BY <1>1, TypedInit, TypedNext, PTL DEF Spec


-----------------------------------------------------------------------------
(* Safety.  The invariants support each other: that the mover's cell was   *)
(* not the other player's needs PlayersApart, that the last prize ends the *)
(* game needs FoodCounted.                                                 *)

Safe == /\ FoodCounted
        /\ PlayersOnFloor
        /\ PlayersApart
        /\ PointsConserved
        /\ OverJustified

LEMMA SafeInit == Init => Safe
BY DEF Init, Safe, FoodCounted, PlayersOnFloor, PlayersApart, PointsConserved, OverJustified

\* Each part of the invariant after a load_map.
LEMMA SafeLoad == Typed /\ LoadMap => Safe'
<1> SUFFICES ASSUME Typed, LoadMap PROVE Safe'
  OBVIOUS
<1> DEFINE map == [c \in Cells |-> TileOf(level[c])]
<1>1. state' = Load(level) /\ level' = level /\ loaded' BY DEF LoadMap
<1>2. IsLevel(level) BY DEF Typed
<1>3. /\ state'.map = map
      /\ state'.food_count = Cardinality(EdibleCells(map))
      /\ state'.scores = [p \in Player |-> 0]
      /\ state'.game_over <=> EdibleCells(map) = {}
  BY <1>1 DEF Load
<1>4. /\ state'.positions \in [Player -> Position]
      /\ \A p \in Player : level[Position2Index(state'.positions[p])] = Mark[p]
  BY <1>1, <1>2, LoadPlaces
<1>5. FoodCounted' BY <1>3 DEF FoodCounted
<1>6. PlayersOnFloor'
  <2> SUFFICES ASSUME NEW p \in Player
               PROVE  state'.map[Position2Index(state'.positions[p])] = "FLOOR"
    BY DEF PlayersOnFloor
  <2>1. state'.positions[p] \in Position BY <1>4
  <2>2. Position2Index(state'.positions[p]) \in Cells BY <2>1, IndexInCells
  <2>3. TileOf(Mark[p]) = "FLOOR" BY DEF Mark, Player, TileOf
  <2> QED BY <1>3, <1>4, <2>2, <2>3
<1>7. PlayersApart'
  <2>1. Mark[1] # Mark[2] /\ 1 \in Player /\ 2 \in Player BY DEF Mark, Player
  <2> QED BY <1>4, <2>1 DEF PlayersApart
<1>8. PointsConserved'
  <2>1. state'.scores[1] = 0 /\ state'.scores[2] = 0 BY <1>3 DEF Player
  <2>2. Worth(map) \in Nat BY WorthTyped
  <2> QED BY <1>1, <1>3, <2>1, <2>2 DEF PointsConserved
<1>9. OverJustified'
  <2>1. state'.food_count = 0 <=> EdibleCells(map) = {}
    BY <1>3, EdiblesFinite, FS_EmptySet
  <2> QED BY <1>3, <2>1 DEF OverJustified
<1> QED BY <1>5, <1>6, <1>7, <1>8, <1>9 DEF Safe

\* A collision ends the game in front of the other player and changes nothing else.
LEMMA SafeCollision ==
  ASSUME Typed, Safe, loaded, NEW p \in Player, NEW dir \in Direction, Collision(p, dir)
  PROVE  Safe'
<1>1. /\ state' = Collide(state) /\ state \in GameState
      /\ level' = level /\ loaded' = loaded
  BY DEF Collision, Typed, TypeOK
<1>2. /\ state'.map = state.map
      /\ state'.positions = state.positions
      /\ state'.scores = state.scores
      /\ state'.food_count = state.food_count
      /\ state'.game_over
  BY <1>1, CollideFields
<1>3. Adjacent(state.positions[1], state.positions[2])
        \/ Adjacent(state.positions[2], state.positions[1])
  <2>1. NextPosition(state.positions[p], dir) = state.positions[Other(p)]
    BY DEF Collision, Collides
  <2>2. state.positions[p] # state.positions[Other(p)]
    BY DEF Safe, PlayersApart, Player, Other
  <2>3. Shift(state.positions[p], dir) = state.positions[Other(p)]
    BY <2>1, <2>2 DEF NextPosition
  <2> QED BY <2>3 DEF Adjacent, Player, Other
<1>4. Adjacent(state.positions[1], state.positions[2])
  BY <1>1, <1>3, AdjacentSymmetric DEF GameState, Player
<1> QED BY <1>1, <1>2, <1>4 DEF Safe, FoodCounted, PlayersOnFloor, PlayersApart,
                            PointsConserved, OverJustified

\* Eating is the only step that moves points, food and the end of the game at once.
LEMMA SafeEat ==
  ASSUME Typed, Safe, loaded,
         NEW p \in Player, NEW next \in Position, ~Collides(state, p, next),
         ~state.game_over, state.map[Position2Index(next)] \in Edible,
         state' = Eat(state, p, next, state.map[Position2Index(next)]),
         UNCHANGED <<level, loaded>>
  PROVE  Safe'
<1> DEFINE c == Position2Index(next)
           item == state.map[c]
<1>1. state \in GameState /\ c \in Cells /\ state.map \in [Cells -> Item]
  BY IndexInCells DEF Typed, TypeOK, GameState
<1>2. /\ state'.map = [state.map EXCEPT ![c] = "FLOOR"]
      /\ state'.positions = [state.positions EXCEPT ![p] = next]
      /\ state'.scores = [state.scores EXCEPT ![p] = @ + Value(item)]
      /\ state'.food_count = state.food_count - 1
      /\ state'.game_over <=> (state.game_over \/ state.food_count = 1)
  <2>1. state' = Eat(state, p, next, item) OBVIOUS
  <2> HIDE DEF item
  <2> DEFINE st == Eat(state, p, next, item)
  <2>2. /\ st.map = [state.map EXCEPT ![c] = "FLOOR"]
        /\ st.positions = [state.positions EXCEPT ![p] = next]
        /\ st.scores = [state.scores EXCEPT ![p] = @ + Value(item)]
        /\ st.food_count = state.food_count - 1
        /\ st.game_over <=> (state.game_over \/ state.food_count = 1)
    BY <1>1, EatFields
  <2> HIDE DEF st
  <2> QED BY <2>1, <2>2 DEF st
<1>3. FoodCounted'
  <2>1. /\ c \in EdibleCells(state.map)
        /\ EdibleCells(state'.map) = EdibleCells(state.map) \ {c}
    BY <1>1, <1>2, EatenCell
  <2>2. Cardinality(EdibleCells(state'.map)) = Cardinality(EdibleCells(state.map)) - 1
    BY <2>1, EdiblesFinite, FS_RemoveElement
  <2> QED BY <1>2, <2>2 DEF Safe, FoodCounted
<1>4. PlayersOnFloor'
  <2> SUFFICES ASSUME NEW q \in Player
               PROVE  state'.map[Position2Index(state'.positions[q])] = "FLOOR"
    BY DEF PlayersOnFloor
  <2>1. CASE q = p BY <1>1, <1>2, <2>1 DEF GameState
  <2>2. CASE q # p
    <3>1. state'.positions[q] = state.positions[q] BY <1>1, <1>2, <2>2 DEF GameState
    <3>2. state.map[Position2Index(state.positions[q])] = "FLOOR"
      BY DEF Safe, PlayersOnFloor
    <3>3. Position2Index(state.positions[q]) \in Cells
      BY <1>1, IndexInCells DEF GameState
    <3> QED BY <1>1, <1>2, <3>1, <3>2, <3>3
  <2> QED BY <2>1, <2>2
<1>5. PlayersApart'
  BY <1>1, <1>2 DEF Safe, PlayersApart, Collides, Other, Player, GameState
<1>6. PointsConserved'
  <2>1. Worth(state'.map) = Worth(state.map) - Value(item) BY <1>1, <1>2, WorthDrops
  <2>2. state'.scores[1] + state'.scores[2]
          = state.scores[1] + state.scores[2] + Value(item)
    <3>1. Value(item) \in Nat BY DEF Value
    <3>2. state.scores \in [Player -> Nat] BY <1>1 DEF GameState
    <3> HIDE DEF item, c
    <3> QED BY <1>2, <3>1, <3>2 DEF Player
  <2>3. Worth(state.map) \in Nat /\ Value(item) \in Nat BY WorthTyped DEF Value
  <2>4. state.scores[1] \in Nat /\ state.scores[2] \in Nat
    BY <1>1 DEF GameState, Player
  <2>5. state'.scores[1] \in Int /\ state'.scores[2] \in Int
    <3>1. state.scores \in [Player -> Nat] BY <1>1 DEF GameState
    <3> HIDE DEF item, c
    <3> QED BY <1>2, <2>3, <3>1 DEF Player
  <2> HIDE DEF item, c
  <2> QED BY <2>1, <2>2, <2>3, <2>4, <2>5 DEF Safe, PointsConserved
<1>7. OverJustified'
  <2>1. state.food_count \in Int BY <1>1 DEF GameState
  <2> QED BY <1>2, <2>1 DEF OverJustified
<1> QED BY <1>3, <1>4, <1>5, <1>6, <1>7 DEF Safe

LEMMA SafeWalk ==
  ASSUME Typed, Safe, loaded,
         NEW p \in Player, NEW next \in Position, ~Collides(state, p, next),
         ~state.game_over, state.map[Position2Index(next)] = "FLOOR",
         state' = Walk(state, p, next),
         UNCHANGED <<level, loaded>>
  PROVE  Safe'
<1>1. state \in GameState BY DEF Typed, TypeOK
<1>2. /\ state'.map = state.map
      /\ state'.positions = [state.positions EXCEPT ![p] = next]
      /\ state'.scores = state.scores
      /\ state'.food_count = state.food_count
      /\ state'.game_over <=> state.game_over
  BY <1>1, WalkFields
<1>3. FoodCounted' /\ PointsConserved' BY <1>2 DEF Safe, FoodCounted, PointsConserved
<1>4. PlayersOnFloor'
  BY <1>1, <1>2 DEF Safe, PlayersOnFloor, GameState
<1>5. PlayersApart'
  BY <1>1, <1>2 DEF Safe, PlayersApart, Collides, Other, Player, GameState
<1>6. OverJustified' BY <1>2 DEF Safe, OverJustified
<1> QED BY <1>3, <1>4, <1>5, <1>6 DEF Safe

LEMMA SafeNext == Typed /\ Safe /\ [Next]_vars => Safe'
<1> SUFFICES ASSUME Typed, Safe, [Next]_vars PROVE Safe'
  OBVIOUS
<1>1. CASE LoadMap BY <1>1, SafeLoad
<1>2. CASE Reset
  BY <1>2 DEF Reset, Safe, FoodCounted, PlayersOnFloor, PlayersApart,
              PointsConserved, OverJustified
<1>3. ASSUME NEW p \in Player, NEW dir \in Direction, Command(p, dir)
      PROVE  Safe'
  <2>1. loaded BY <1>3 DEF Command
  <2>2. CASE AlreadyOver(p, dir)
    BY <2>2 DEF AlreadyOver, Safe, FoodCounted, PlayersOnFloor, PlayersApart,
                PointsConserved, OverJustified
  <2>3. CASE Collision(p, dir) BY <2>1, <2>3, SafeCollision
  <2>4. CASE Entry(p, dir)
    <3> DEFINE next == NextPosition(state.positions[p], dir)
               item == state.map[Position2Index(next)]
    <3>1. next \in Position BY NextOnMap DEF Typed, TypeOK, GameState
    <3>2. /\ ~state.game_over /\ ~Collides(state, p, next)
          /\ state' = Enter(state, p, next, item)
          /\ UNCHANGED <<level, loaded>>
      BY <2>4 DEF Entry
    <3> HIDE DEF next
    <3>3. CASE item = "FLOOR"
      <4>1. item \notin Edible BY <3>3 DEF Edible
      <4>2. state' = Walk(state, p, next) BY <3>2, <3>3, <4>1 DEF Enter
      <4> QED BY <2>1, <3>1, <3>2, <3>3, <4>2, SafeWalk
    <3>4. CASE item \in Edible
      <4>1. item # "FLOOR" BY <3>4 DEF Edible
      <4>2. state' = Eat(state, p, next, item) BY <3>2, <3>4, <4>1 DEF Enter
      <4> QED BY <2>1, <3>1, <3>2, <3>4, <4>2, SafeEat
    <3>5. CASE item # "FLOOR" /\ item \notin Edible
      <4>1. state' = state BY <3>2, <3>5 DEF Enter
      <4> QED BY <3>2, <4>1 DEF Safe, FoodCounted, PlayersOnFloor, PlayersApart,
                                PointsConserved, OverJustified
    <3> QED BY <3>3, <3>4, <3>5
  <2> QED BY <1>3, <2>2, <2>3, <2>4 DEF Command
<1>4. CASE UNCHANGED vars
  BY <1>4 DEF vars, Safe, FoodCounted, PlayersOnFloor, PlayersApart,
              PointsConserved, OverJustified
<1> QED BY <1>1, <1>2, <1>3, <1>4 DEF Next

\* Typed and Safe together are inductive; each invariant follows from them.
LEMMA AlwaysSafe == Spec => [](Typed /\ Safe)
BY TypedInit, TypedNext, SafeInit, SafeNext, PTL DEF Spec

\* food_count, decremented by hand in process_user_command, is always the number
\* of cells that hold food.
THEOREM FoodIsCounted == Spec => []FoodCounted
<1>1. Safe => FoodCounted BY DEF Safe
<1> QED BY <1>1, AlwaysSafe, PTL

\* No sequence of commands brings a player into a wall, or onto uneaten food.
THEOREM PlayersStayOnFloor == Spec => []PlayersOnFloor
<1>1. Safe => PlayersOnFloor BY DEF Safe
<1> QED BY <1>1, AlwaysSafe, PTL

\* The collision test of the mover alone keeps the two players on two cells.
THEOREM PlayersStayApart == Spec => []PlayersApart
<1>1. Safe => PlayersApart BY DEF Safe
<1> QED BY <1>1, AlwaysSafe, PTL

\* Scores and remaining food always add up to what the map file was worth.
THEOREM PointsAreConserved == Spec => []PointsConserved
<1>1. Safe => PointsConserved BY DEF Safe
<1> QED BY <1>1, AlwaysSafe, PTL

\* game_over is set exactly when the food is gone or the players have met.
THEOREM OverIsJustified == Spec => []OverJustified
<1>1. Safe => OverJustified BY DEF Safe
<1> QED BY <1>1, AlwaysSafe, PTL

\* A finished game is never resumed: process_user_command leaves it untouched.
THEOREM OverIsFinal == Spec => FrozenOnceOver
<1>1. [Next]_vars
        => [loaded /\ state.game_over => state' \in {state, Load(level), ResetState}]_vars
  BY DEF Next, LoadMap, Reset, Command, AlreadyOver, Collision, Entry, vars
<1> QED BY <1>1, PTL DEF Spec, FrozenOnceOver

-----------------------------------------------------------------------------
(* The game implements the race of FoodRace.                               *)

Prizes(map) == [c \in EdibleCells(map) |-> Value(map[c])]

LEMMA RaceInit == Init => Race!Init
<1> SUFFICES ASSUME Init PROVE Race!Init
  OBVIOUS
<1>1. /\ state.map = [c \in Cells |-> "NONE"]
      /\ state.scores = [p \in Player |-> 0]
      /\ state.game_over = FALSE
  BY DEF Init, ResetState
<1>2. EdibleCells(state.map) = {} BY <1>1 DEF EdibleCells, Edible
<1> QED BY <1>1, <1>2 DEF Race!Init, Race!NoPoints, Player

LEMMA RaceLoad == Typed /\ LoadMap => Race!Start
<1> SUFFICES ASSUME Typed, LoadMap PROVE Race!Start
  OBVIOUS
<1> DEFINE map == [c \in Cells |-> TileOf(level[c])]
<1>1. /\ state'.map = map
      /\ state'.scores = [p \in Player |-> 0]
      /\ state'.game_over = (EdibleCells(map) = {})
  BY DEF LoadMap, Load
<1>2. \A c \in EdibleCells(map) : Value(map[c]) > 0 BY DEF Value
<1> HIDE DEF map
<1> QED BY <1>1, <1>2 DEF Race!Start, Race!NoPoints, Player

LEMMA RaceReset == Reset => Race!Clear
<1> SUFFICES ASSUME Reset PROVE Race!Clear
  OBVIOUS
<1>1. /\ state'.map = [c \in Cells |-> "NONE"]
      /\ state'.scores = [p \in Player |-> 0]
      /\ state'.game_over = TRUE
  BY DEF Reset, ResetState
<1>2. EdibleCells(state'.map) = {} BY <1>1 DEF EdibleCells, Edible
<1> QED BY <1>1, <1>2 DEF Race!Clear, Race!NoPoints, Player

LEMMA RaceCollision ==
  ASSUME Typed, NEW p \in Player, NEW dir \in Direction, Collision(p, dir)
  PROVE  Race!Bump
<1>1. state' = Collide(state) /\ state \in GameState /\ ~state.game_over
  BY DEF Collision, Typed, TypeOK
<1>2. /\ state'.map = state.map
      /\ state'.scores = state.scores
      /\ state'.game_over = TRUE
  BY <1>1 DEF Collide, GameState
<1> QED BY <1>1, <1>2 DEF Race!Bump

LEMMA RaceEat ==
  ASSUME Typed, FoodCounted, loaded,
         NEW p \in Player, NEW c \in Cells, ~state.game_over, state.map[c] \in Edible,
         state'.map = [state.map EXCEPT ![c] = "FLOOR"],
         state'.scores = [state.scores EXCEPT ![p] = @ + Value(state.map[c])],
         state'.game_over = (state.game_over \/ state.food_count = 1)
  PROVE  Race!Take(p, c)
<1>1. state \in GameState /\ state.map \in [Cells -> Item] BY DEF Typed, TypeOK, GameState
<1>2. /\ c \in EdibleCells(state.map)
      /\ EdibleCells(state'.map) = EdibleCells(state.map) \ {c}
  BY <1>1, EatenCell
<1>3. Prizes(state'.map) = [d \in EdibleCells(state.map) \ {c} |-> Prizes(state.map)[d]]
  <2>1. \A d \in EdibleCells(state.map) \ {c} : state'.map[d] = state.map[d]
    BY <1>1 DEF EdibleCells
  <2> QED BY <1>2, <2>1 DEF Prizes
<1>4. state'.game_over = (EdibleCells(state'.map) = {})
  <2>1. Cardinality(EdibleCells(state'.map)) = state.food_count - 1
    BY <1>2, EdiblesFinite, FS_RemoveElement DEF FoodCounted
  <2>2. EdibleCells(state'.map) = {} <=> state.food_count - 1 = 0
    BY <2>1, EdiblesFinite, FS_EmptySet
  <2>3. state.food_count \in Int BY <1>1 DEF GameState
  <2> QED BY <2>2, <2>3
<1>5. Prizes(state.map)[c] = Value(state.map[c]) BY <1>2 DEF Prizes
<1>6. /\ DOMAIN Prizes(state.map) = EdibleCells(state.map)
      /\ DOMAIN Prizes(state'.map) = EdibleCells(state'.map)
  BY DEF Prizes
<1>7. /\ Prizes(state'.map) = [d \in DOMAIN Prizes(state.map) \ {c} |-> Prizes(state.map)[d]]
      /\ state'.scores = [state.scores EXCEPT ![p] = @ + Prizes(state.map)[c]]
      /\ state'.game_over = (DOMAIN Prizes(state'.map) = {})
  BY <1>3, <1>4, <1>5, <1>6
<1> QED BY <1>7 DEF Race!Take, Prizes

LEMMA RaceEntry ==
  ASSUME Typed, FoodCounted, loaded,
         NEW p \in Player, NEW dir \in Direction, Entry(p, dir)
  PROVE  Race!Next \/ UNCHANGED Race!race
<1> DEFINE next == NextPosition(state.positions[p], dir)
           c    == Position2Index(next)
           item == state.map[c]
<1>1. /\ state \in GameState
      /\ next \in Position
      /\ c \in Cells
  BY NextOnMap, IndexInCells DEF Typed, TypeOK, GameState
<1>2. ~state.game_over /\ state' = Enter(state, p, next, item) BY DEF Entry
<1>3. CASE item \in Edible
  <2>1. state' = Eat(state, p, next, item)
    <3>1. item # "FLOOR" BY <1>3 DEF Edible
    <3> HIDE DEF item, next
    <3> QED BY <1>2, <1>3, <3>1 DEF Enter
  <2>2. /\ state'.map = [state.map EXCEPT ![c] = "FLOOR"]
        /\ state'.scores = [state.scores EXCEPT ![p] = @ + Value(item)]
        /\ state'.game_over = (state.game_over \/ state.food_count = 1)
    <3> HIDE DEF item, next
    <3> QED BY <1>1, <2>1 DEF Eat, GameState
  <2>3. Race!Take(p, c)
    <3> HIDE DEF c
    <3> QED BY <1>1, <1>2, <1>3, <2>2, RaceEat
  <2>4. c \in EdibleCells(state.map) BY <1>1, <1>3 DEF EdibleCells
  <2> HIDE DEF c
  <2> QED BY <2>3, <2>4 DEF Race!Next, Player
<1>4. CASE item \notin Edible
  <2>1. state' = Walk(state, p, next) \/ state' = state
    <3> HIDE DEF item, next
    <3> QED BY <1>2, <1>4 DEF Enter
  <2>2. /\ state'.map = state.map
        /\ state'.scores = state.scores
        /\ state'.game_over = state.game_over
    <3> HIDE DEF next
    <3> QED BY <1>1, <2>1 DEF Walk, GameState
  <2> QED BY <2>2 DEF Race!race
<1> QED BY <1>3, <1>4

LEMMA RaceNext == Typed /\ Safe /\ [Next]_vars => [Race!Next]_(Race!race)
<1> SUFFICES ASSUME Typed, Safe, [Next]_vars
             PROVE  Race!Next \/ UNCHANGED Race!race
  OBVIOUS
<1>1. CASE LoadMap BY <1>1, RaceLoad DEF Race!Next
<1>2. CASE Reset BY <1>2, RaceReset DEF Race!Next
<1>3. ASSUME NEW p \in Player, NEW dir \in Direction, Command(p, dir)
      PROVE  Race!Next \/ UNCHANGED Race!race
  <2>1. CASE AlreadyOver(p, dir) BY <2>1 DEF AlreadyOver, Race!race
  <2>2. CASE Collision(p, dir) BY <2>2, RaceCollision DEF Race!Next
  <2>3. CASE Entry(p, dir) BY <1>3, <2>3, RaceEntry DEF Safe, Command
  <2> QED BY <1>3, <2>1, <2>2, <2>3 DEF Command
<1>4. CASE UNCHANGED vars BY <1>4 DEF vars, Race!race
<1> QED BY <1>1, <1>2, <1>3, <1>4 DEF Next

\* game.c implements the race: at every step at most one player takes at most one
\* prize, earns exactly what it is worth, and the last prize ends the game.
THEOREM GameImplementsRace == Spec => RaceSpec
BY RaceInit, RaceNext, AlwaysSafe, PTL DEF Spec, RaceSpec, Race!Spec

-----------------------------------------------------------------------------
(* The messages of a command tell its whole effect.                        *)

LEMMA ToldWhenOver ==
  ASSUME Typed, loaded, NEW p \in Player, state'.map = state.map,
         state'.positions = state.positions, state'.game_over,
         out' = <<GameOver(Winner(state'))>>
  PROVE  Told(p)
<1>1. Written' = {GameOver(Winner(state'))} BY DEF Written
<1>2. {m.food : m \in {w \in Written' : w.msgt = "EAT_FOOD"}} = {}
  BY <1>1 DEF GameOver
<1>3. EdibleCells(state.map) \ EdibleCells(state'.map) = {} OBVIOUS
<1> QED BY <1>1, <1>2, <1>3 DEF Told

LEMMA ToldEntry ==
  ASSUME Typed, loaded, NEW p \in Player, NEW dir \in Direction, Entry(p, dir)
  PROVE  Told(p)
<1> DEFINE next == NextPosition(state.positions[p], dir)
           c    == Position2Index(next)
           item == state.map[c]
           over == GameOver(Winner(state'))
<1>1. /\ state \in GameState
      /\ next \in Position
      /\ c \in Cells
  BY NextOnMap, IndexInCells DEF Typed, TypeOK, GameState
<1>2. /\ ~state.game_over
      /\ state' = Enter(state, p, next, item)
      /\ out' = EnterMessages(p, next, item)
                  \o IF state'.game_over THEN <<over>> ELSE << >>
  BY DEF Entry
<1>3. CASE item \in Edible
  <2>1. item # "FLOOR" BY <1>3 DEF Edible
  <2>2. state' = Eat(state, p, next, item)
    <3> HIDE DEF item, next
    <3> QED BY <1>2, <1>3, <2>1 DEF Enter
  <2>3. /\ state'.map = [state.map EXCEPT ![c] = "FLOOR"]
        /\ state'.positions[p] = next
    <3> HIDE DEF item, next
    <3> QED BY <1>1, <2>2 DEF Eat, GameState
  <2>4. EnterMessages(p, next, item) = <<Moved(p, next), Eaten(p, next, item)>>
    <3> HIDE DEF item, next
    <3> QED BY <1>3, <2>1 DEF EnterMessages
  <2> DEFINE moved == Moved(p, next)
             eaten == Eaten(p, next, item)
  <2>5. Written' = {moved, eaten} \cup IF state'.game_over THEN {over} ELSE {}
    <3> HIDE DEF moved, eaten, over
    <3>1. CASE state'.game_over
      <4>1. out' = <<moved, eaten>> \o <<over>> BY <1>2, <2>4, <3>1 DEF moved, eaten
      <4>2. LET all == <<moved, eaten>> \o <<over>>
            IN  {all[i] : i \in DOMAIN all} = {moved, eaten, over}
        OBVIOUS
      <4> QED BY <3>1, <4>1, <4>2 DEF Written
    <3>2. CASE ~state'.game_over
      <4>1. out' = <<moved, eaten>> BY <1>2, <2>4, <3>2 DEF moved, eaten
      <4> QED BY <3>2, <4>1 DEF Written
    <3> QED BY <3>1, <3>2
  <2>6. /\ moved.msgt = "MOVEMENT"
        /\ eaten.msgt = "EAT_FOOD"
        /\ over.msgt = "GAME_OVER"
    BY DEF Moved, Eaten, GameOver
  <2>7. eaten.food = c
    <3>1. item # "PLAYER1" /\ item # "PLAYER2" BY <1>3 DEF Edible
    <3>2. Id(next.x, next.y, item) = BaseId(item) + c
      <4> HIDE DEF item, next
      <4> QED BY <3>1 DEF Id, Position2Index
    <3>3. BaseId(item) = 0 BY <1>3 DEF BaseId
    <3>4. c \in Int BY <1>1, SizeAssumption DEF Cells
    <3>5. eaten.food = Id(next.x, next.y, item) BY DEF Eaten
    <3> HIDE DEF item, c, eaten
    <3> QED BY <3>2, <3>3, <3>4, <3>5
  <2>8. EdibleCells(state.map) \ EdibleCells(state'.map) = {c}
    <3>1. state.map \in [Cells -> Item] BY <1>1 DEF GameState
    <3> HIDE DEF c
    <3> QED BY <1>1, <1>3, <2>3, <3>1, EatenCell
  <2> HIDE DEF moved, eaten, over, c
  <2>9. {m.food : m \in {w \in Written' : w.msgt = "EAT_FOOD"}} = {c}
    BY <2>5, <2>6, <2>7
  <2>10. Moved(p, state'.positions[p]) \in Written' BY <2>3, <2>5 DEF moved
  <2>11. state'.game_over <=> over \in Written' BY <2>5, <2>6
  <2> QED BY <2>8, <2>9, <2>10, <2>11 DEF Told, over
<1>4. CASE item = "FLOOR"
  <2>1. item \notin Edible BY <1>4 DEF Edible
  <2>2. state' = Walk(state, p, next)
    <3> HIDE DEF item, next
    <3> QED BY <1>2, <1>4, <2>1 DEF Enter
  <2>3. /\ state'.map = state.map
        /\ state'.positions[p] = next
        /\ ~state'.game_over
    <3> HIDE DEF item, next
    <3> QED BY <1>1, <1>2, <2>2 DEF Walk, GameState
  <2>4. EnterMessages(p, next, item) = <<Moved(p, next)>>
    <3> HIDE DEF item, next
    <3> QED BY <1>4, <2>1 DEF EnterMessages
  <2> DEFINE moved == Moved(p, next)
  <2>5. Written' = {moved}
    <3>1. out' = <<moved>> BY <1>2, <2>3, <2>4
    <3> QED BY <3>1 DEF Written
  <2>6. moved.msgt = "MOVEMENT" /\ over.msgt = "GAME_OVER" BY DEF Moved, GameOver
  <2>7. {m.food : m \in {w \in Written' : w.msgt = "EAT_FOOD"}} = {} BY <2>5, <2>6
  <2>8. over \notin Written' BY <2>5, <2>6
  <2>9. Moved(p, state'.positions[p]) \in Written' BY <2>3, <2>5
  <2> QED BY <2>3, <2>7, <2>8, <2>9 DEF Told
<1>5. CASE item \notin Edible /\ item # "FLOOR"
  <2>1. state' = state /\ EnterMessages(p, next, item) = << >>
    <3> HIDE DEF item, next
    <3> QED BY <1>2, <1>5 DEF Enter, EnterMessages
  <2>2. out' = << >> BY <1>2, <2>1
  <2>3. Written' = {} BY <2>2 DEF Written
  <2> QED BY <1>2, <2>1, <2>3 DEF Told
<1> QED BY <1>3, <1>4, <1>5

\* Whatever the state a command is processed in, its messages are complete: the
\* clients learn of every cell eaten, of every move and of the end of the game.
THEOREM CommandsAreTold == Spec => CommandsTold
<1>1. ASSUME Typed, NEW p \in Player, NEW dir \in Direction, Command(p, dir)
      PROVE  Told(p)
  <2>1. CASE AlreadyOver(p, dir) BY <1>1, <2>1, ToldWhenOver DEF AlreadyOver, Command
  <2>2. CASE Collision(p, dir)
    <3>1. state' = Collide(state) /\ state \in GameState
      BY <1>1, <2>2 DEF Collision, Typed, TypeOK
    <3>2. Winner(state') = Winner(state)
      BY <3>1, CollideFields DEF Winner
    <3> QED BY <1>1, <2>2, <3>1, <3>2, CollideFields, ToldWhenOver DEF Collision, Command
  <2>3. CASE Entry(p, dir) BY <1>1, <2>3, ToldEntry DEF Command
  <2> QED BY <1>1, <2>1, <2>2, <2>3 DEF Command
<1>2. Typed /\ [Next]_vars
        => [\A p \in Player, dir \in Direction : Command(p, dir) => Told(p)]_vars
  BY <1>1
<1> QED BY <1>2, AlwaysSafe, PTL DEF Spec, CommandsTold

=============================================================================
