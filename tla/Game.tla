-------------------------------- MODULE Game --------------------------------
(***************************************************************************)
(* game.c as a state machine: the shared state of one server and the three *)
(* functions that change it, each as one step.  That a step is indivisible *)
(* is what the semaphore is for; Server models the steps themselves and    *)
(* the moments when the semaphore is not held.                             *)
(***************************************************************************)
EXTENDS GameRules

CONSTANT Levels              \* the map files the server may be started with

ASSUME LevelsAssumption == \A level \in Levels : IsLevel(level)

VARIABLES level,             \* the map file, fixed for the life of the server
          state,             \* struct GameState, in shared memory
          loaded,            \* a load_map has run since the last reset
          out                \* what the last call wrote on fdbcast

vars == <<level, state, loaded, out>>

\* A fresh segment is all zeros: a game_over of 0 although no game is running.
Init == /\ level \in Levels
        /\ state = [ResetState EXCEPT !.game_over = FALSE]
        /\ loaded = FALSE
        /\ out = << >>

\* load_map.  The server calls it once per player, so also on a loaded state,
\* on which the first player may have moved already.
LoadMap == /\ state' = Load(level)
           /\ loaded' = TRUE
           /\ out' = IF EdibleCells(state'.map) = {} THEN <<GameOver(1)>> ELSE << >>
           /\ UNCHANGED level

-----------------------------------------------------------------------------
(* process_user_command(state, p, dir): one action per way through it.     *)

\* The game is over: say so again, change nothing.
AlreadyOver(p, dir) == /\ state.game_over
                       /\ out' = <<GameOver(Winner(state))>>
                       /\ UNCHANGED <<level, state, loaded>>

CollisionUntold(p, dir) == /\ ~state.game_over
                           /\ Collides(state, p, NextPosition(state.positions[p], dir))
                           /\ state' = Collide(state)
                           /\ out' = << >>
                           /\ UNCHANGED <<level, loaded>>

\* The other player is on the cell: the game ends where everyone stands.
Collision(p, dir) == /\ ~state.game_over
                     /\ Collides(state, p, NextPosition(state.positions[p], dir))
                     /\ state' = Collide(state)
                     /\ out' = <<GameOver(Winner(state))>>
                     /\ UNCHANGED <<level, loaded>>

EntryAlways(p, dir) ==
  LET next == NextPosition(state.positions[p], dir)
      item == state.map[Position2Index(next)]
  IN  /\ ~Collides(state, p, next)
      /\ state' = Enter(state, p, next, item)
      /\ out' = EnterMessages(p, next, item)
                  \o IF state'.game_over THEN <<GameOver(Winner(state'))>> ELSE << >>
      /\ UNCHANGED <<level, loaded>>

\* The player enters the cell, or stays in front of the wall.
Entry(p, dir) ==
  LET next == NextPosition(state.positions[p], dir)
      item == state.map[Position2Index(next)]
  IN  /\ ~state.game_over
      /\ ~Collides(state, p, next)
      /\ state' = Enter(state, p, next, item)
      /\ out' = EnterMessages(p, next, item)
                  \o IF state'.game_over THEN <<GameOver(Winner(state'))>> ELSE << >>
      /\ UNCHANGED <<level, loaded>>

\* Handlers exist only between a load_map and the reset that follows their end.
Command(p, dir) == /\ loaded
                   /\ AlreadyOver(p, dir) \/ Collision(p, dir) \/ Entry(p, dir)

\* reset_gamestate, once the handlers of the game are gone.
Reset == /\ loaded
         /\ state' = ResetState
         /\ loaded' = FALSE
         /\ out' = << >>
         /\ UNCHANGED level

Next == \/ LoadMap
        \/ Reset
        \/ \E p \in Player, dir \in Direction : Command(p, dir)

Spec == Init /\ [][Next]_vars

-----------------------------------------------------------------------------

\* Every variable holds a value of its type; the map never holds a player.
TypeOK == /\ level \in [Cells -> Glyph]
          /\ state \in GameState
          /\ loaded \in BOOLEAN

\* food_count, which process_user_command decrements by hand, is the number of
\* cells that still hold something to eat.
FoodCounted == loaded => state.food_count = Cardinality(EdibleCells(state.map))

\* Nobody ever stands in a wall or on food that has not been eaten.
PlayersOnFloor ==
  loaded => \A p \in Player : state.map[Position2Index(state.positions[p])] = "FLOOR"

\* The two players never share a cell, although only the mover is checked.
PlayersApart == loaded => state.positions[1] # state.positions[2]

Worth(map) == Cardinality({c \in Cells : map[c] = "FOOD"})
                + 17 * Cardinality({c \in Cells : map[c] = "SUPERFOOD"})

\* Points are neither lost nor invented: what was won and what is left to eat
\* add up to what the map file was worth.
PointsConserved ==
  loaded => state.scores[1] + state.scores[2] + Worth(state.map)
              = Worth([c \in Cells |-> TileOf(level[c])])

Adjacent(a, b) == \E dir \in Direction : Shift(a, dir) = b

\* A game is over when the food is, and otherwise only because the players
\* have met: they stand next to each other.
OverJustified ==
  loaded => /\ state.food_count = 0 => state.game_over
            /\ state.game_over => \/ state.food_count = 0
                                  \/ Adjacent(state.positions[1], state.positions[2])

\* Once over, a game stays as it was, whatever the handlers still process:
\* only the server's next load_map or reset changes the state.
FrozenOnceOver ==
  [][loaded /\ state.game_over => state' \in {state, Load(level), ResetState}]_vars

Written == {out[i] : i \in DOMAIN out}

\* The messages of a command tell its whole effect: exactly the food that left
\* the map was eaten, a player who moved is shown where it is, and the end of
\* the game is announced if and only if the game is over.
Told(p) ==
  /\ {m.food : m \in {w \in Written' : w.msgt = "EAT_FOOD"}}
       = EdibleCells(state.map) \ EdibleCells(state'.map)
  /\ state'.positions # state.positions => Moved(p, state'.positions[p]) \in Written'
  /\ state'.game_over <=> GameOver(Winner(state')) \in Written'

CommandsTold == [][\A p \in Player, dir \in Direction : Command(p, dir) => Told(p)]_vars

\* The game implements the race: the prizes are the cells to eat.
Race == INSTANCE FoodRace WITH
          prizes <- [c \in EdibleCells(state.map) |-> Value(state.map[c])],
          points <- state.scores,
          over   <- state.game_over

RaceSpec == Race!Spec

=============================================================================
