---------------------------- MODULE RulesProofs ----------------------------
(***************************************************************************)
(* Lemmas about the rules of GameRules, for maps of every size: what the   *)
(* proofs about Game, LoadMap, Server and Client rest on.                  *)
(***************************************************************************)
EXTENDS GameRules, FiniteSetTheorems, TLAPS

(* Two facts about the map that every step relies on.                      *)

\* The offset of a position is an index of the array map[MAP_SIZE].
LEMMA IndexInCells ==
  ASSUME NEW pos \in Position
  PROVE  Position2Index(pos) \in Cells
<1>1. WIDTH \in Nat /\ HEIGHT \in Nat BY SizeAssumption
<1>2. pos.x \in 0 .. WIDTH - 1 /\ pos.y \in 0 .. HEIGHT - 1 BY DEF Position
<1>3. pos.y * WIDTH \in Nat BY <1>1, <1>2
<1>4. pos.y * WIDTH <= (HEIGHT - 1) * WIDTH BY <1>1, <1>2
<1>5. (HEIGHT - 1) * WIDTH = WIDTH * HEIGHT - WIDTH BY <1>1
<1>6. WIDTH * HEIGHT \in Nat BY <1>1
<1> QED BY <1>1, <1>2, <1>3, <1>4, <1>5, <1>6 DEF Position2Index, Cells, MAP_SIZE

\* The bounds tests of __next_position keep every player on the map.
LEMMA NextOnMap ==
  ASSUME NEW pos \in Position, NEW dir
  PROVE  NextPosition(pos, dir) \in Position
BY DEF NextPosition

\* The cells with something to eat are finitely many, so they can be counted.
LEMMA EdiblesFinite ==
  ASSUME NEW map
  PROVE  IsFiniteSet(EdibleCells(map)) /\ Cardinality(EdibleCells(map)) \in Nat
<1>1. MAP_SIZE \in Nat BY SizeAssumption DEF MAP_SIZE
<1>2. IsFiniteSet(Cells) BY <1>1, FS_Interval DEF Cells
<1>3. EdibleCells(map) \in SUBSET Cells BY DEF EdibleCells
<1> QED BY <1>2, <1>3, FS_Subset, FS_CardinalityType

\* As many are counted as there are things to tell apart.
LEMMA SameNumber ==
  ASSUME NEW S, NEW T, IsFiniteSet(S), NEW f, DOMAIN f = S,
         T = {f[i] : i \in S}, \A i, j \in S : f[i] = f[j] => i = j
  PROVE  Cardinality(S) = Cardinality(T)
<1> DEFINE g == [i \in S |-> f[i]]
<1>1. g \in Bijection(S, T)
  BY DEF Bijection, Surjection, Injection, IsInjective
<1>2. ExistsBijection(S, T)
  BY <1>1 DEF ExistsBijection
<1> QED  BY <1>2, FS_Bijection

LEMMA TileTyped == ASSUME NEW g PROVE TileOf(g) \in Tile
BY DEF TileOf, Tile, Edible

-----------------------------------------------------------------------------
(* What load_map establishes.                                              *)

\* A level places each player on a floor cell of its own.
LEMMA LoadPlaces ==
  ASSUME NEW lev, IsLevel(lev)
  PROVE  /\ Load(lev).positions \in [Player -> Position]
         /\ \A p \in Player : lev[Position2Index(Load(lev).positions[p])] = Mark[p]
<1> DEFINE At(p) == CHOOSE pos \in Position : lev[Position2Index(pos)] = Mark[p]
<1>1. \A p \in Player : At(p) \in Position /\ lev[Position2Index(At(p))] = Mark[p]
  BY DEF IsLevel
<1>2. Load(lev).positions = [p \in Player |-> At(p)] BY DEF Load
<1> QED BY <1>1, <1>2

LEMMA LoadTyped ==
  ASSUME NEW lev, IsLevel(lev)
  PROVE  Load(lev) \in GameState
<1> DEFINE map       == [c \in Cells |-> TileOf(lev[c])]
           scores    == [p \in Player |-> 0]
           food      == Cardinality(EdibleCells(map))
           positions == [p \in Player |->
                          CHOOSE pos \in Position : lev[Position2Index(pos)] = Mark[p]]
           over      == EdibleCells(map) = {}
<1>1. map \in [Cells -> Item] BY TileTyped DEF Item
<1>2. scores \in [Player -> Nat] OBVIOUS
<1>3. food \in Int BY EdiblesFinite
<1>4. positions \in [Player -> Position] BY LoadPlaces DEF Load
<1>5. over \in BOOLEAN OBVIOUS
<1>6. Load(lev) = [map |-> map, scores |-> scores, food_count |-> food,
                   positions |-> positions, game_over |-> over]
  BY DEF Load
<1> HIDE DEF map, scores, food, positions, over
<1> QED BY <1>1, <1>2, <1>3, <1>4, <1>5, <1>6 DEF GameState

LEMMA ResetTyped == ResetState \in GameState
<1>1. 0 \in 0 .. WIDTH - 1 /\ 0 \in 0 .. HEIGHT - 1 BY SizeAssumption
<1>2. Origin \in Position BY <1>1 DEF Origin, Position
<1>3. [c \in Cells |-> "NONE"] \in [Cells -> Item] BY DEF Item
<1> QED BY <1>2, <1>3 DEF ResetState, GameState

\* A state stays well typed when every field is replaced by a value of its type.
LEMMA StateExcept ==
  ASSUME NEW st \in GameState,
         NEW map \in [Cells -> Item], NEW scores \in [Player -> Nat], NEW food \in Int,
         NEW positions \in [Player -> Position], NEW over \in BOOLEAN
  PROVE  [st EXCEPT !.map = map, !.positions = positions, !.scores = scores,
                    !.food_count = food, !.game_over = over] \in GameState
BY DEF GameState

LEMMA EatTyped ==
  ASSUME NEW st \in GameState, NEW p \in Player, NEW next \in Position, NEW item
  PROVE  Eat(st, p, next, item) \in GameState
<1> DEFINE map       == [st.map EXCEPT ![Position2Index(next)] = "FLOOR"]
           positions == [st.positions EXCEPT ![p] = next]
           scores    == [st.scores EXCEPT ![p] = @ + Value(item)]
           food      == st.food_count - 1
           over      == st.game_over \/ st.food_count = 1
<1>1. map \in [Cells -> Item] BY IndexInCells DEF Item, Tile, GameState
<1>2. positions \in [Player -> Position] BY DEF GameState
<1>3. scores \in [Player -> Nat] BY DEF Value, GameState
<1>4. food \in Int BY DEF GameState
<1>5. over \in BOOLEAN OBVIOUS
<1>6. [st EXCEPT !.map = map, !.positions = positions, !.scores = scores,
                 !.food_count = food, !.game_over = over] \in GameState
  <2> HIDE DEF map, positions, scores, food, over
  <2> QED BY <1>1, <1>2, <1>3, <1>4, <1>5, StateExcept
<1> QED BY <1>6, Zenon DEF Eat

LEMMA EnterTyped ==
  ASSUME NEW st \in GameState, NEW p \in Player, NEW next \in Position, NEW item
  PROVE  Enter(st, p, next, item) \in GameState
<1>1. Walk(st, p, next) \in GameState BY DEF Walk, GameState
<1> QED BY <1>1, EatTyped DEF Enter

\* Entering a cell, field by field.
LEMMA EatFields ==
  ASSUME NEW st \in GameState, NEW p \in Player, NEW next, NEW item
  PROVE  /\ Eat(st, p, next, item).map = [st.map EXCEPT ![Position2Index(next)] = "FLOOR"]
         /\ Eat(st, p, next, item).positions = [st.positions EXCEPT ![p] = next]
         /\ Eat(st, p, next, item).scores = [st.scores EXCEPT ![p] = @ + Value(item)]
         /\ Eat(st, p, next, item).food_count = st.food_count - 1
         /\ Eat(st, p, next, item).game_over <=> (st.game_over \/ st.food_count = 1)
BY DEF Eat, GameState

LEMMA WalkFields ==
  ASSUME NEW st \in GameState, NEW p \in Player, NEW next
  PROVE  /\ Walk(st, p, next).map = st.map
         /\ Walk(st, p, next).positions = [st.positions EXCEPT ![p] = next]
         /\ Walk(st, p, next).scores = st.scores
         /\ Walk(st, p, next).food_count = st.food_count
         /\ Walk(st, p, next).game_over <=> st.game_over
BY DEF Walk, GameState

LEMMA CollideFields ==
  ASSUME NEW st \in GameState
  PROVE  /\ Collide(st) \in GameState
         /\ Collide(st).map = st.map
         /\ Collide(st).positions = st.positions
         /\ Collide(st).scores = st.scores
         /\ Collide(st).food_count = st.food_count
         /\ Collide(st).game_over
BY DEF Collide, GameState

-----------------------------------------------------------------------------
(* Eating, seen from the map: one cell less to eat, worth what it held.    *)

LEMMA EatenCell ==
  ASSUME NEW map \in [Cells -> Item], NEW c \in Cells, map[c] \in Edible
  PROVE  /\ c \in EdibleCells(map)
         /\ EdibleCells([map EXCEPT ![c] = "FLOOR"]) = EdibleCells(map) \ {c}
BY DEF EdibleCells, Edible

-----------------------------------------------------------------------------
(* The two facts about a state that a game relies on, whoever runs it.     *)

\* food_count, kept by hand, is the number of cells with something to eat.
Counted(st) == st.food_count = Cardinality(EdibleCells(st.map))

\* The players stand on the floor, and not on each other.
Standing(st) == /\ \A p \in Player : st.map[Position2Index(st.positions[p])] = "FLOOR"
                /\ st.positions[1] # st.positions[2]

LEMMA LoadCounted == ASSUME NEW lev PROVE Counted(Load(lev))
BY DEF Load, Counted

LEMMA LoadStanding == ASSUME NEW lev, IsLevel(lev) PROVE Standing(Load(lev))
<1> DEFINE st == Load(lev)
<1>1. /\ st.positions \in [Player -> Position]
      /\ \A p \in Player : lev[Position2Index(st.positions[p])] = Mark[p]
  BY LoadPlaces
<1>2. st.map = [c \in Cells |-> TileOf(lev[c])] BY DEF Load
<1> HIDE DEF st
<1>3. ASSUME NEW p \in Player PROVE st.map[Position2Index(st.positions[p])] = "FLOOR"
  <2>1. Position2Index(st.positions[p]) \in Cells BY <1>1, IndexInCells
  <2>2. TileOf(Mark[p]) = "FLOOR" BY DEF Mark, Player, TileOf
  <2> QED BY <1>1, <1>2, <2>1, <2>2
<1>4. Mark[1] # Mark[2] /\ 1 \in Player /\ 2 \in Player BY DEF Mark, Player
<1> QED BY <1>1, <1>3, <1>4 DEF Standing, st

\* What entering a cell does to the map, the positions and the food_count.
Walked(st, after, p, next) == /\ after.map = st.map
                              /\ after.positions = [st.positions EXCEPT ![p] = next]
                              /\ after.food_count = st.food_count

Ate(st, after, p, next) == /\ after.map = [st.map EXCEPT ![Position2Index(next)] = "FLOOR"]
                           /\ after.positions = [st.positions EXCEPT ![p] = next]
                           /\ after.food_count = st.food_count - 1

LEMMA EnterFloor ==
  ASSUME NEW st \in GameState, NEW p \in Player, NEW next, NEW item, item = "FLOOR"
  PROVE  Walked(st, Enter(st, p, next, item), p, next)
BY DEF Enter, Edible, Walk, GameState, Walked

LEMMA EnterFood ==
  ASSUME NEW st \in GameState, NEW p \in Player, NEW next, NEW item, item \in Edible
  PROVE  Ate(st, Enter(st, p, next, item), p, next)
BY DEF Enter, Edible, Eat, GameState, Ate

LEMMA EnterElse ==
  ASSUME NEW st, NEW p, NEW next, NEW item, item \notin {"FLOOR"} \cup Edible
  PROVE  Enter(st, p, next, item) = st
BY DEF Enter

LEMMA EnterCounted ==
  ASSUME NEW st \in GameState, NEW p \in Player, NEW next \in Position, Counted(st)
  PROVE  Counted(Enter(st, p, next, st.map[Position2Index(next)]))
<1> DEFINE c     == Position2Index(next)
           item  == st.map[c]
           after == Enter(st, p, next, item)
<1>1. c \in Cells /\ st.map \in [Cells -> Item] /\ st.food_count \in Int
  BY IndexInCells DEF GameState
<1>2. CASE item = "FLOOR"
  <2>1. Walked(st, after, p, next) BY <1>2, EnterFloor
  <2> QED BY <2>1 DEF Counted, Walked
<1>3. CASE item \in Edible
  <2>1. Ate(st, after, p, next) BY <1>3, EnterFood
  <2>2. /\ c \in EdibleCells(st.map)
        /\ EdibleCells([st.map EXCEPT ![c] = "FLOOR"]) = EdibleCells(st.map) \ {c}
    BY <1>1, <1>3, EatenCell
  <2>3. Cardinality(EdibleCells(st.map) \ {c}) = Cardinality(EdibleCells(st.map)) - 1
    BY <2>2, EdiblesFinite, FS_RemoveElement
  <2> QED BY <2>1, <2>2, <2>3 DEF Counted, Ate
<1>4. CASE item \notin {"FLOOR"} \cup Edible
  <2>1. after = st BY <1>4, EnterElse
  <2> QED BY <2>1
<1> QED BY <1>2, <1>3, <1>4

LEMMA EnterStanding ==
  ASSUME NEW st \in GameState, NEW p \in Player, NEW next \in Position,
         Standing(st), ~Collides(st, p, next)
  PROVE  Standing(Enter(st, p, next, st.map[Position2Index(next)]))
<1> DEFINE c     == Position2Index(next)
           item  == st.map[c]
           after == Enter(st, p, next, item)
<1>1. /\ c \in Cells /\ st.map \in [Cells -> Item] /\ st.positions \in [Player -> Position]
      /\ \A q \in Player : Position2Index(st.positions[q]) \in Cells
  BY IndexInCells DEF GameState
<1>2. CASE item \in {"FLOOR"} \cup Edible
  <2>1. /\ after.map[c] = "FLOOR"
        /\ \A d \in Cells : d # c => after.map[d] = st.map[d]
        /\ after.positions = [st.positions EXCEPT ![p] = next]
    <3>1. CASE item = "FLOOR"
      <4>1. Walked(st, after, p, next) BY <3>1, EnterFloor
      <4> HIDE DEF after
      <4> QED BY <3>1, <4>1 DEF Walked
    <3>2. CASE item \in Edible
      <4>1. Ate(st, after, p, next) BY <3>2, EnterFood
      <4> HIDE DEF after
      <4> QED BY <1>1, <4>1 DEF Ate
    <3> QED BY <1>2, <3>1, <3>2
  <2> HIDE DEF after, c
  <2>2. ASSUME NEW q \in Player PROVE after.map[Position2Index(after.positions[q])] = "FLOOR"
    <3>1. CASE q = p BY <1>1, <2>1, <3>1 DEF c
    <3>2. CASE q # p BY <1>1, <2>1, <3>2 DEF Standing
    <3> QED BY <3>1, <3>2
  <2>3. after.positions[1] # after.positions[2]
    BY <1>1, <2>1 DEF Standing, Collides, Other, Player
  <2>4. Standing(after) BY <2>2, <2>3 DEF Standing
  <2> QED BY <2>4 DEF after, c
<1>3. CASE item \notin {"FLOOR"} \cup Edible
  <2>1. after = st BY <1>3, EnterElse
  <2> QED BY <2>1
<1> QED BY <1>2, <1>3

=============================================================================
