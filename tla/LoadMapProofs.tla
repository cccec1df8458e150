--------------------------- MODULE LoadMapProofs ---------------------------
(***************************************************************************)
(* What TLC checks of LoadMap on files of a few tiles, for every size of   *)
(* the map, every set of map files of that size and every number of calls. *)
(*                                                                         *)
(* The loop never asks where it is: it counts tiles in pos and x, lines in *)
(* y, and trusts the file.  IInv says what the counters count while the    *)
(* file has the shape IsMapFile, and that the state is that of a load cut  *)
(* off after pos cells (Partial).  MInv says which messages that makes.    *)
(***************************************************************************)
EXTENDS LoadMap, RulesProofs, SequenceTheorems, FunctionTheorems

-----------------------------------------------------------------------------
(* Counting characters.                                                    *)

LEMMA CountTyped ==
  ASSUME NEW f, NEW n \in Nat, NEW S
  PROVE  IsFiniteSet({i \in 1 .. n : f[i] \in S}) /\ Count(f, n, S) \in Nat
<1>1. IsFiniteSet(1 .. n)
  BY FS_Interval
<1>2. {i \in 1 .. n : f[i] \in S} \in SUBSET (1 .. n)
  OBVIOUS
<1> QED  BY <1>1, <1>2, FS_Subset, FS_CardinalityType DEF Count

LEMMA CountNone == ASSUME NEW f, NEW S PROVE Count(f, 0, S) = 0
<1>1. {i \in 1 .. 0 : f[i] \in S} = {}
  OBVIOUS
<1> QED  BY <1>1, FS_EmptySet DEF Count

LEMMA CountStep ==
  ASSUME NEW f, NEW n \in Nat, NEW S
  PROVE  Count(f, n + 1, S) = IF f[n + 1] \in S THEN Count(f, n, S) + 1 ELSE Count(f, n, S)
<1> DEFINE T == {i \in 1 .. n : f[i] \in S}
<1>1. IsFiniteSet(T) /\ n + 1 \notin T
  BY CountTyped
<1>2. CASE f[n + 1] \in S
  <2>1. {i \in 1 .. n + 1 : f[i] \in S} = T \cup {n + 1}
    BY <1>2
  <2> HIDE DEF T
  <2>2. Cardinality(T \cup {n + 1}) = Cardinality(T) + 1
    BY <1>1, FS_AddElement
  <2> QED  BY <1>2, <2>1, <2>2 DEF Count, T
<1>3. CASE f[n + 1] \notin S
  <2>1. {i \in 1 .. n + 1 : f[i] \in S} = T
    BY <1>3
  <2> QED  BY <1>3, <2>1 DEF Count
<1> QED  BY <1>2, <1>3

LEMMA CountGrows ==
  ASSUME NEW f, NEW m \in Nat, NEW n \in Nat, m <= n, NEW S
  PROVE  Count(f, m, S) <= Count(f, n, S)
<1> DEFINE T(k) == {i \in 1 .. k : f[i] \in S}
<1>1. T(m) \in SUBSET T(n)
  OBVIOUS
<1>2. IsFiniteSet(T(n))
  BY CountTyped
<1> HIDE DEF T
<1>3. Cardinality(T(m)) <= Cardinality(T(n))
  BY <1>1, <1>2, FS_Subset
<1> QED  BY <1>3 DEF Count, T

\* The tile before which c others stand is the one of cell c.
LEMMA LevelHere ==
  ASSUME NEW f \in Seq(Chars), NEW n \in Nat, n + 1 \in DOMAIN f, f[n + 1] \in Glyph,
         Count(f, n, Glyph) \in Cells
  PROVE  LevelOf(f)[Count(f, n, Glyph)] = f[n + 1]
<1> DEFINE c == Count(f, n, Glyph)
           Fits(k) == f[k] \in Glyph /\ Count(f, k - 1, Glyph) = c
<1>1. ASSUME NEW j \in DOMAIN f, NEW k \in DOMAIN f, Fits(j), Fits(k), j < k PROVE FALSE
  <2>1. j \in Nat /\ k \in Nat /\ j - 1 \in Nat /\ k - 1 \in Nat /\ j <= k - 1
    BY <1>1
  <2>2. Count(f, j - 1 + 1, Glyph) = Count(f, j - 1, Glyph) + 1
    BY <1>1, <2>1, CountStep
  <2>3. Count(f, j, Glyph) <= Count(f, k - 1, Glyph)
    BY <2>1, CountGrows
  <2>4. j - 1 + 1 = j
    BY <2>1
  <2>5. c \in Nat
    BY <1>1, <2>1, CountTyped
  <2>6. Count(f, j, Glyph) = c + 1 /\ Count(f, k - 1, Glyph) = c
    BY <1>1, <2>2, <2>4
  <2> HIDE DEF c
  <2> QED  BY <2>3, <2>5, <2>6
<1>2. n + 1 - 1 = n
  OBVIOUS
<1>3. Fits(n + 1)
  BY <1>2
<1>4. \A k \in DOMAIN f : k \in Nat /\ (k < n + 1 \/ k = n + 1 \/ n + 1 < k)
  OBVIOUS
<1>5. \A k \in DOMAIN f : Fits(k) => k = n + 1
  BY <1>1, <1>3, <1>4
<1>6. (CHOOSE k \in DOMAIN f : Fits(k)) = n + 1
  BY <1>3, <1>5
<1> QED  BY <1>6 DEF LevelOf

-----------------------------------------------------------------------------
(* The state when n tiles have been read.                                  *)

Place(level, p) == CHOOSE here \in Position : level[Position2Index(here)] = Mark[p]

FoodBelow(level, n) == {c \in Cells : c < n /\ TileOf(level[c]) \in Edible}

Partial(level, n) ==
  [map        |-> [c \in Cells |-> IF c < n THEN TileOf(level[c]) ELSE "NONE"],
   scores     |-> [p \in Player |-> 0],
   food_count |-> Cardinality(FoodBelow(level, n)),
   positions  |-> [p \in Player |-> IF Position2Index(Place(level, p)) < n
                                      THEN Place(level, p) ELSE Origin],
   game_over  |-> TRUE]

LEMMA FoodFinite ==
  ASSUME NEW level, NEW n PROVE IsFiniteSet(FoodBelow(level, n))
<1>1. MAP_SIZE \in Nat
  BY SizeAssumption DEF MAP_SIZE
<1>2. IsFiniteSet(Cells)
  BY <1>1, FS_Interval DEF Cells
<1>3. FoodBelow(level, n) \in SUBSET Cells
  BY DEF FoodBelow
<1> QED  BY <1>2, <1>3, FS_Subset

\* A player's place is the only cell with its mark.
LEMMA PlaceUnique ==
  ASSUME NEW level, IsLevel(level), NEW p \in Player
  PROVE  /\ Place(level, p) \in Position /\ Position2Index(Place(level, p)) \in Cells
         /\ \A here \in Position : level[Position2Index(here)] = Mark[p] <=> here = Place(level, p)
<1>1. PICK here \in Position :
        \A other \in Position : level[Position2Index(other)] = Mark[p] <=> other = here
  BY DEF IsLevel
<1>2. Place(level, p) = here
  BY <1>1 DEF Place
<1> QED  BY <1>1, <1>2, IndexInCells

LEMMA PartialTyped ==
  ASSUME NEW level, IsLevel(level), NEW n PROVE Partial(level, n) \in GameState
<1> DEFINE map       == [c \in Cells |-> IF c < n THEN TileOf(level[c]) ELSE "NONE"]
           scores    == [p \in Player |-> 0]
           food      == Cardinality(FoodBelow(level, n))
           positions == [p \in Player |-> IF Position2Index(Place(level, p)) < n
                                            THEN Place(level, p) ELSE Origin]
<1>1. map \in [Cells -> Item]
  BY TileTyped DEF Item
<1>2. scores \in [Player -> Nat]
  OBVIOUS
<1>3. food \in Int
  BY FoodFinite, FS_CardinalityType
<1>4. Origin \in Position
  BY SizeAssumption DEF Origin, Position
<1>5. positions \in [Player -> Position]
  BY <1>4, PlaceUnique
<1>6. Partial(level, n) = [map |-> map, scores |-> scores, food_count |-> food,
                           positions |-> positions, game_over |-> TRUE]
  BY DEF Partial
<1> HIDE DEF map, scores, food, positions
<1> QED  BY <1>1, <1>2, <1>3, <1>5, <1>6 DEF GameState

LEMMA PartialNone ==
  ASSUME NEW level, IsLevel(level) PROVE Partial(level, 0) = ResetState
<1>1. \A c \in Cells : ~(c < 0)
  BY DEF Cells
<1>2. FoodBelow(level, 0) = {}
  BY <1>1 DEF FoodBelow
<1>3. [c \in Cells |-> IF c < 0 THEN TileOf(level[c]) ELSE "NONE"] = [c \in Cells |-> "NONE"]
  BY <1>1
<1>4. [p \in Player |-> IF Position2Index(Place(level, p)) < 0 THEN Place(level, p) ELSE Origin]
        = [p \in Player |-> Origin]
  BY <1>1, PlaceUnique
<1> QED  BY <1>2, <1>3, <1>4, FS_EmptySet DEF Partial, ResetState

\* States that agree field by field are the same.
LEMMA SameState ==
  ASSUME NEW r \in GameState, NEW s \in GameState,
         r.map = s.map, r.scores = s.scores, r.food_count = s.food_count,
         r.positions = s.positions, r.game_over = s.game_over
  PROVE  r = s
BY DEF GameState

LEMMA PutGlyphFields ==
  ASSUME NEW st \in GameState, NEW here \in Position, NEW n, n = Position2Index(here), NEW g
  PROVE  LET put == PutGlyph(st, n, here.x, here.y, g) IN
         /\ put \in GameState
         /\ put.map = [st.map EXCEPT ![n] = TileOf(g)]
         /\ put.scores = st.scores
         /\ put.food_count = IF TileOf(g) \in Edible THEN st.food_count + 1 ELSE st.food_count
         /\ put.positions = [p \in Player |-> IF g = Mark[p] THEN [x |-> here.x, y |-> here.y]
                                                            ELSE st.positions[p]]
         /\ put.game_over = st.game_over
<1> DEFINE map       == [st.map EXCEPT ![n] = TileOf(g)]
           food      == IF TileOf(g) \in Edible THEN st.food_count + 1 ELSE st.food_count
           positions == [p \in Player |-> IF g = Mark[p] THEN [x |-> here.x, y |-> here.y]
                                                         ELSE st.positions[p]]
           put       == [st EXCEPT !.map = map, !.food_count = food, !.positions = positions]
<1>1. PutGlyph(st, n, here.x, here.y, g) = put
  BY DEF PutGlyph
<1>2. map \in [Cells -> Item]
  BY TileTyped, IndexInCells DEF GameState, Item
<1>3. food \in Int
  BY DEF GameState
<1>4. positions \in [Player -> Position]
  BY DEF GameState, Position
<1> HIDE DEF map, food, positions
<1>5. /\ put.map = map /\ put.scores = st.scores /\ put.food_count = food
      /\ put.positions = positions /\ put.game_over = st.game_over
  BY DEF GameState
<1>6. put \in GameState
  BY <1>2, <1>3, <1>4 DEF GameState
<1> QED  BY <1>1, <1>5, <1>6 DEF map, food, positions

\* One character of load_map.
LEMMA PartialStep ==
  ASSUME NEW level, IsLevel(level), NEW here \in Position, NEW n, n = Position2Index(here)
  PROVE  PutGlyph(Partial(level, n), n, here.x, here.y, level[n]) = Partial(level, n + 1)
<1> DEFINE st   == Partial(level, n)
           tile == TileOf(level[n])
           Food(k) == FoodBelow(level, k)
<1>1. n \in Cells /\ n \in Nat /\ \A c \in Cells : c \in Int
  BY IndexInCells DEF Cells
<1>2. \A c \in Cells : c < n + 1 <=> c < n \/ c = n
  BY <1>1
<1>3. [st.map EXCEPT ![n] = tile]
        = [c \in Cells |-> IF c < n + 1 THEN TileOf(level[c]) ELSE "NONE"]
  BY <1>1, <1>2 DEF Partial
<1>4. (IF tile \in Edible THEN Cardinality(Food(n)) + 1 ELSE Cardinality(Food(n)))
        = Cardinality(Food(n + 1))
  <2>1. IsFiniteSet(Food(n)) /\ n \notin Food(n)
    BY <1>1, FoodFinite DEF FoodBelow
  <2>2. CASE tile \in Edible
    <3>1. Food(n + 1) = Food(n) \cup {n}
      BY <1>1, <1>2, <2>2 DEF FoodBelow
    <3> HIDE DEF Food
    <3> QED  BY <2>1, <2>2, <3>1, FS_AddElement
  <2>3. CASE tile \notin Edible
    <3>1. Food(n + 1) = Food(n)
      BY <1>1, <1>2, <2>3 DEF FoodBelow
    <3> QED  BY <2>3, <3>1
  <2> QED  BY <2>2, <2>3
<1>5. [p \in Player |-> IF level[n] = Mark[p] THEN [x |-> here.x, y |-> here.y]
                                              ELSE st.positions[p]]
        = [p \in Player |-> IF Position2Index(Place(level, p)) < n + 1
                              THEN Place(level, p) ELSE Origin]
  <2>1. here = [x |-> here.x, y |-> here.y]
    BY DEF Position
  <2>2. ASSUME NEW p \in Player
        PROVE  (IF level[n] = Mark[p] THEN [x |-> here.x, y |-> here.y] ELSE st.positions[p])
                 = IF Position2Index(Place(level, p)) < n + 1 THEN Place(level, p) ELSE Origin
    <3>1. CASE level[n] = Mark[p]
      <4>1. here = Place(level, p)
        BY <3>1, PlaceUnique
      <4> QED  BY <1>1, <2>1, <3>1, <4>1
    <3>2. CASE level[n] # Mark[p]
      <4>1. Position2Index(Place(level, p)) \in Cells /\ Position2Index(Place(level, p)) # n
        BY <3>2, PlaceUnique
      <4>2. st.positions[p] = IF Position2Index(Place(level, p)) < n
                                THEN Place(level, p) ELSE Origin
        BY DEF Partial
      <4> QED  BY <1>2, <3>2, <4>1, <4>2
    <3> QED  BY <3>1, <3>2
  <2> QED  BY <2>2
<1> DEFINE put == PutGlyph(st, n, here.x, here.y, level[n])
           new == Partial(level, n + 1)
<1>6. st \in GameState /\ new \in GameState
  BY PartialTyped
<1>7. /\ put \in GameState
      /\ put.map = [st.map EXCEPT ![n] = tile] /\ put.scores = st.scores
      /\ put.food_count = IF tile \in Edible THEN st.food_count + 1 ELSE st.food_count
      /\ put.positions = [p \in Player |-> IF level[n] = Mark[p] THEN [x |-> here.x, y |-> here.y]
                                                                 ELSE st.positions[p]]
      /\ put.game_over = st.game_over
  BY <1>6, PutGlyphFields
<1>8. /\ st.scores = new.scores /\ st.game_over = new.game_over
      /\ st.food_count = Cardinality(Food(n)) /\ new.food_count = Cardinality(Food(n + 1))
      /\ new.map = [c \in Cells |-> IF c < n + 1 THEN TileOf(level[c]) ELSE "NONE"]
      /\ new.positions = [p \in Player |-> IF Position2Index(Place(level, p)) < n + 1
                                             THEN Place(level, p) ELSE Origin]
  BY DEF Partial
<1> HIDE DEF st, tile, Food, put, new
<1>9. /\ put.map = new.map /\ put.scores = new.scores /\ put.food_count = new.food_count
      /\ put.positions = new.positions /\ put.game_over = new.game_over
  BY <1>3, <1>4, <1>5, <1>7, <1>8
<1>10. put = new
  BY <1>6, <1>7, <1>9, SameState
<1> QED  BY <1>10 DEF put, new, st

\* The end of the file.
LEMMA PartialAll ==
  ASSUME NEW level, IsLevel(level)
  PROVE  [Partial(level, MAP_SIZE) EXCEPT
            !.game_over = (Partial(level, MAP_SIZE).food_count = 0)] = Load(level)
<1> DEFINE map == [c \in Cells |-> TileOf(level[c])]
<1>1. \A c \in Cells : c < MAP_SIZE
  BY SizeAssumption DEF Cells, MAP_SIZE
<1>2. EdibleCells(map) = FoodBelow(level, MAP_SIZE)
  BY <1>1 DEF EdibleCells, FoodBelow
<1>3. Cardinality(EdibleCells(map)) = 0 <=> EdibleCells(map) = {}
  BY EdiblesFinite, FS_EmptySet
<1>4. [c \in Cells |-> IF c < MAP_SIZE THEN TileOf(level[c]) ELSE "NONE"] = map
  BY <1>1
<1>5. [p \in Player |-> IF Position2Index(Place(level, p)) < MAP_SIZE
                          THEN Place(level, p) ELSE Origin]
        = [p \in Player |-> Place(level, p)]
  BY <1>1, PlaceUnique
<1>6. Partial(level, MAP_SIZE)
        = [map |-> map, scores |-> [p \in Player |-> 0],
           food_count |-> Cardinality(EdibleCells(map)),
           positions |-> [p \in Player |-> Place(level, p)], game_over |-> TRUE]
  BY <1>2, <1>4, <1>5 DEF Partial
<1>7. Load(level)
        = [map |-> map, scores |-> [p \in Player |-> 0],
           food_count |-> Cardinality(EdibleCells(map)),
           positions |-> [p \in Player |-> Place(level, p)],
           game_over |-> (EdibleCells(map) = {})]
  BY DEF Load, Place
<1> HIDE DEF map
<1> QED  BY <1>3, <1>6, <1>7

-----------------------------------------------------------------------------
(* The loop.                                                               *)

\* Where the loop is in the file, and what it has made of the state so far.
Counters ==
  /\ pc = "idle" => at = 0
  /\ pc = "reading" => /\ pos = Count(file, at, Glyph) /\ y = Count(file, at, {"LF"})
                       /\ pos = y * WIDTH + x
  /\ pc = "rewind" => pos = MAP_SIZE

Filled == /\ pc = "reading" => state = Partial(LevelOf(file), pos)
          /\ pc = "rewind" => state = Load(LevelOf(file))

IInv == TypeOK /\ Counters /\ Filled

LEMMA FileTyped ==
  ASSUME NEW f \in Files
  PROVE  /\ IsMapFile(f) /\ IsLevel(LevelOf(f)) /\ f \in Seq(Chars)
         /\ Len(f) \in Nat /\ DOMAIN f = 1 .. Len(f) /\ Count(f, Len(f), Glyph) = MAP_SIZE
BY FilesAssumption DEF IsMapFile

\* Where a line may end and a tile may stand.
LEMMA RowShape ==
  ASSUME NEW f \in Files, NEW n \in Nat, n + 1 \in DOMAIN f
  PROVE  /\ f[n + 1] = "LF" => Count(f, n, Glyph) = (Count(f, n, {"LF"}) + 1) * WIDTH
         /\ f[n + 1] \in Glyph => Count(f, n, Glyph) < (Count(f, n, {"LF"}) + 1) * WIDTH
<1>1. PICK i \in DOMAIN f : i = n + 1
  OBVIOUS
<1>2. /\ f[i] = "LF" => Count(f, i - 1, Glyph) = (Count(f, i - 1, {"LF"}) + 1) * WIDTH
      /\ f[i] \in Glyph => Count(f, i - 1, Glyph) < (Count(f, i - 1, {"LF"}) + 1) * WIDTH
  BY FileTyped DEF IsMapFile
<1>3. i - 1 = n
  BY <1>1
<1> QED  BY <1>1, <1>2, <1>3

\* A row that is begun or full is on the map.
LEMMA RowsFit ==
  ASSUME NEW n \in Nat, n * WIDTH <= MAP_SIZE
  PROVE  n <= HEIGHT /\ (n * WIDTH < MAP_SIZE => n < HEIGHT)
<1>1. WIDTH \in Nat /\ WIDTH > 0 /\ HEIGHT \in Nat
  BY SizeAssumption
<1>2. ASSUME NEW a \in Nat, NEW b \in Nat, a < b PROVE a * WIDTH < b * WIDTH
  BY <1>1, <1>2
<1>3. HEIGHT * WIDTH = MAP_SIZE
  BY <1>1 DEF MAP_SIZE
<1>4. HEIGHT < n => HEIGHT * WIDTH < n * WIDTH
  BY <1>1, <1>2
<1>5. n * WIDTH \in Nat /\ HEIGHT * WIDTH \in Nat
  BY <1>1
<1> QED  BY <1>1, <1>3, <1>4, <1>5

\* A tile is read where it belongs, (x, y) being the position of the cell pos.
LEMMA TileHere ==
  ASSUME IInv, pc = "reading", at < Len(file), file[at + 1] \in Glyph
  PROVE  /\ [x |-> x, y |-> y] \in Position /\ Position2Index([x |-> x, y |-> y]) = pos
         /\ pos \in Cells /\ LevelOf(file)[pos] = file[at + 1]
<1>1. /\ file \in Files /\ at \in Nat /\ at + 1 \in DOMAIN file
      /\ pos = Count(file, at, Glyph) /\ y = Count(file, at, {"LF"}) /\ pos = y * WIDTH + x
      /\ pos \in Nat /\ x \in Nat /\ y \in Nat
  BY FileTyped DEF IInv, TypeOK, Counters
<1>2. WIDTH \in Nat /\ HEIGHT \in Nat /\ MAP_SIZE \in Nat /\ y * WIDTH \in Nat
  BY <1>1, SizeAssumption DEF MAP_SIZE
<1>4. pos < (y + 1) * WIDTH
  BY <1>1, RowShape
<1>5. (y + 1) * WIDTH = y * WIDTH + WIDTH
  BY <1>1, <1>2
<1>6. x \in 0 .. WIDTH - 1
  BY <1>1, <1>2, <1>4, <1>5
<1>7. pos < MAP_SIZE
  <2>1. Count(file, at + 1, Glyph) = pos + 1
    BY <1>1, CountStep
  <2>2. Len(file) \in Nat /\ at + 1 \in Nat /\ at + 1 <= Len(file)
    BY <1>1, FileTyped
  <2>3. Count(file, at + 1, Glyph) <= Count(file, Len(file), Glyph)
    BY <2>2, CountGrows
  <2>4. Count(file, Len(file), Glyph) = MAP_SIZE
    BY <1>1, FileTyped
  <2> QED  BY <1>1, <1>2, <2>1, <2>3, <2>4
<1>8. pos \in Cells
  BY <1>1, <1>2, <1>7 DEF Cells
<1>9. y < HEIGHT
  <2>1. y * WIDTH <= MAP_SIZE /\ y * WIDTH < MAP_SIZE
    BY <1>1, <1>2, <1>7
  <2> QED  BY <1>1, <2>1, RowsFit
<1>10. LevelOf(file)[pos] = file[at + 1]
  BY <1>1, <1>8, FileTyped, LevelHere
<1> QED  BY <1>1, <1>2, <1>6, <1>8, <1>9, <1>10 DEF Position, Position2Index

LEMMA CallKeeps == IInv /\ Call => IInv'
<1> SUFFICES ASSUME IInv, Call PROVE IInv'
  OBVIOUS
<1>1. file \in Files /\ at = 0 /\ file' = file /\ at' = 0 /\ loads \in Nat /\ loads < MaxLoads
  BY DEF IInv, TypeOK, Counters, Call
<1>2. pos' = 0 /\ x' = 0 /\ y' = 0 /\ state' = ResetState /\ pc' = "reading" /\ loads' = loads + 1
  BY DEF Call
<1>3. WIDTH \in Nat /\ HEIGHT \in Nat /\ MAP_SIZE \in Nat /\ MaxLoads \in Nat
  BY SizeAssumption, FilesAssumption DEF MAP_SIZE
<1>4. TypeOK'
  BY <1>1, <1>2, <1>3, FileTyped, ResetTyped DEF TypeOK
<1>5. Counters'
  BY <1>1, <1>2, <1>3, CountNone DEF Counters
<1>6. Filled'
  BY <1>1, <1>2, FileTyped, PartialNone DEF Filled
<1> QED  BY <1>4, <1>5, <1>6 DEF IInv

LEMMA ReadGlyphKeeps == IInv /\ Read /\ ReadGlyph => IInv'
<1> SUFFICES ASSUME IInv, Read, ReadGlyph PROVE IInv'
  OBVIOUS
<1>1. /\ pc = "reading" /\ pc' = "reading" /\ at < Len(file) /\ at' = at + 1 /\ file' = file
      /\ loads' = loads /\ x' = x + 1 /\ y' = y /\ pos' = pos + 1
      /\ file[at + 1] \in Glyph /\ state' = PutGlyph(state, pos, x, y, file[at + 1])
  BY DEF Read, ReadGlyph
<1>2. /\ file \in Files /\ at \in Nat /\ pos \in Nat /\ x \in Nat /\ y \in Nat
      /\ pos = Count(file, at, Glyph) /\ y = Count(file, at, {"LF"}) /\ pos = y * WIDTH + x
      /\ state = Partial(LevelOf(file), pos)
      /\ loads \in 0 .. MaxLoads /\ y \in 0 .. HEIGHT
  BY <1>1 DEF IInv, TypeOK, Counters, Filled
<1>3. PICK here \in Position : here = [x |-> x, y |-> y] /\ pos = Position2Index(here)
  BY <1>1, TileHere
<1>4. pos \in Cells /\ LevelOf(file)[pos] = file[at + 1] /\ here.x = x /\ here.y = y
  BY <1>1, <1>3, TileHere
<1>5. state' = Partial(LevelOf(file), pos + 1)
  BY <1>1, <1>2, <1>3, <1>4, FileTyped, PartialStep
<1>6. pos + 1 \in 0 .. MAP_SIZE /\ x + 1 \in 0 .. WIDTH /\ at + 1 \in 0 .. Len(file)
  <2>1. WIDTH \in Nat /\ MAP_SIZE \in Nat
    BY SizeAssumption DEF MAP_SIZE
  <2>2. x \in 0 .. WIDTH - 1
    BY <1>3, <1>4 DEF Position
  <2>3. pos \in 0 .. MAP_SIZE - 1
    BY <1>4 DEF Cells
  <2>4. Len(file) \in Nat
    BY <1>2, FileTyped
  <2>5. at < Len(file) /\ at \in Nat
    BY <1>1, <1>2
  <2>6. at + 1 \in 0 .. Len(file)
    BY <2>4, <2>5
  <2> QED  BY <2>1, <2>2, <2>3, <2>6
<1>7. state' \in GameState
  BY <1>2, <1>5, FileTyped, PartialTyped
<1>8. Count(file, at + 1, Glyph) = pos + 1 /\ Count(file, at + 1, {"LF"}) = y
  BY <1>1, <1>2, CountStep DEF Glyph
<1>9. pos + 1 = y * WIDTH + (x + 1)
  BY <1>2, SizeAssumption
<1>10. TypeOK'
  BY <1>1, <1>2, <1>6, <1>7 DEF TypeOK
<1>11. Counters'
  BY <1>1, <1>8, <1>9 DEF Counters
<1>12. Filled'
  BY <1>1, <1>5 DEF Filled
<1> QED  BY <1>10, <1>11, <1>12 DEF IInv

LEMMA ReadLineKeeps == IInv /\ Read /\ ReadLine => IInv'
<1> SUFFICES ASSUME IInv, Read, ReadLine PROVE IInv'
  OBVIOUS
<1>1. /\ pc = "reading" /\ pc' = "reading" /\ at < Len(file) /\ at' = at + 1 /\ file' = file
      /\ loads' = loads /\ x' = 0 /\ y' = y + 1 /\ pos' = pos
      /\ file[at + 1] = "LF" /\ state' = state
  BY DEF Read, ReadLine
<1>2. /\ file \in Files /\ at \in Nat /\ pos \in 0 .. MAP_SIZE /\ y \in Nat
      /\ pos = Count(file, at, Glyph) /\ y = Count(file, at, {"LF"})
      /\ state = Partial(LevelOf(file), pos) /\ state \in GameState
      /\ loads \in 0 .. MaxLoads
  BY <1>1 DEF IInv, TypeOK, Counters, Filled
<1>3. at + 1 \in DOMAIN file
  BY <1>1, <1>2, FileTyped
<1>4. pos = (y + 1) * WIDTH
  BY <1>1, <1>2, <1>3, RowShape
<1>5. y + 1 \in 0 .. HEIGHT
  BY <1>2, <1>4, RowsFit, SizeAssumption DEF MAP_SIZE
<1>6. Count(file, at + 1, Glyph) = pos /\ Count(file, at + 1, {"LF"}) = y + 1
  <2>1. file[at + 1] \notin Glyph /\ file[at + 1] \in {"LF"}
    BY <1>1 DEF Glyph
  <2> QED  BY <1>2, <2>1, CountStep
<1>7. (y + 1) * WIDTH = (y + 1) * WIDTH + 0 /\ 0 \in 0 .. WIDTH /\ at + 1 \in 0 .. Len(file)
  BY <1>1, <1>2, SizeAssumption, FileTyped
<1>8. TypeOK'
  BY <1>1, <1>2, <1>5, <1>7 DEF TypeOK
<1>9. Counters'
  BY <1>1, <1>4, <1>6, <1>7 DEF Counters
<1>10. Filled'
  BY <1>1, <1>2 DEF Filled
<1> QED  BY <1>8, <1>9, <1>10 DEF IInv

LEMMA ReadOtherKeeps == IInv /\ Read /\ ReadOther => IInv'
<1> SUFFICES ASSUME IInv, Read, ReadOther PROVE IInv'
  OBVIOUS
<1>1. /\ pc = "reading" /\ pc' = "reading" /\ at < Len(file) /\ at' = at + 1 /\ file' = file
      /\ loads' = loads /\ UNCHANGED <<x, y, pos, state>>
      /\ file[at + 1] \notin Glyph /\ file[at + 1] # "LF"
  BY DEF Read, ReadOther
<1>2. file \in Files /\ at \in Nat
  BY DEF IInv, TypeOK
<1>3. /\ Count(file, at + 1, Glyph) = Count(file, at, Glyph)
      /\ Count(file, at + 1, {"LF"}) = Count(file, at, {"LF"})
  BY <1>1, <1>2, CountStep
<1>4. at + 1 \in 0 .. Len(file)
  BY <1>1, <1>2, FileTyped
<1>5. TypeOK'
  BY <1>1, <1>4 DEF IInv, TypeOK
<1>6. Counters' /\ Filled'
  BY <1>1, <1>3 DEF IInv, Counters, Filled
<1> QED  BY <1>5, <1>6 DEF IInv

LEMMA EofKeeps == IInv /\ Eof => IInv'
<1> SUFFICES ASSUME IInv, Eof PROVE IInv'
  OBVIOUS
<1>1. /\ pc = "reading" /\ pc' = "rewind" /\ at = Len(file)
      /\ UNCHANGED <<file, at, loads, pos, x, y>>
      /\ state' = [state EXCEPT !.game_over = (state.food_count = 0)]
  BY DEF Eof
<1>2. file \in Files /\ pos = Count(file, at, Glyph) /\ state = Partial(LevelOf(file), pos)
  BY <1>1 DEF IInv, TypeOK, Counters, Filled
<1>3. pos = MAP_SIZE
  BY <1>1, <1>2, FileTyped
<1>4. state' = Load(LevelOf(file))
  BY <1>1, <1>2, <1>3, FileTyped, PartialAll
<1>5. state' \in GameState
  BY <1>2, <1>4, FileTyped, LoadTyped
<1>6. TypeOK'
  BY <1>1, <1>5 DEF IInv, TypeOK
<1>7. Counters' /\ Filled'
  BY <1>1, <1>3, <1>4 DEF Counters, Filled
<1> QED  BY <1>6, <1>7 DEF IInv

LEMMA NextIInv == IInv /\ [Next]_vars => IInv'
<1>1. IInv /\ Rewind => IInv'
  <2> SUFFICES ASSUME IInv, Rewind PROVE IInv'
    OBVIOUS
  <2>1. 0 \in 0 .. Len(file)
    BY FileTyped DEF IInv, TypeOK
  <2> QED  BY <2>1 DEF IInv, TypeOK, Counters, Filled, Rewind
<1>2. IInv /\ UNCHANGED vars => IInv'
  BY DEF IInv, TypeOK, Counters, Filled, vars
<1> QED  BY <1>1, <1>2, CallKeeps, ReadGlyphKeeps, ReadLineKeeps, ReadOtherKeeps, EofKeeps
         DEF Next, Read

LEMMA InitIInv == Init => IInv
<1> SUFFICES ASSUME Init PROVE IInv
  OBVIOUS
<1>1. state \in GameState
  BY ResetTyped DEF Init, GameState
<1>2. /\ 0 \in 0 .. Len(file) /\ 0 \in 0 .. MaxLoads /\ 0 \in 0 .. MAP_SIZE
      /\ 0 \in 0 .. WIDTH /\ 0 \in 0 .. HEIGHT
  BY FileTyped, SizeAssumption, FilesAssumption DEF Init, MAP_SIZE
<1> QED  BY <1>1, <1>2 DEF Init, IInv, TypeOK, Counters, Filled

LEMMA AlwaysIInv == Spec => []IInv
BY InitIInv, NextIInv, PTL DEF Spec

\* Every variable holds a value of its type: load_map never writes map[] past its end, and
\* the position of a player is on the map, whichever map file it reads.
THEOREM LoadMapTypeCorrect == Spec => []TypeOK
<1>1. IInv => TypeOK
  BY DEF IInv
<1> QED  BY <1>1, AlwaysIInv, PTL

\* Each load_map, the first and those after lseek, leaves the state that the file
\* describes: Game and Server may take it for one step, Load.
THEOREM LoopComputesLoad == Spec => []LoadedAsWritten
<1>1. IInv => LoadedAsWritten
  BY DEF IInv, Filled, LoadedAsWritten
<1> QED  BY <1>1, AlwaysIInv, PTL

-----------------------------------------------------------------------------
(* The messages.                                                           *)

\* What a client is shown of a cell.
Shown(g) == CASE g = "#" -> {"WALL"}
              [] g = "." -> {"FLOOR", "FOOD"}
              [] g = "*" -> {"FLOOR", "SUPERFOOD"}
              [] g = " " -> {"FLOOR"}
              [] g = "@" -> {"FLOOR", "PLAYER1"}
              [] g = "!" -> {"FLOOR", "PLAYER2"}

Kind      == Tile \cup {"PLAYER1", "PLAYER2"}
SpawnMsgs == {Spawn(here.x, here.y, item) : here \in Position, item \in Kind}
Messages  == SpawnMsgs \cup {GameOver(1)}

Index(m)  == Position2Index(m.pos)

\* The messages are spawns, and after those of a map without food the end of the game.
Worded ==
  /\ sent \in Seq(Messages)
  /\ pc = "reading" => sent \in Seq(SpawnMsgs)
  /\ pc = "rewind" =>
       IF state.food_count = 0
         THEN \E s \in Seq(SpawnMsgs) : sent = Append(s, GameOver(1))
         ELSE sent \in Seq(SpawnMsgs)

\* The spawns are those of the cells below pos.
Told ==
  pc \in {"reading", "rewind"} =>
    LET level == LevelOf(file) IN
    /\ \A i \in DOMAIN sent : sent[i].msgt = "SPAWN" =>
         Index(sent[i]) < pos /\ sent[i].item \in Shown(level[Index(sent[i])])
    /\ \A c \in Cells : c < pos => \A item \in Shown(level[c]) :
         \E i \in DOMAIN sent : sent[i].msgt = "SPAWN" /\ Index(sent[i]) = c /\ sent[i].item = item

LEMMA SpawnFields ==
  ASSUME NEW m \in SpawnMsgs
  PROVE  /\ m.msgt = "SPAWN" /\ m.pos \in Position /\ m.item \in Kind
         /\ m.id = Id(m.pos.x, m.pos.y, m.item)
<1>1. PICK here \in Position, item \in Kind : m = Spawn(here.x, here.y, item)
  BY DEF SpawnMsgs
<1>2. here = [x |-> here.x, y |-> here.y]
  BY DEF Position
<1>3. m.msgt = "SPAWN" /\ m.pos = here /\ m.item = item /\ m.id = Id(here.x, here.y, item)
  BY <1>1, <1>2 DEF Spawn
<1> QED  BY <1>3

\* The messages s show what a client is to see at here, and nothing twice.
Show(s, g, here) ==
  /\ s \in Seq(SpawnMsgs)
  /\ \A k \in DOMAIN s : s[k].pos = here /\ s[k].item \in Shown(g)
  /\ \A item \in Shown(g) : \E k \in DOMAIN s : s[k].item = item
  /\ \A k, l \in DOMAIN s : s[k].item = s[l].item => k = l

LEMMA SpawnsShow ==
  ASSUME NEW g \in Glyph, NEW here \in Position
  PROVE  Show(Spawns(g, here.x, here.y), g, here)
<1> DEFINE s == Spawns(g, here.x, here.y)
           m(item) == Spawn(here.x, here.y, item)
<1>1. here = [x |-> here.x, y |-> here.y]
  BY DEF Position
<1>2. \A item \in Kind : m(item) \in SpawnMsgs /\ m(item).pos = here /\ m(item).item = item
  BY <1>1 DEF SpawnMsgs, Spawn
<1>3. {"WALL", "FLOOR", "FOOD", "SUPERFOOD", "PLAYER1", "PLAYER2"} \subseteq Kind
  BY DEF Kind, Tile, Edible
<1> HIDE DEF m
<1>4. ASSUME NEW a \in Kind, Shown(g) = {a}, s = <<m(a)>>
      PROVE  Show(s, g, here)
  BY <1>2, <1>4 DEF Show
<1>5. ASSUME NEW a \in Kind, NEW b \in Kind, a # b, Shown(g) = {a, b}, s = <<m(a), m(b)>>
      PROVE  Show(s, g, here)
  BY <1>2, <1>5 DEF Show
<1>6. \/ \E a \in Kind : Shown(g) = {a} /\ s = <<m(a)>>
      \/ \E a, b \in Kind : a # b /\ Shown(g) = {a, b} /\ s = <<m(a), m(b)>>
  BY <1>3 DEF Glyph, Shown, Spawns, m
<1> QED  BY <1>4, <1>5, <1>6

\* The identifiers, by kind.
LEMMA IdOf ==
  ASSUME NEW m \in SpawnMsgs
  PROVE  /\ m.item \in Edible => m.id = Index(m)
         /\ m.item \in {"WALL", "FLOOR"} => m.id = MAP_SIZE + Index(m)
         /\ m.item = "PLAYER1" => m.id = 3 * MAP_SIZE
         /\ m.item = "PLAYER2" => m.id = 3 * MAP_SIZE + 1
<1>1. m.id = Id(m.pos.x, m.pos.y, m.item)
  BY SpawnFields
<1>2. PICK c \in Cells : c = m.pos.y * WIDTH + m.pos.x /\ c = Index(m)
  BY SpawnFields, IndexInCells DEF Index, Position2Index
<1>3. MAP_SIZE \in Nat /\ c \in Nat
  BY SizeAssumption DEF Cells, MAP_SIZE
<1>4. m.item \in Edible => m.id = 0 + c
  BY <1>1, <1>2 DEF Id, BaseId, Edible
<1>5. m.item \in {"WALL", "FLOOR"} => m.id = MAP_SIZE + c
  BY <1>1, <1>2 DEF Id, BaseId, Edible
<1>6. m.item = "PLAYER1" => m.id = 3 * MAP_SIZE
  BY <1>1, <1>3 DEF Id, PlayerId
<1>7. m.item = "PLAYER2" => m.id = 3 * MAP_SIZE + 1
  BY <1>1, <1>3 DEF Id, PlayerId
<1> QED  BY <1>2, <1>3, <1>4, <1>5, <1>6, <1>7

\* Two spawns of a level with the same identifier are for the same item of the same cell.
LEMMA IdsApart ==
  ASSUME NEW level, IsLevel(level), NEW m \in SpawnMsgs, NEW n \in SpawnMsgs,
         m.item \in Shown(level[Index(m)]), n.item \in Shown(level[Index(n)]), m.id = n.id
  PROVE  Index(m) = Index(n) /\ m.item = n.item
<1> DEFINE c == Index(m)
           d == Index(n)
<1>1. c \in Cells /\ d \in Cells /\ level[c] \in Glyph /\ level[d] \in Glyph
  BY SpawnFields, IndexInCells DEF Index, IsLevel
<1>4. ASSUME NEW p \in Player, level[c] = Mark[p], level[d] = Mark[p] PROVE c = d
  <2>1. m.pos = Place(level, p) /\ n.pos = Place(level, p)
    BY <1>4, PlaceUnique, SpawnFields DEF Index
  <2> QED  BY <2>1 DEF Index
<1>5. level[c] = "@" /\ level[d] = "@" => c = d
  BY <1>4 DEF Mark, Player
<1>6. level[c] = "!" /\ level[d] = "!" => c = d
  BY <1>4 DEF Mark, Player
<1>7. MAP_SIZE \in Nat /\ c \in 0 .. MAP_SIZE - 1 /\ d \in 0 .. MAP_SIZE - 1
  BY <1>1, SizeAssumption DEF Cells, MAP_SIZE
<1>8. m.item \in Kind /\ n.item \in Kind /\ m.item \in Shown(level[c]) /\ n.item \in Shown(level[d])
  BY SpawnFields
<1>9. /\ level[c] \in Glyph /\ m.item = "PLAYER1" => level[c] = "@"
      /\ level[c] \in Glyph /\ m.item = "PLAYER2" => level[c] = "!"
      /\ level[d] \in Glyph /\ n.item = "PLAYER1" => level[d] = "@"
      /\ level[d] \in Glyph /\ n.item = "PLAYER2" => level[d] = "!"
  BY <1>8 DEF Glyph, Shown
<1>10. /\ m.item \in Edible => m.id = c
       /\ m.item \in {"WALL", "FLOOR"} => m.id = MAP_SIZE + c
       /\ m.item = "PLAYER1" => m.id = 3 * MAP_SIZE
       /\ m.item = "PLAYER2" => m.id = 3 * MAP_SIZE + 1
       /\ n.item \in Edible => n.id = d
       /\ n.item \in {"WALL", "FLOOR"} => n.id = MAP_SIZE + d
       /\ n.item = "PLAYER1" => n.id = 3 * MAP_SIZE
       /\ n.item = "PLAYER2" => n.id = 3 * MAP_SIZE + 1
  BY IdOf
<1> HIDE DEF c, d
<1>11. \/ m.item \in Edible /\ n.item \in Edible /\ c = d
       \/ m.item \in {"WALL", "FLOOR"} /\ n.item \in {"WALL", "FLOOR"} /\ c = d
       \/ m.item = "PLAYER1" /\ n.item = "PLAYER1"
       \/ m.item = "PLAYER2" /\ n.item = "PLAYER2"
  BY <1>7, <1>8, <1>10 DEF Kind, Tile
<1>12. c = d
  BY <1>1, <1>5, <1>6, <1>9, <1>11
<1>13. m.item = n.item
  BY <1>1, <1>8, <1>11, <1>12 DEF Glyph, Shown, Edible
<1> QED  BY <1>12, <1>13 DEF c, d

\* What a concatenation consists of.
LEMMA Parts ==
  ASSUME NEW S, NEW s \in Seq(S), NEW t \in Seq(S)
  PROVE  /\ s \o t \in Seq(S)
         /\ \A i \in DOMAIN (s \o t) : \/ i \in DOMAIN s /\ (s \o t)[i] = s[i]
                                       \/ \E k \in DOMAIN t : i = Len(s) + k /\ (s \o t)[i] = t[k]
         /\ \A i \in DOMAIN s : i \in DOMAIN (s \o t) /\ (s \o t)[i] = s[i]
         /\ \A k \in DOMAIN t : Len(s) + k \in DOMAIN (s \o t) /\ (s \o t)[Len(s) + k] = t[k]
<1>1. s \o t \in Seq(S) /\ Len(s \o t) = Len(s) + Len(t) /\ Len(s) \in Nat /\ Len(t) \in Nat
  BY ConcatProperties
<1>2. /\ DOMAIN s = 1 .. Len(s) /\ DOMAIN t = 1 .. Len(t)
      /\ DOMAIN (s \o t) = 1 .. Len(s) + Len(t)
  BY <1>1
<1>3. \A i \in 1 .. Len(s) + Len(t) :
        (s \o t)[i] = IF i <= Len(s) THEN s[i] ELSE t[i - Len(s)]
  BY <1>1, ConcatProperties
<1>4. ASSUME NEW i \in DOMAIN (s \o t), i \notin DOMAIN s
      PROVE  i - Len(s) \in DOMAIN t /\ i = Len(s) + (i - Len(s)) /\ (s \o t)[i] = t[i - Len(s)]
  BY <1>1, <1>2, <1>3, <1>4
<1>5. ASSUME NEW i \in DOMAIN s PROVE i \in DOMAIN (s \o t) /\ (s \o t)[i] = s[i]
  BY <1>1, <1>2, <1>3
<1>6. ASSUME NEW k \in DOMAIN t
      PROVE  Len(s) + k \in DOMAIN (s \o t) /\ (s \o t)[Len(s) + k] = t[k]
  <2>1. k \in 1 .. Len(t) /\ ~(Len(s) + k <= Len(s)) /\ Len(s) + k - Len(s) = k
    BY <1>1, <1>2
  <2>2. Len(s) + k \in 1 .. Len(s) + Len(t)
    BY <1>1, <2>1
  <2> QED  BY <1>2, <1>3, <2>1, <2>2
<1> QED  BY <1>1, <1>4, <1>5, <1>6

MInv == Worded /\ Told /\ IdsUnique

LEMMA ReadGlyphTells == IInv /\ MInv /\ Read /\ ReadGlyph => MInv'
<1> SUFFICES ASSUME IInv, MInv, Read, ReadGlyph PROVE MInv'
  OBVIOUS
<1> DEFINE level == LevelOf(file)
           new   == Spawns(file[at + 1], x, y)
<1>1. /\ pc = "reading" /\ pc' = "reading" /\ at < Len(file) /\ file' = file /\ pos' = pos + 1
      /\ file[at + 1] \in Glyph /\ sent' = sent \o new
  BY DEF Read, ReadGlyph
<1>2. PICK here \in Position : here = [x |-> x, y |-> y] /\ pos = Position2Index(here)
  BY <1>1, TileHere
<1>3. /\ pos \in Cells /\ level[pos] = file[at + 1] /\ here.x = x /\ here.y = y
      /\ pos \in Nat /\ IsLevel(level)
  BY <1>1, <1>2, TileHere, FileTyped DEF IInv, TypeOK, Cells
<1> HIDE DEF level
<1>4. new = Spawns(level[pos], here.x, here.y) /\ level[pos] \in Glyph
  BY <1>1, <1>3
<1> HIDE DEF new
<1>5. Show(new, level[pos], here)
  BY <1>4, SpawnsShow
<1>6. /\ new \in Seq(SpawnMsgs)
      /\ \A k \in DOMAIN new : new[k].pos = here /\ new[k].item \in Shown(level[pos])
      /\ \A item \in Shown(level[pos]) : \E k \in DOMAIN new : new[k].item = item
      /\ \A k, l \in DOMAIN new : new[k].item = new[l].item => k = l
  BY <1>5 DEF Show
<1>7. sent \in Seq(SpawnMsgs)
  BY <1>1 DEF MInv, Worded
<1>8. /\ \A i \in DOMAIN sent : sent[i] \in SpawnMsgs /\ sent[i].msgt = "SPAWN"
      /\ \A k \in DOMAIN new : new[k] \in SpawnMsgs /\ new[k].msgt = "SPAWN" /\ Index(new[k]) = pos
  BY <1>2, <1>6, <1>7, SpawnFields DEF Index
<1>9. /\ \A i \in DOMAIN sent :
           Index(sent[i]) < pos /\ sent[i].item \in Shown(level[Index(sent[i])])
      /\ \A c \in Cells : c < pos => \A item \in Shown(level[c]) :
           \E i \in DOMAIN sent :
             sent[i].msgt = "SPAWN" /\ Index(sent[i]) = c /\ sent[i].item = item
      /\ \A i, j \in DOMAIN sent : sent[i].id = sent[j].id => i = j
  BY <1>1, <1>8 DEF MInv, Told, IdsUnique, level
<1>10. /\ sent' \in Seq(SpawnMsgs)
       /\ \A i \in DOMAIN sent' : \/ i \in DOMAIN sent /\ sent'[i] = sent[i]
                                  \/ \E k \in DOMAIN new : i = Len(sent) + k /\ sent'[i] = new[k]
       /\ \A i \in DOMAIN sent : i \in DOMAIN sent' /\ sent'[i] = sent[i]
       /\ \A k \in DOMAIN new : Len(sent) + k \in DOMAIN sent' /\ sent'[Len(sent) + k] = new[k]
  BY <1>1, <1>6, <1>7, Parts DEF new
<1>11. \A m \in SpawnMsgs : Index(m) \in Nat
  BY SpawnFields, IndexInCells DEF Index, Cells
<1>12. Worded'
  <2>1. SpawnMsgs \subseteq Messages
    BY DEF Messages
  <2>2. sent' \in Seq(Messages)
    BY <1>10, <2>1
  <2> QED  BY <1>1, <1>10, <2>2 DEF Worded
<1>13. Told'
  <2>1. ASSUME NEW i \in DOMAIN sent'
        PROVE  Index(sent'[i]) < pos + 1 /\ sent'[i].item \in Shown(level[Index(sent'[i])])
    BY <1>3, <1>6, <1>8, <1>9, <1>10, <1>11
  <2>2. ASSUME NEW c \in Cells, c < pos + 1, NEW item \in Shown(level[c])
        PROVE  \E i \in DOMAIN sent' :
                 sent'[i].msgt = "SPAWN" /\ Index(sent'[i]) = c /\ sent'[i].item = item
    <3>1. CASE c = pos
      <4>1. PICK k \in DOMAIN new : new[k].item = item
        BY <1>6, <2>2, <3>1
      <4> QED  BY <1>8, <1>10, <3>1, <4>1
    <3>2. CASE c < pos
      <4>1. PICK i \in DOMAIN sent :
              sent[i].msgt = "SPAWN" /\ Index(sent[i]) = c /\ sent[i].item = item
        BY <1>9, <2>2, <3>2
      <4>2. i \in DOMAIN sent' /\ sent'[i] = sent[i]
        BY <1>10
      <4> QED  BY <4>1, <4>2
    <3> QED  BY <1>3, <2>2, <3>1, <3>2 DEF Cells
  <2> QED  BY <1>1, <2>1, <2>2 DEF Told, level
<1>14. IdsUnique'
  <2> SUFFICES ASSUME NEW i \in DOMAIN sent', NEW j \in DOMAIN sent', sent'[i].id = sent'[j].id
               PROVE  i = j
    BY DEF IdsUnique
  <2>1. /\ sent'[i] \in SpawnMsgs /\ sent'[i].item \in Shown(level[Index(sent'[i])])
        /\ sent'[j] \in SpawnMsgs /\ sent'[j].item \in Shown(level[Index(sent'[j])])
    BY <1>6, <1>8, <1>9, <1>10
  <2>2. Index(sent'[i]) = Index(sent'[j]) /\ sent'[i].item = sent'[j].item
    BY <1>3, <2>1, IdsApart
  <2>3. CASE Index(sent'[i]) < pos
    BY <1>3, <1>8, <1>9, <1>10, <2>2, <2>3
  <2>4. CASE Index(sent'[i]) = pos
    <3>1. PICK k \in DOMAIN new : i = Len(sent) + k /\ sent'[i] = new[k]
      BY <1>3, <1>9, <1>10, <2>4
    <3>2. PICK l \in DOMAIN new : j = Len(sent) + l /\ sent'[j] = new[l]
      <4>1. Index(sent'[j]) = pos
        BY <2>2, <2>4
      <4> QED  BY <1>3, <1>9, <1>10, <4>1
    <3> QED  BY <1>6, <2>2, <3>1, <3>2
  <2>5. Index(sent'[i]) < pos \/ Index(sent'[i]) = pos
    BY <1>8, <1>9, <1>10
  <2> QED  BY <2>3, <2>4, <2>5
<1> QED  BY <1>12, <1>13, <1>14 DEF MInv

LEMMA EofTells == IInv /\ MInv /\ Eof => MInv'
<1> SUFFICES ASSUME IInv, MInv, Eof PROVE MInv'
  OBVIOUS
<1>1. /\ pc = "reading" /\ pc' = "rewind" /\ file' = file /\ pos' = pos
      /\ sent' = IF state.food_count = 0 THEN Append(sent, GameOver(1)) ELSE sent
      /\ state' = [state EXCEPT !.game_over = (state.food_count = 0)]
  BY DEF Eof
<1>2. state'.food_count = state.food_count
  BY <1>1 DEF IInv, TypeOK, GameState
<1>3. sent \in Seq(SpawnMsgs) /\ sent \in Seq(Messages)
  BY <1>1 DEF MInv, Worded
<1>4. GameOver(1) \in Messages /\ GameOver(1).msgt # "SPAWN"
  BY DEF Messages, GameOver
<1>5. /\ sent' \in Seq(Messages)
      /\ \A i \in DOMAIN sent' : (i \in DOMAIN sent /\ sent'[i] = sent[i]) \/ sent'[i] = GameOver(1)
      /\ \A i \in DOMAIN sent : i \in DOMAIN sent' /\ sent'[i] = sent[i]
  BY <1>1, <1>3, <1>4
<1>6. Worded'
  BY <1>1, <1>2, <1>3, <1>5 DEF Worded
<1>7. Told'
  <2> DEFINE level == LevelOf(file)
  <2>1. /\ \A i \in DOMAIN sent : sent[i].msgt = "SPAWN" =>
             Index(sent[i]) < pos /\ sent[i].item \in Shown(level[Index(sent[i])])
        /\ \A c \in Cells : c < pos => \A item \in Shown(level[c]) : \E i \in DOMAIN sent :
             sent[i].msgt = "SPAWN" /\ Index(sent[i]) = c /\ sent[i].item = item
    BY <1>1 DEF MInv, Told
  <2> HIDE DEF level
  <2>2. \A i \in DOMAIN sent' : sent'[i].msgt = "SPAWN" =>
          Index(sent'[i]) < pos /\ sent'[i].item \in Shown(level[Index(sent'[i])])
    BY <1>4, <1>5, <2>1
  <2>3. \A c \in Cells : c < pos => \A item \in Shown(level[c]) : \E i \in DOMAIN sent' :
          sent'[i].msgt = "SPAWN" /\ Index(sent'[i]) = c /\ sent'[i].item = item
    BY <1>5, <2>1
  <2> QED  BY <1>1, <2>2, <2>3 DEF Told, level
<1>8. IdsUnique'
  BY <1>4, <1>5 DEF MInv, IdsUnique
<1> QED  BY <1>6, <1>7, <1>8 DEF MInv

LEMMA NextMInv == IInv /\ MInv /\ [Next]_vars => MInv'
<1> SUFFICES ASSUME IInv, MInv, [Next]_vars PROVE MInv'
  OBVIOUS
<1>1. CASE Call
  <2>1. sent' = << >> /\ pos' = 0 /\ pc' = "reading"
    BY <1>1 DEF Call
  <2>2. \A c \in Cells : ~(c < 0)
    BY DEF Cells
  <2> QED  BY <2>1, <2>2 DEF MInv, Worded, Told, IdsUnique
<1>2. CASE Read /\ (ReadLine \/ ReadOther)
  <2>1. sent' = sent /\ pos' = pos /\ file' = file /\ pc = "reading" /\ pc' = "reading"
    BY <1>2 DEF Read, ReadLine, ReadOther
  <2> QED  BY <2>1 DEF MInv, Worded, Told, IdsUnique
<1>3. CASE Rewind
  BY <1>3 DEF Rewind, MInv, Worded, Told, IdsUnique
<1>4. CASE UNCHANGED vars
  BY <1>4 DEF vars, MInv, Worded, Told, IdsUnique
<1> QED  BY <1>1, <1>2, <1>3, <1>4, ReadGlyphTells, EofTells DEF Next, Read

LEMMA InitMInv == Init => MInv
BY DEF Init, MInv, Worded, Told, IdsUnique

LEMMA AlwaysMInv == Spec => [](IInv /\ MInv)
BY AlwaysIInv, InitMInv, NextMInv, PTL DEF Spec

\* No two resources that load_map spawns have the same identifier, whatever they are: the
\* ranges of food, tiles and players in compute_id and pascman.h do not meet.
THEOREM IdentifiersAreUnique == Spec => []IdsUnique
<1>1. MInv => IdsUnique
  BY DEF MInv
<1> QED  BY <1>1, AlwaysMInv, PTL

\* What a client is shown of a cell is what the state says of it.
LEMMA ShownIsState ==
  ASSUME NEW level, IsLevel(level), NEW c \in Cells, NEW here \in Position,
         c = Position2Index(here)
  PROVE  Shown(level[c]) =
           (IF TileOf(level[c]) = "WALL" THEN {"WALL"} ELSE {"FLOOR"})
             \cup ({TileOf(level[c])} \cap Edible)
             \cup {PlayerItem[p] : p \in {q \in Player :
                                            Position2Index(Load(level).positions[q]) = c}}
<1>1. \A p \in Player : Load(level).positions[p] = Place(level, p)
  BY DEF Load, Place
<1>2. \A p \in Player : Position2Index(Place(level, p)) = c <=> level[c] = Mark[p]
  BY PlaceUnique
<1>3. {q \in Player : Position2Index(Load(level).positions[q]) = c}
        = {q \in Player : level[c] = Mark[q]}
  BY <1>1, <1>2
<1>4. {PlayerItem[p] : p \in {q \in Player : level[c] = Mark[q]}}
        = IF level[c] = "@" THEN {"PLAYER1"} ELSE IF level[c] = "!" THEN {"PLAYER2"} ELSE {}
  <2>1. Mark[1] = "@" /\ Mark[2] = "!" /\ PlayerItem[1] = "PLAYER1" /\ PlayerItem[2] = "PLAYER2"
    BY DEF Player, Mark, PlayerItem
  <2>2. CASE level[c] = "@"
    <3>1. {q \in Player : level[c] = Mark[q]} = {1}
      BY <2>1, <2>2 DEF Player
    <3> QED  BY <2>1, <2>2, <3>1
  <2>3. CASE level[c] = "!"
    <3>1. {q \in Player : level[c] = Mark[q]} = {2}
      BY <2>1, <2>3 DEF Player
    <3> QED  BY <2>1, <2>3, <3>1
  <2>4. CASE level[c] \notin {"@", "!"}
    <3>1. {q \in Player : level[c] = Mark[q]} = {}
      BY <2>1, <2>4 DEF Player
    <3> QED  BY <2>4, <3>1
  <2> QED  BY <2>2, <2>3, <2>4
<1>5. level[c] \in Glyph
  BY DEF IsLevel
<1> HIDE DEF PlayerItem
<1>6. Shown(level[c]) =
        (IF TileOf(level[c]) = "WALL" THEN {"WALL"} ELSE {"FLOOR"})
          \cup ({TileOf(level[c])} \cap Edible)
          \cup (IF level[c] = "@" THEN {"PLAYER1"} ELSE IF level[c] = "!" THEN {"PLAYER2"} ELSE {})
  BY <1>5 DEF Shown, TileOf, Edible, Glyph
<1> QED  BY <1>3, <1>4, <1>6

\* One message for each thing that is shown.
LEMMA OneEach ==
  ASSUME sent \in Seq(Messages), IdsUnique, NEW c
  PROVE  Cardinality(SpawnedAt(c)) = Cardinality(SpawnedItems(c))
<1> DEFINE S == SpawnedAt(c)
           T == SpawnedItems(c)
           f == [i \in S |-> sent[i].item]
<1>1. IsFiniteSet(S)
  <2>1. Len(sent) \in Nat /\ DOMAIN sent = 1 .. Len(sent)
    OBVIOUS
  <2>2. IsFiniteSet(DOMAIN sent)
    BY <2>1, FS_Interval
  <2>3. S \in SUBSET DOMAIN sent
    BY DEF SpawnedAt
  <2> QED  BY <2>2, <2>3, FS_Subset
<1>2. \A i \in S : i \in DOMAIN sent /\ sent[i] \in SpawnMsgs /\ Index(sent[i]) = c
  BY DEF SpawnedAt, Messages, GameOver, Index
<1>3. ASSUME NEW i \in S, NEW j \in S, sent[i].item = sent[j].item PROVE i = j
  <2>1. PICK m \in SpawnMsgs : m = sent[i]
    BY <1>2
  <2>2. PICK n \in SpawnMsgs : n = sent[j]
    BY <1>2
  <2>3. m.item = n.item /\ Index(m) = Index(n) /\ m.item \in Kind
    BY <1>2, <1>3, <2>1, <2>2, SpawnFields
  <2>4. m.id = n.id
    BY <2>3, IdOf DEF Kind, Tile
  <2>5. m.msgt = "SPAWN" /\ n.msgt = "SPAWN"
    BY SpawnFields
  <2> QED  BY <1>2, <2>1, <2>2, <2>4, <2>5 DEF IdsUnique
<1>4. f \in [S -> T]
  BY DEF SpawnedItems
<1>5. \A t \in T : \E i \in S : f[i] = t
  BY DEF SpawnedItems
<1>6. \A i, j \in S : f[i] = f[j] => i = j
  BY <1>3
<1> HIDE DEF S, T, f
<1>7. f \in Bijection(S, T)
  BY <1>4, <1>5, <1>6, Fun_IsBij
<1>8. ExistsBijection(S, T)
  BY <1>7 DEF ExistsBijection
<1>9. Cardinality(S) = Cardinality(T)
  BY <1>1, <1>8, FS_Bijection
<1> QED  BY <1>9 DEF S, T

\* Whatever the file, the messages of one load_map are a picture of the state it leaves.
THEOREM PictureIsComplete == Spec => []PictureComplete
<1>1. ASSUME IInv, MInv, pc = "rewind" PROVE PictureComplete
  <2> DEFINE level == LevelOf(file)
  <2>1. IsLevel(level) /\ state = Load(level) /\ pos = MAP_SIZE
    BY <1>1, FileTyped DEF IInv, TypeOK, Counters, Filled
  <2>2. \A c \in Cells : c < pos
    BY <2>1, SizeAssumption DEF Cells, MAP_SIZE
  <2>3. /\ sent \in Seq(Messages)
        /\ \A i \in DOMAIN sent : sent[i].msgt = "SPAWN" =>
             sent[i] \in SpawnMsgs /\ sent[i].item \in Shown(level[Index(sent[i])])
        /\ \A c \in Cells : \A item \in Shown(level[c]) : \E i \in DOMAIN sent :
             sent[i].msgt = "SPAWN" /\ Index(sent[i]) = c /\ sent[i].item = item
    <3>1. sent \in Seq(Messages)
      BY <1>1 DEF MInv, Worded
    <3>2. \A i \in DOMAIN sent : sent[i].msgt = "SPAWN" => sent[i] \in SpawnMsgs
      BY <3>1 DEF Messages, GameOver
    <3>3. /\ \A i \in DOMAIN sent : sent[i].msgt = "SPAWN" =>
               sent[i].item \in Shown(level[Index(sent[i])])
          /\ \A c \in Cells : c < pos => \A item \in Shown(level[c]) : \E i \in DOMAIN sent :
               sent[i].msgt = "SPAWN" /\ Index(sent[i]) = c /\ sent[i].item = item
      BY <1>1 DEF MInv, Told
    <3> HIDE DEF level
    <3> QED  BY <2>2, <3>1, <3>2, <3>3
  <2> HIDE DEF level
  <2>4. ASSUME NEW c \in Cells
        PROVE  /\ Cardinality(SpawnedAt(c)) = Cardinality(SpawnedItems(c))
               /\ SpawnedItems(c) =
                    (IF state.map[c] = "WALL" THEN {"WALL"} ELSE {"FLOOR"})
                      \cup ({state.map[c]} \cap Edible)
                      \cup {PlayerItem[p] : p \in {q \in Player :
                                                     Position2Index(state.positions[q]) = c}}
    <3>1. SpawnedItems(c) = Shown(level[c])
      BY <2>3 DEF SpawnedItems, SpawnedAt, Index
    <3>2. PICK here \in Position : c = Position2Index(here)
      <4>1. PICK item : item \in Shown(level[c])
        BY <2>1 DEF IsLevel, Shown, Glyph
      <4>2. PICK i \in DOMAIN sent : sent[i] \in SpawnMsgs /\ Index(sent[i]) = c
        BY <2>3, <4>1
      <4> QED  BY <4>2, SpawnFields DEF Index
    <3>3. state.map[c] = TileOf(level[c])
      BY <2>1 DEF Load
    <3>4. state.positions = Load(level).positions
      BY <2>1
    <3>5. Cardinality(SpawnedAt(c)) = Cardinality(SpawnedItems(c))
      BY <1>1, <2>3, OneEach DEF MInv
    <3>6. Shown(level[c]) =
            (IF state.map[c] = "WALL" THEN {"WALL"} ELSE {"FLOOR"})
              \cup ({state.map[c]} \cap Edible)
              \cup {PlayerItem[p] : p \in {q \in Player :
                                             Position2Index(state.positions[q]) = c}}
      <4> HIDE DEF PlayerItem
      <4> QED  BY <2>1, <3>2, <3>3, <3>4, ShownIsState
    <3> QED  BY <3>1, <3>5, <3>6
  <2>5. /\ \A i \in DOMAIN sent : sent[i].msgt = "GAME_OVER" =>
             i = Len(sent) /\ sent[i].winner = 1
        /\ (\E i \in DOMAIN sent : sent[i].msgt = "GAME_OVER") <=> state.food_count = 0
    <3>1. \A m \in SpawnMsgs : m.msgt # "GAME_OVER"
      BY SpawnFields
    <3>2. CASE state.food_count = 0
      <4>1. PICK s \in Seq(SpawnMsgs) : sent = Append(s, GameOver(1))
        BY <1>1, <3>2 DEF MInv, Worded
      <4>2. /\ Len(sent) = Len(s) + 1 /\ Len(s) \in Nat /\ DOMAIN sent = 1 .. Len(sent)
            /\ sent[Len(sent)] = GameOver(1)
            /\ \A i \in 1 .. Len(s) : sent[i] = s[i] /\ s[i] \in SpawnMsgs
        BY <4>1
      <4>3. \A i \in DOMAIN sent : i = Len(sent) \/ i \in 1 .. Len(s)
        BY <4>2
      <4>4. Len(sent) \in DOMAIN sent
        BY <4>2
      <4>5. GameOver(1).msgt = "GAME_OVER" /\ GameOver(1).winner = 1
        BY DEF GameOver
      <4> QED  BY <3>1, <3>2, <4>2, <4>3, <4>4, <4>5
    <3>3. CASE state.food_count # 0
      <4>1. sent \in Seq(SpawnMsgs)
        BY <1>1, <3>3 DEF MInv, Worded
      <4>2. \A i \in DOMAIN sent : sent[i] \in SpawnMsgs
        BY <4>1
      <4> QED  BY <3>1, <3>3, <4>2
    <3> QED  BY <3>2, <3>3
  <2> QED  BY <2>4, <2>5 DEF PictureComplete
<1>2. IInv /\ MInv => PictureComplete
  BY <1>1 DEF PictureComplete
<1> QED  BY <1>2, AlwaysMInv, PTL

=============================================================================
