------------------------------ MODULE LoadMap ------------------------------
(***************************************************************************)
(* load_map character by character, over a file descriptor that the server *)
(* opens once and rewinds after every call, on a state that the previous   *)
(* call has filled.  GameRules!Load, which Game takes for a whole load_map,  *)
(* is what the loop is checked against.                                    *)
(*                                                                         *)
(* A definition whose name adds a word to that of the one it precedes      *)
(* (CallUnreset, Call) is a bug one could write in its place; the spec     *)
(* never uses it.                                                          *)
(***************************************************************************)
EXTENDS GameRules

CONSTANTS Files,             \* the map files, as sequences of characters
          MaxLoads           \* bound: calls of load_map

Chars == Glyph \cup {"LF", "CR"}                    \* CR stands for any other one

\* How many of the first n characters of f are in S.
Count(f, n, S) == Cardinality({i \in 1 .. n : f[i] \in S})

\* HEIGHT rows of WIDTH tiles: a line ends where a row is full and a tile stands where it
\* is not.  The last line may be without an end, as in most maps of the repository.
IsMapFile(f) ==
  /\ f \in Seq(Chars) /\ Count(f, Len(f), Glyph) = MAP_SIZE
  /\ \A i \in DOMAIN f :
       LET full == (Count(f, i - 1, {"LF"}) + 1) * WIDTH IN
       /\ f[i] = "LF" => Count(f, i - 1, Glyph) = full
       /\ f[i] \in Glyph => Count(f, i - 1, Glyph) < full

\* The level of a file: its tiles, in the order of the file.
LevelOf(f) ==
  [c \in Cells |-> f[CHOOSE i \in DOMAIN f : f[i] \in Glyph /\ Count(f, i - 1, Glyph) = c]]

ASSUME FilesAssumption ==
  MaxLoads \in Nat /\ \A f \in Files : IsMapFile(f) /\ IsLevel(LevelOf(f))

VARIABLES file,              \* the map file
          at,                \* the offset of the descriptor map
          pc,                \* idle, reading, or rewind: between load_map and lseek
          loads,             \* calls so far
          pos, x, y,         \* the local variables of load_map
          state,             \* struct GameState
          sent               \* what this call has written on fdbcast

vars == <<file, at, pc, loads, pos, x, y, state, sent>>

Init == /\ file \in Files
        /\ at = 0 /\ pc = "idle" /\ loads = 0
        /\ pos = 0 /\ x = 0 /\ y = 0
        /\ state = [ResetState EXCEPT !.game_over = FALSE]
        /\ sent = << >>

CallUnreset == /\ pc = "idle" /\ loads < MaxLoads
               /\ pc' = "reading" /\ loads' = loads + 1
               /\ pos' = 0 /\ x' = 0 /\ y' = 0
               /\ sent' = << >>
               /\ UNCHANGED <<file, at, state>>

Call == /\ pc = "idle" /\ loads < MaxLoads
        /\ pc' = "reading" /\ loads' = loads + 1
        /\ state' = ResetState
        /\ pos' = 0 /\ x' = 0 /\ y' = 0
        /\ sent' = << >>
        /\ UNCHANGED <<file, at>>

ReadGlyph == LET g == file[at + 1] IN
             /\ g \in Glyph
             /\ sent' = sent \o Spawns(g, x, y)
             /\ state' = PutGlyph(state, pos, x, y, g)
             /\ x' = x + 1 /\ pos' = pos + 1
             /\ UNCHANGED y

ReadLineOnly == /\ file[at + 1] = "LF"
                /\ y' = y + 1
                /\ UNCHANGED <<x, pos, state, sent>>

ReadLine == /\ file[at + 1] = "LF"
            /\ y' = y + 1 /\ x' = 0
            /\ UNCHANGED <<pos, state, sent>>

ReadOther == /\ file[at + 1] \notin Glyph \cup {"LF"}
             /\ UNCHANGED <<x, y, pos, state, sent>>

Read == /\ pc = "reading" /\ at < Len(file)
        /\ ReadGlyph \/ ReadLine \/ ReadOther
        /\ at' = at + 1
        /\ UNCHANGED <<file, pc, loads>>

\* End of file: the game is on, unless the map has no food.
Eof == /\ pc = "reading" /\ at = Len(file)
       /\ state' = [state EXCEPT !.game_over = (state.food_count = 0)]
       /\ sent' = IF state.food_count = 0 THEN Append(sent, GameOver(1)) ELSE sent
       /\ pc' = "rewind"
       /\ UNCHANGED <<file, at, loads, pos, x, y>>

\* lseek in handle_new_players.
RewindNot == /\ pc = "rewind"
             /\ pc' = "idle"
             /\ UNCHANGED <<file, at, loads, pos, x, y, state, sent>>

Rewind == /\ pc = "rewind"
          /\ at' = 0 /\ pc' = "idle"
          /\ UNCHANGED <<file, loads, pos, x, y, state, sent>>

Next == Call \/ Read \/ Eof \/ Rewind

Spec == Init /\ [][Next]_vars

-----------------------------------------------------------------------------

\* Every variable holds a value of its type; pos stays inside map[] while it is used.
TypeOK == /\ file \in Files /\ at \in 0 .. Len(file)
          /\ pc \in {"idle", "reading", "rewind"} /\ loads \in 0 .. MaxLoads
          /\ pos \in 0 .. MAP_SIZE
          /\ x \in 0 .. WIDTH /\ y \in 0 .. HEIGHT
          /\ state \in GameState

\* Each load_map leaves the state that the file describes, whichever call it is and
\* whatever was in the state before.
LoadedAsWritten == pc = "rewind" => state = Load(LevelOf(file))

SpawnedAt(c) == {i \in DOMAIN sent : sent[i].msgt = "SPAWN" /\ Position2Index(sent[i].pos) = c}
SpawnedItems(c) == {sent[i].item : i \in SpawnedAt(c)}
PlayerItem == <<"PLAYER1", "PLAYER2">>

\* Every client can draw the map from the messages: each cell is sent as one wall, or
\* as one floor with whatever is on it, and the last word is GAME_OVER if and only if
\* there is nothing to eat.
PictureComplete ==
  pc = "rewind" =>
    /\ \A c \in Cells :
         /\ Cardinality(SpawnedAt(c)) = Cardinality(SpawnedItems(c))
         /\ SpawnedItems(c) =
              (IF state.map[c] = "WALL" THEN {"WALL"} ELSE {"FLOOR"})
                \cup ({state.map[c]} \cap Edible)
                \cup {PlayerItem[p] : p \in {q \in Player :
                                               Position2Index(state.positions[q]) = c}}
    /\ \A i \in DOMAIN sent : sent[i].msgt = "GAME_OVER" =>
         i = Len(sent) /\ sent[i].winner = 1
    /\ (\E i \in DOMAIN sent : sent[i].msgt = "GAME_OVER") <=> state.food_count = 0

\* The identifiers of the resources of a map are all different, across the ranges of
\* tiles, food and players.
IdsUnique ==
  \A i, j \in DOMAIN sent :
    sent[i].msgt = "SPAWN" /\ sent[j].msgt = "SPAWN" /\ sent[i].id = sent[j].id => i = j

=============================================================================
