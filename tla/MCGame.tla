------------------------------- MODULE MCGame -------------------------------
(***************************************************************************)
(* The levels of the size of the configuration with one player 1 and one   *)
(* player 2, the other cells being any of the glyphs in Filling.  The      *)
(* mirror images of a level play alike: player 1 starts in StartCells.     *)
(***************************************************************************)
EXTENDS Game

CONSTANTS Filling,           \* glyphs of the cells without a player
          StartCells,        \* cells of player 1
          MaxPrizes          \* cells with something to eat

MCLevels ==
  {[c \in Cells |-> IF c = marks[1] THEN Mark[1]
                    ELSE IF c = marks[2] THEN Mark[2] ELSE rest[c]] :
     marks \in {ab \in StartCells \X Cells : ab[1] # ab[2]},
     rest \in {f \in [Cells -> Filling] :
                 Cardinality({c \in Cells : f[c] \in {".", "*"}}) <= MaxPrizes}}

=============================================================================
