----------------------------- MODULE MCLoadMap -----------------------------
(***************************************************************************)
(* Every file with HEIGHT rows of WIDTH tiles, the two players and other   *)
(* tiles of Filling, with either line end and with or without a last one.  *)
(***************************************************************************)
EXTENDS LoadMap

CONSTANT Filling

MCLevels == {[c \in Cells |-> IF c = marks[1] THEN Mark[1]
                              ELSE IF c = marks[2] THEN Mark[2] ELSE rest[c]] :
               marks \in {ab \in Cells \X Cells : ab[1] # ab[2]},
               rest \in [Cells -> Filling]}

Row(level, j) == [i \in 1 .. WIDTH |-> level[j * WIDTH + i - 1]]

\* Two rows; the files of the repository have HEIGHT of them.
FileOf(level, end, last) == Row(level, 0) \o end \o Row(level, 1) \o last

MCFiles == {FileOf(level, end, last) : level \in MCLevels,
              end \in {<<"LF">>, <<"CR", "LF">>}, last \in {<< >>, <<"LF">>}}

=============================================================================
