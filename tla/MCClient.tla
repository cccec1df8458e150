------------------------------ MODULE MCClient ------------------------------
(***************************************************************************)
(* Two levels on which going left is enough to eat, to meet the other      *)
(* player, to be stopped by a wall and to end the game either way.         *)
(***************************************************************************)
EXTENDS Client

TwoLevels == {<<"*", "@", ".", "!">>, <<"#", "!", "@", ".">>}

MCLevels == {[c \in Cells |-> lv[c + 1]] : lv \in TwoLevels}

=============================================================================
