------------------------------- MODULE MCLabo -------------------------------
(***************************************************************************)
(* Two files of different lengths, with keys that can be told apart.       *)
(***************************************************************************)
EXTENDS Labo

TwoFiles == <<<<"<", "^", ">">>, <<"v", "^">>>>

=============================================================================
