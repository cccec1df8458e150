------------------------------ MODULE MCServer ------------------------------
(***************************************************************************)
(* The server on a map of one row: the players side by side, so that they  *)
(* can collide at once, and food that either of them can eat before.       *)
(***************************************************************************)
EXTENDS Server

Row == [c \in Cells |-> CASE c = WIDTH - 3 -> "@"
                          [] c = WIDTH - 2 -> "!"
                          [] OTHER         -> "."]

=============================================================================
