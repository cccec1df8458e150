--------------------------- MODULE MCDescriptors ---------------------------
(***************************************************************************)
(* Every choice among the numbers that the server's calls come across.     *)
(* {0, 1, 2} is a start from a shell, {0, 1, 2, 7, 8} one from pas_labo.   *)
(***************************************************************************)
EXTENDS Descriptors

MCInherited == {{0, 1, 2} \cup S : S \in {T \in SUBSET (5 .. 10) : Cardinality(T \cap 5 .. 7) <= 1}}

=============================================================================
