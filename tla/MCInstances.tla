---------------------------- MODULE MCInstances ----------------------------
(***************************************************************************)
(* All starts on the port that the instructions of the repository use.     *)
(***************************************************************************)
EXTENDS Instances

OnePort == [s \in Start |-> 9090]

=============================================================================
