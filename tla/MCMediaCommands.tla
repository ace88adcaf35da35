--------------------------- MODULE MCMediaCommands ---------------------------
(* Instances of MediaCommands for TLC. *)
EXTENDS MediaCommands, TLC

HardwareSymmetry == Permutations(Hardware)
=============================================================================
