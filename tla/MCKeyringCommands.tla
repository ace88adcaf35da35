-------------------------- MODULE MCKeyringCommands --------------------------
(* Small instances of KeyringCommands for TLC. *)
EXTENDS KeyringCommands, TLC

(* The processes differ in nothing but their names. *)
Symmetry == Permutations(Processes)
=============================================================================
