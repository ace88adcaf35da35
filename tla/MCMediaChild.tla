---------------------------- MODULE MCMediaChild ----------------------------
(* Instances of MediaChild for TLC. *)
EXTENDS MediaChild
=============================================================================
