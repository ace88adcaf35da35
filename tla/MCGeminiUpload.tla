--------------------------- MODULE MCGeminiUpload ---------------------------
(* Small instances of GeminiUpload for TLC. *)
EXTENDS GeminiUpload, TLC

Symmetry == Permutations(Sessions)
=============================================================================
