--------------------------- MODULE AcceptanceRules ---------------------------
(***************************************************************************)
(* PhaseZeroMatrix::evaluate_proofs: what makes a sequence of typed proofs *)
(* acceptable for a matrix of required rows.                               *)
(*                                                                         *)
(* A proof names its row, its component, whether it meets the thresholds   *)
(* that validate_typed_proof sets for that component and row (`sound'),    *)
(* and the values that one proof must share with another.                  *)
(***************************************************************************)
EXTENDS Naturals, Sequences

SpikeIds == {"preview", "media", "gemini", "platform", "distribution"}

RequiredComponents(row) ==
    CASE row.spike = "preview" -> {"preview"}
      [] row.spike = "media" /\ row.backend = "cpu-fallback" -> {"media_cpu"}
      [] row.spike = "media" /\ row.backend # "cpu-fallback" ->
            {"media_hardware", "media_forced_fallback"}
      [] row.spike = "gemini" -> {"gemini_stage", "gemini_resume"}
      [] row.spike = "platform" ->
            {"platform_keyring", "platform_tray", "platform_no_tray",
             "platform_process", "platform_checkpoint"}
      [] row.spike = "distribution" ->
            {"distribution_ffmpeg", "distribution_package",
             "distribution_update"}

(* The canonical matrix asks a target for one upload and one release.      *)
MatrixIsCanonical(matrix) ==
    /\ \A row \in matrix : row.spike \in SpikeIds
    /\ \A m, n \in matrix :
         /\ m.spike = n.spike /\ m.spike \in {"gemini", "distribution"}
         /\ m.target = n.target
         => m = n

Key(proof) == <<proof.row, proof.component>>

(* The proof that `find' returns: the first of its component and target,   *)
(* whatever its row.                                                       *)
IsFirst(proofs, i, component, target) ==
    LET Matches(k) == /\ proofs[k].component = component
                      /\ proofs[k].row.target = target
    IN  i \in DOMAIN proofs /\ Matches(i) /\ \A k \in 1 .. i - 1 : ~Matches(k)

(* What a stage and its resume, and the three proofs of a release, share.  *)
SameSession(stage, resume) ==
    stage.checkpoint = resume.checkpoint /\ resume.offset >= stage.offset

SameRelease(ffmpeg, package, update) ==
    ffmpeg.lock = package.lock /\ package.artifacts = update.artifacts

GeminiRelationships(matrix, proofs) ==
    \A row \in matrix : row.spike = "gemini" =>
        \A s, r \in DOMAIN proofs :
            /\ IsFirst(proofs, s, "gemini_stage", row.target)
            /\ IsFirst(proofs, r, "gemini_resume", row.target)
            => SameSession(proofs[s], proofs[r])

DistributionRelationships(matrix, proofs) ==
    \A row \in matrix : row.spike = "distribution" =>
        \A f, p, u \in DOMAIN proofs :
            /\ IsFirst(proofs, f, "distribution_ffmpeg", row.target)
            /\ IsFirst(proofs, p, "distribution_package", row.target)
            /\ IsFirst(proofs, u, "distribution_update", row.target)
            => SameRelease(proofs[f], proofs[p], proofs[u])

(* validate_typed_proof, whose thresholds are abstracted to their outcome   *)
(* (PreviewRun, GeminiUpload and MediaCommands look into those of their    *)
(* own proofs).                                                            *)
MeetsThresholds(proof) == proof.sound

(* Variant: a repeated proof is let through. *)
EachAdmittedTwice(matrix, proofs) ==
    \A i \in DOMAIN proofs :
        proofs[i].row \in matrix /\ MeetsThresholds(proofs[i])

(* Every proof matches a row, none repeats another's, each is sound.       *)
EachAdmitted(matrix, proofs) ==
    \A i \in DOMAIN proofs :
        /\ proofs[i].row \in matrix
        /\ \A k \in 1 .. i - 1 : Key(proofs[k]) # Key(proofs[i])
        /\ MeetsThresholds(proofs[i])

NoneMissing(matrix, proofs) ==
    \A row \in matrix : \A component \in RequiredComponents(row) :
        \E i \in DOMAIN proofs : Key(proofs[i]) = <<row, component>>

EvaluateProofs(matrix, proofs) ==
    /\ EachAdmitted(matrix, proofs)
    /\ NoneMissing(matrix, proofs)
    /\ DistributionRelationships(matrix, proofs)
    /\ GeminiRelationships(matrix, proofs)

-----------------------------------------------------------------------------
(* The reference: exactly one proof per required row and component, and    *)
(* nothing else; each sound, and each row's own proofs agree.              *)

Holders(proofs, row, component) ==
    {i \in DOMAIN proofs : Key(proofs[i]) = <<row, component>>}

(* One sound proof for everything the matrix requires. *)
CoversMatrix(matrix, proofs) ==
    \A row \in matrix : \A component \in RequiredComponents(row) :
        \E i \in DOMAIN proofs :
            /\ Holders(proofs, row, component) = {i}
            /\ proofs[i].sound

(* Nothing else. *)
OnlyRequired(matrix, proofs) ==
    \A i \in DOMAIN proofs :
        /\ proofs[i].row \in matrix
        /\ proofs[i].component \in RequiredComponents(proofs[i].row)

OwnProofsAgree(matrix, proofs) ==
    /\ \A row \in matrix : row.spike = "gemini" =>
         \A s \in Holders(proofs, row, "gemini_stage"),
            r \in Holders(proofs, row, "gemini_resume") :
            SameSession(proofs[s], proofs[r])
    /\ \A row \in matrix : row.spike = "distribution" =>
         \A f \in Holders(proofs, row, "distribution_ffmpeg"),
            p \in Holders(proofs, row, "distribution_package"),
            u \in Holders(proofs, row, "distribution_update") :
            SameRelease(proofs[f], proofs[p], proofs[u])

Acceptable(matrix, proofs) ==
    /\ CoversMatrix(matrix, proofs)
    /\ OnlyRequired(matrix, proofs)
    /\ OwnProofsAgree(matrix, proofs)

(* No proof sits under a row that does not call for its component.         *)
NoneForeign(proofs) ==
    \A i \in DOMAIN proofs :
        proofs[i].component \in RequiredComponents(proofs[i].row)
=============================================================================
