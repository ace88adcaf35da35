---------------------------- MODULE PackageStaging ----------------------------
(***************************************************************************)
(* release prepare-package: a validated FFmpeg bundle and the icons are    *)
(* put together in a temporary directory, which then takes the place of    *)
(* the current package by two renames.  A step may fail, and the process   *)
(* may be killed between any two; the command is then run again over what  *)
(* is left.  A temporary directory that outlives its process has a name    *)
(* of its own and is never looked at again.                                *)
(***************************************************************************)
EXTENDS Naturals

CONSTANT Bundles \* bundles that pass validate_layout and carry the target's marker

VARIABLES
    stage,     \* where prepare_package is, idle between two commands
    bundle,    \* the bundle of the command
    temp,      \* the generation under the temporary directory
    current,   \* <output root>/current
    previous,  \* <output root>/previous-generation
    answer,    \* of the last command: none (killed), pass or failed
    delivered, \* history: a command has passed
    faults     \* history: swaps that ended otherwise since, counted to two

stagingVars ==
    <<stage, bundle, temp, current, previous, answer, delivered, faults>>

Parts == {"ffmpeg-stage", "icons"}

Directories == [of : Bundles, parts : SUBSET Parts]

Absent == [parts |-> {}]

Exists(directory) == directory # Absent

Whole(directory) == directory.parts = Parts

Swapping == {"clear", "aside", "install", "back", "discard"}

StagingTypeOK ==
    /\ stage \in {"idle", "copy", "icons"} \union Swapping
    /\ bundle \in Bundles
    /\ {temp, current, previous} \subseteq Directories \union {Absent}
    /\ answer \in {"none", "pass", "failed"}
    /\ delivered \in BOOLEAN
    /\ faults \in 0..2

StagingInit ==
    /\ stage = "idle" /\ bundle \in Bundles
    /\ temp = Absent /\ current = Absent /\ previous = Absent
    /\ answer = "none" /\ delivered = FALSE /\ faults = 0

-----------------------------------------------------------------------------
(* The command is over, without a PASS. *)
Over(said) ==
    /\ stage' = "idle" /\ answer' = said /\ temp' = Absent
    /\ faults' = IF stage \in Swapping /\ faults < 2 THEN faults + 1 ELSE faults
    /\ UNCHANGED <<bundle, delivered>>

Step(next) == stage' = next /\ UNCHANGED <<bundle, answer, delivered, faults>>

(* A bundle that does not validate leaves no trace. *)
Refuse ==
    /\ stage = "idle"
    /\ answer' = "failed"
    /\ UNCHANGED <<stage, bundle, temp, current, previous, delivered, faults>>

BeginStaging ==
    /\ stage = "idle"
    /\ stage' = "copy" /\ bundle' \in Bundles /\ answer' = "none"
    /\ temp' = [of |-> bundle', parts |-> {}]
    /\ UNCHANGED <<current, previous, delivered, faults>>

CopyTree ==
    /\ stage = "copy"
    /\ temp' = [temp EXCEPT !.parts = @ \union {"ffmpeg-stage"}]
    /\ Step("icons")
    /\ UNCHANGED <<current, previous>>

GenerateIcons ==
    /\ stage = "icons"
    /\ temp' = [temp EXCEPT !.parts = @ \union {"icons"}]
    /\ Step("clear")
    /\ UNCHANGED <<current, previous>>

PreparationFails ==
    /\ stage \in {"copy", "icons"}
    /\ Over("failed")
    /\ UNCHANGED <<current, previous>>

(* remove_dir_all may stop half-way. *)
PartlyRemoved(directory, directory2) ==
    \E left \in SUBSET directory.parts :
        directory2 = [directory EXCEPT !.parts = left]

RemovePrevious ==
    /\ stage = "clear"
    /\ previous' = Absent
    /\ Step("aside")
    /\ UNCHANGED <<temp, current>>

RemovePreviousFails ==
    /\ stage = "clear" /\ Exists(previous)
    /\ PartlyRemoved(previous, previous')
    /\ Over("failed")
    /\ UNCHANGED current

(* Variant: the package in the way is removed. *)
SetAsideByRemoving ==
    /\ stage = "aside"
    /\ current' = Absent
    /\ Step("install")
    /\ UNCHANGED <<temp, previous>>

SetAside ==
    /\ stage = "aside"
    /\ IF Exists(current)
       THEN previous' = current /\ current' = Absent
       ELSE UNCHANGED <<current, previous>>
    /\ Step("install")
    /\ UNCHANGED temp

SetAsideFails ==
    /\ stage = "aside" /\ Exists(current)
    /\ Over("failed")
    /\ UNCHANGED <<current, previous>>

Install ==
    /\ stage = "install"
    /\ current' = temp /\ temp' = Absent
    /\ Step("discard")
    /\ UNCHANGED previous

InstallFails ==
    /\ stage = "install"
    /\ IF Exists(previous) THEN Step("back") /\ UNCHANGED temp ELSE Over("failed")
    /\ UNCHANGED <<current, previous>>

(* The rename back may fail as well. *)
PutBack ==
    /\ stage = "back"
    /\ \/ current' = previous /\ previous' = Absent
       \/ UNCHANGED <<current, previous>>
    /\ Over("failed")

Discard ==
    /\ stage = "discard"
    /\ previous' = Absent
    /\ stage' = "idle" /\ answer' = "pass"
    /\ delivered' = TRUE /\ faults' = 0
    /\ UNCHANGED <<bundle, temp, current>>

DiscardFails ==
    /\ stage = "discard" /\ Exists(previous)
    /\ PartlyRemoved(previous, previous')
    /\ Over("failed")
    /\ UNCHANGED current

(* Killed, or the machine goes down.  In the middle of a removal this      *)
(* leaves what a removal that fails leaves.                                *)
Killed ==
    /\ stage # "idle"
    /\ Over("none")
    /\ UNCHANGED <<current, previous>>

StagingNext ==
    \/ Refuse \/ BeginStaging \/ CopyTree \/ GenerateIcons \/ PreparationFails
    \/ RemovePrevious \/ RemovePreviousFails \/ SetAside \/ SetAsideFails
    \/ Install \/ InstallFails \/ PutBack \/ Discard \/ DiscardFails \/ Killed

StagingSpec == StagingInit /\ [][StagingNext]_stagingVars

-----------------------------------------------------------------------------
(* Properties *)

(* The packager never finds half a package under current, and after a PASS *)
(* it finds that of the bundle the command was given.                      *)
CurrentIsWhole ==
    /\ Exists(current) => Whole(current)
    /\ answer = "pass" => Whole(current) /\ current.of = bundle

(* A package once delivered outlives any one swap that goes wrong, however *)
(* often the command then fails before its swap: current, the generation   *)
(* before it, or the one just being installed is whole.  A second swap     *)
(* that goes wrong may lose the last one, because each begins by removing  *)
(* the generation before.                                                  *)
OnePackageIsLeft ==
    delivered /\ faults < 2 =>
        \/ Whole(current) \/ Whole(previous)
        \/ stage # "idle" /\ Whole(temp)

(* What prepare_package promises to the packager that runs after it.       *)
PackageSurvives == CurrentIsWhole /\ OnePackageIsLeft
=============================================================================
