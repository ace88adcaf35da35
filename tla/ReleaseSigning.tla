---------------------------- MODULE ReleaseSigning ----------------------------
(***************************************************************************)
(* The release commands in the order of the sign-and-verify job: manifest, *)
(* verify-manifest, verify-tamper-rejection, prove-update for each target  *)
(* and the publication of what they left.  A command that fails ends the   *)
(* job, which may also be stopped anywhere, and is then run again over the *)
(* files that are left.  Between two jobs packages are delivered or        *)
(* spoiled, and prove-update may be run by itself; nothing else happens    *)
(* during one.                                                             *)
(*                                                                         *)
(* A payload is the build it comes from, which is what its digest and      *)
(* length tell, and a signature is the build it was made for.              *)
(***************************************************************************)
EXTENDS Naturals

CONSTANTS
    Targets,       \* the three supported targets
    WithInstaller, \* those with a .dmg or .deb beside the updater payload
    Builds,        \* builds of the package jobs
    NoFile,          \* no file
    MaxChanges     \* bound on changes to the packages directory

VARIABLES
    packages,    \* payloads and sidecars of the packages directory
    strange,     \* it has a directory or a file of no known name
    docs,        \* latest.json and downloads.json
    tmps,        \* latest.tmp and downloads.tmp that exist
    job,         \* where the job is, idle between two of them
    doc,         \* the document generate_manifest is about to write
    unproved,    \* targets for which prove-update has still to run
    updateProof, \* the DistributionUpdate proof of each target
    changes      \* changes so far

signingVars ==
    <<packages, strange, docs, tmps, job, doc, unproved, updateProof, changes>>

Updaters == Targets \X {"updater"}
Installers == WithInstaller \X {"installer"}
Artifacts == Updaters \union Installers

(* native_artifact_specs *)
Native(target) == {artifact \in Artifacts : artifact[1] = target}

Payloads == [build : Builds, sidecar : Builds \union {NoFile}]

(* latest.json lists the updaters, downloads.json the installers.          *)
Docs == {"latest", "downloads"}

Listing(name, files) ==
    [artifact \in {a \in IF name = "latest" THEN Updaters ELSE Installers :
                     files[a] # NoFile} |-> files[artifact]]

UpdateProofs(target) ==
    [manifest : [Updaters -> Payloads], artifacts : [Native(target) -> Builds]]

SigningTypeOK ==
    /\ packages \in [Artifacts -> Payloads \union {NoFile}]
    /\ strange \in BOOLEAN
    /\ docs["latest"] \in [Updaters -> Payloads] \union {NoFile}
    /\ docs["downloads"] = NoFile \/ DOMAIN docs["downloads"] \subseteq Installers
    /\ tmps \subseteq Docs
    /\ job \in {"idle", "scan", "write", "rename", "verify", "tamper", "prove",
                "publish"}
    /\ doc \in Docs
    /\ unproved \subseteq Targets
    /\ \A t \in Targets : updateProof[t] \in UpdateProofs(t) \union {NoFile}
    /\ changes \in 0..MaxChanges

Signed(build) == [build |-> build, sidecar |-> build]

SigningInit ==
    /\ \E build \in Builds : packages = [artifact \in Artifacts |-> Signed(build)]
    /\ strange = FALSE
    /\ docs = [name \in Docs |-> NoFile] /\ tmps = {}
    /\ job = "idle" /\ doc = "latest" /\ unproved = Targets
    /\ updateProof = [target \in Targets |-> NoFile]
    /\ changes = 0

-----------------------------------------------------------------------------
(* Between two jobs. *)

Changing ==
    /\ job = "idle" /\ changes < MaxChanges /\ changes' = changes + 1
    /\ UNCHANGED <<docs, tmps, job, doc, unproved, updateProof>>

(* The packages of one target come from one package job.                   *)
Deliver ==
    /\ Changing
    /\ \E target \in Targets, build \in Builds :
         packages' = [artifact \in Artifacts |->
             IF artifact[1] = target THEN Signed(build) ELSE packages[artifact]]
    /\ UNCHANGED strange

(* A payload is missing, or its sidecar is, or is that of another build.   *)
Spoil ==
    /\ Changing
    /\ \E artifact \in Artifacts :
         /\ packages[artifact] # NoFile
         /\ \/ packages' = [packages EXCEPT ![artifact] = NoFile]
            \/ \E other \in Builds \union {NoFile} :
                 packages' = [packages EXCEPT ![artifact].sidecar = other]
    /\ UNCHANGED strange

Litter == Changing /\ strange' = ~strange /\ UNCHANGED packages

-----------------------------------------------------------------------------
(* generate_manifest *)

StartJob ==
    /\ job = "idle"
    /\ job' = "scan" /\ unproved' = Targets
    /\ UNCHANGED <<packages, strange, docs, tmps, doc, updateProof, changes>>

(* A command fails, or the job is cancelled or killed.                     *)
JobEnds ==
    /\ job # "idle"
    /\ job' = "idle"
    /\ UNCHANGED <<packages, strange, docs, tmps, doc, unproved, updateProof,
                   changes>>

(* Every file must be known and have a sidecar, which is not verified yet; *)
(* no supported target may be missing.                                     *)
Scan ==
    /\ job = "scan"
    /\ ~strange
    /\ \A artifact \in Artifacts :
         packages[artifact] # NoFile => packages[artifact].sidecar # NoFile
    /\ \A artifact \in Updaters : packages[artifact] # NoFile
    /\ job' = "write" /\ doc' = "latest"
    /\ UNCHANGED <<packages, strange, docs, tmps, unproved, updateProof, changes>>

(* Variant: an older temporary file is taken for a document in place.      *)
WriteTemporaryOnce ==
    /\ job = "write"
    /\ IF doc \in tmps
       THEN /\ job' = IF doc = "latest" THEN "write" ELSE "verify"
            /\ doc' = "downloads" /\ UNCHANGED tmps
       ELSE job' = "rename" /\ tmps' = tmps \union {doc} /\ UNCHANGED doc
    /\ UNCHANGED <<packages, strange, docs, unproved, updateProof, changes>>

(* create_new: the temporary file of a job that was stopped is never       *)
(* overwritten.                                                            *)
WriteTemporary ==
    /\ job = "write"
    /\ doc \notin tmps
    /\ tmps' = tmps \union {doc}
    /\ job' = "rename"
    /\ UNCHANGED <<packages, strange, docs, doc, unproved, updateProof, changes>>

RenameTemporary ==
    /\ job = "rename"
    /\ docs' = [docs EXCEPT ![doc] = Listing(doc, packages)]
    /\ tmps' = tmps \ {doc}
    /\ job' = IF doc = "latest" THEN "write" ELSE "verify"
    /\ doc' = "downloads"
    /\ UNCHANGED <<packages, strange, unproved, updateProof, changes>>

-----------------------------------------------------------------------------
(* verify_manifest and verify_tamper_rejection *)

(* Variant: a valid signature is enough. *)
VerifiesSigned(files) ==
    \A name \in Docs :
        /\ docs[name] # NoFile
        /\ \A artifact \in DOMAIN docs[name] :
             /\ files[artifact] # NoFile
             /\ files[artifact].sidecar = files[artifact].build

(* Each listed file is there, with the signature listed, the digest        *)
(* listed, and a signature that is valid for it.                           *)
Verifies(files) ==
    \A name \in Docs :
        /\ docs[name] # NoFile
        /\ \A artifact \in DOMAIN docs[name] :
             /\ files[artifact] = docs[name][artifact]
             /\ files[artifact].sidecar = files[artifact].build

Corrupted(artifact) == [packages EXCEPT ![artifact].build = NoFile]

RejectsTampering ==
    /\ Verifies(packages)
    /\ ~strange
    /\ \A name \in Docs :
         \E first \in DOMAIN docs[name] : ~Verifies(Corrupted(first))

Verify ==
    /\ job = "verify"
    /\ Verifies(packages)
    /\ job' = "tamper"
    /\ UNCHANGED <<packages, strange, docs, tmps, doc, unproved, updateProof,
                   changes>>

Tamper ==
    /\ job = "tamper"
    /\ RejectsTampering
    /\ job' = "prove"
    /\ UNCHANGED <<packages, strange, docs, tmps, doc, unproved, updateProof,
                   changes>>

(* prove_update verifies again and then takes the digests of the target's  *)
(* own files, each with a signature of its own.                            *)
Proves(target) ==
    /\ RejectsTampering
    /\ \A artifact \in Native(target) :
         /\ packages[artifact] # NoFile
         /\ packages[artifact].sidecar = packages[artifact].build
    /\ updateProof' = [updateProof EXCEPT ![target] =
           [manifest |-> docs["latest"],
            artifacts |-> [artifact \in Native(target) |->
                             packages[artifact].build]]]

ProveUpdate ==
    /\ job = "prove"
    /\ \E target \in unproved :
         /\ Proves(target)
         /\ unproved' = unproved \ {target}
         /\ job' = IF unproved = {target} THEN "publish" ELSE "prove"
    /\ UNCHANGED <<packages, strange, docs, tmps, doc, changes>>

(* The command by itself, over whatever packages and documents are there.  *)
ProveAlone ==
    /\ job = "idle"
    /\ \E target \in Targets : Proves(target)
    /\ UNCHANGED <<packages, strange, docs, tmps, job, doc, unproved, changes>>

SigningNext ==
    \/ Deliver \/ Spoil \/ Litter
    \/ StartJob \/ JobEnds \/ Scan \/ WriteTemporary \/ RenameTemporary
    \/ Verify \/ Tamper \/ ProveUpdate \/ ProveAlone

SigningSpec == SigningInit /\ [][SigningNext]_signingVars

-----------------------------------------------------------------------------
(* Properties *)

(* Whatever earlier jobs left, a job that gets as far as publishing        *)
(* publishes exactly the payloads its two documents list, each signed, and *)
(* update proofs of these documents and of no earlier ones.                *)
PublishedIsWhole ==
    job = "publish" =>
        /\ \A artifact \in Artifacts :
             /\ packages[artifact] # NoFile
             /\ packages[artifact].sidecar = packages[artifact].build
        /\ \A name \in Docs : docs[name] = Listing(name, packages)
        /\ \A target \in Targets :
             updateProof[target] =
                 [manifest |-> docs["latest"],
                  artifacts |-> [artifact \in Native(target) |->
                                   packages[artifact].build]]

(* validate_distribution_relationships compares the artifacts of a package *)
(* job's proof, all of one build, with those of an update proof.  The gate *)
(* never sees the manifest behind an update proof, only its digest; a row  *)
(* it accepts is one whose manifest offers the build that was packaged,    *)
(* whichever proofs of whichever jobs were collected.                      *)
AcceptedRowIsOneBuild ==
    \A target \in Targets, build \in Builds :
        /\ updateProof[target] # NoFile
        /\ updateProof[target].artifacts = [artifact \in Native(target) |-> build]
        => updateProof[target].manifest[<<target, "updater">>].build = build
=============================================================================
