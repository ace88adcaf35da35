------------------------ MODULE FileCommands_proofs ------------------------
(***************************************************************************)
(* What the release commands leave behind: prepare_package for every set   *)
(* of bundles and any number of commands that fail or are killed anywhere, *)
(* and the sign-and-verify job for any targets, builds, changes to the     *)
(* packages and number of jobs stopped anywhere.  And what drain_progress  *)
(* returns, for any output of FFmpeg, any cut of it into pieces and any    *)
(* limit.                                                                  *)
(***************************************************************************)
EXTENDS MCFileCommands, MediaCommands_proofs, FiniteSetTheorems, TLAPS

(* What a phase has in its hands: the temporary generation is whole once   *)
(* the icons are made; the generation before is gone when the current one  *)
(* is about to take its place, and whole when it has.                      *)
PhaseInv ==
    /\ stage \in {"copy", "icons"} \union (Swapping \ {"discard"}) =>
         temp \in Directories /\ temp.of = bundle
    /\ stage = "icons" => "ffmpeg-stage" \in temp.parts
    /\ stage \in Swapping \ {"discard"} => Whole(temp)
    /\ stage = "aside" => previous = Absent
    /\ stage \in {"install", "back"} =>
         current = Absent /\ (Exists(previous) => Whole(previous))
    /\ stage = "back" => Exists(previous)
    /\ stage = "discard" => Whole(current) /\ current.of = bundle
    /\ stage # "idle" => answer = "none"

(* Where the last package is, before a first swap has gone wrong and after.*)
DeliveredInv ==
    delivered =>
        /\ faults = 0 /\ stage \in {"install", "back"} => Whole(previous)
        /\ faults = 0 /\ stage \notin {"install", "back"} => Whole(current)
        /\ faults = 1 /\ stage \in {"idle", "copy", "icons"} =>
             Whole(current) \/ Whole(previous)

StagingInv == StagingTypeOK /\ PhaseInv /\ CurrentIsWhole /\ DeliveredInv

LEMMA InitStagingInv == StagingInit => StagingInv
<1> SUFFICES ASSUME StagingInit PROVE StagingInv
  OBVIOUS
<1> USE DEF StagingInit, Swapping
<1>1. StagingTypeOK
  <2>1. {temp, current, previous} \subseteq Directories \union {Absent}
    OBVIOUS
  <2>2. faults \in 0..2
    OBVIOUS
  <2> QED
    BY <2>1, <2>2 DEF StagingTypeOK
<1>2. PhaseInv
  BY DEF PhaseInv
<1>3. CurrentIsWhole
  BY DEF CurrentIsWhole, Exists
<1>4. DeliveredInv
  BY DEF DeliveredInv
<1> QED
  BY <1>1, <1>2, <1>3, <1>4 DEF StagingInv

(* A command that ends without a PASS leaves what its phase had in hand.   *)
LEMMA OverKeepsInv ==
  ASSUME StagingInv, stage # "idle", NEW said \in {"none", "failed"},
         Over(said), current' \in Directories \union {Absent},
         previous' \in Directories \union {Absent},
         \/ UNCHANGED <<current, previous>>
         \/ stage = "back" /\ current' = previous /\ previous' = Absent
         \/ stage \in {"clear", "discard"} /\ current' = current
  PROVE  StagingInv'
<1> USE DEF StagingInv, Over, Swapping
<1>1. StagingTypeOK'
  BY DEF StagingTypeOK
<1>2. PhaseInv'
  BY DEF PhaseInv
<1>3. CurrentIsWhole'
  BY DEF CurrentIsWhole, PhaseInv, StagingTypeOK
<1>4. DeliveredInv'
  BY DEF DeliveredInv, PhaseInv, StagingTypeOK
<1> QED
  BY <1>1, <1>2, <1>3, <1>4

(* The steps before the swap.                                              *)
LEMMA PreparationKeepsInv ==
  ASSUME StagingInv, Refuse \/ BeginStaging \/ CopyTree \/ GenerateIcons
  PROVE  StagingInv'
<1> USE DEF StagingInv, Step, Swapping, Parts, Directories, Whole, StagingTypeOK,
            PhaseInv, CurrentIsWhole, DeliveredInv
<1>1. CASE Refuse
  BY <1>1 DEF Refuse
<1>2. CASE BeginStaging
  BY <1>2 DEF BeginStaging
<1>3. CASE CopyTree
  BY <1>3 DEF CopyTree
<1>4. CASE GenerateIcons
  BY <1>4 DEF GenerateIcons
<1> QED
  BY <1>1, <1>2, <1>3, <1>4

(* The steps of the swap that go well.                                     *)
LEMMA SwapKeepsInv ==
  ASSUME StagingInv, RemovePrevious \/ SetAside \/ Install \/ Discard
  PROVE  StagingInv'
<1> USE DEF StagingInv, Step, Swapping, StagingTypeOK, PhaseInv, CurrentIsWhole,
            DeliveredInv
<1>1. CASE RemovePrevious
  BY <1>1 DEF RemovePrevious, Exists, Whole
<1>2. CASE SetAside
  BY <1>2 DEF SetAside, Exists
<1>3. CASE Install
  BY <1>3 DEF Install
<1>4. CASE Discard
  BY <1>4 DEF Discard
<1> QED
  BY <1>1, <1>2, <1>3, <1>4

LEMMA PartlyRemovedType ==
  ASSUME NEW directory \in Directories \union {Absent}, NEW directory2,
         Exists(directory), PartlyRemoved(directory, directory2)
  PROVE  directory2 \in Directories
  BY DEF PartlyRemoved, Exists, Directories

(* The steps that go wrong.                                                *)
LEMMA FailureKeepsInv ==
  ASSUME StagingInv,
         \/ PreparationFails \/ RemovePreviousFails \/ SetAsideFails
         \/ InstallFails \/ PutBack \/ DiscardFails \/ Killed
  PROVE  StagingInv'
<1>0. {current, previous} \subseteq Directories \union {Absent}
  BY DEF StagingInv, StagingTypeOK
<1>1. CASE PreparationFails
  BY <1>0, <1>1, OverKeepsInv DEF PreparationFails
<1>2. CASE RemovePreviousFails
  BY <1>0, <1>2, OverKeepsInv, PartlyRemovedType DEF RemovePreviousFails
<1>3. CASE SetAsideFails
  BY <1>0, <1>3, OverKeepsInv DEF SetAsideFails
<1>4. CASE InstallFails
  <2>1. CASE Exists(previous)
    BY <1>4, <2>1 DEF InstallFails, Step, Swapping, StagingInv, StagingTypeOK,
                      PhaseInv, CurrentIsWhole, DeliveredInv
  <2>2. CASE ~Exists(previous)
    BY <1>0, <1>4, <2>2, OverKeepsInv DEF InstallFails
  <2> QED
    BY <2>1, <2>2
<1>5. CASE PutBack
  BY <1>0, <1>5, OverKeepsInv DEF PutBack
<1>6. CASE DiscardFails
  BY <1>0, <1>6, OverKeepsInv, PartlyRemovedType DEF DiscardFails
<1>7. CASE Killed
  BY <1>0, <1>7, OverKeepsInv DEF Killed
<1> QED
  BY <1>1, <1>2, <1>3, <1>4, <1>5, <1>6, <1>7

(* The inductive invariant, with the types, of every behaviour.            *)
THEOREM StagingInvariant == StagingSpec => []StagingInv
<1>1. StagingInv /\ [StagingNext]_stagingVars => StagingInv'
  <2>1. CASE UNCHANGED stagingVars
    BY <2>1 DEF stagingVars, StagingInv, StagingTypeOK, PhaseInv, CurrentIsWhole,
                DeliveredInv
  <2> QED
    BY <2>1, PreparationKeepsInv, SwapKeepsInv, FailureKeepsInv DEF StagingNext
<1> QED
  BY <1>1, InitStagingInv, PTL DEF StagingSpec

(* The packager never finds half a package under current, finds the one it *)
(* was told of after a PASS, and still finds a whole one, there or beside  *)
(* it, after any one swap that went wrong.                                 *)
THEOREM PackageAlwaysSurvives == StagingSpec => []PackageSurvives
<1>1. StagingInv => PackageSurvives
  <2> SUFFICES ASSUME StagingInv PROVE PackageSurvives
    OBVIOUS
  <2>1. OnePackageIsLeft
    BY DEF OnePackageIsLeft, StagingInv, StagingTypeOK, PhaseInv, DeliveredInv,
           CurrentIsWhole, Swapping
  <2> QED
    BY <2>1 DEF PackageSurvives, StagingInv
<1> QED
  BY <1>1, StagingInvariant, PTL

-----------------------------------------------------------------------------
(* The release job *)

After == {"write", "rename", "verify", "tamper", "prove", "publish"}

(* Both documents are functions of their names, and the list of updaters,  *)
(* once there is one, is complete.                                         *)
DocumentInv ==
    /\ docs = [name \in Docs |-> docs[name]]
    /\ updateProof = [target \in Targets |-> updateProof[target]]
    /\ docs["latest"] # NoFile => DOMAIN docs["latest"] = Updaters
    /\ doc \in Docs

UpToDate(name) == docs[name] = Listing(name, packages)

(* The update proof of this job. *)
Proven(target) ==
    /\ \A artifact \in Native(target) :
         /\ packages[artifact] # NoFile
         /\ packages[artifact].sidecar = packages[artifact].build
    /\ updateProof[target] =
          [manifest |-> docs["latest"],
           artifacts |-> [artifact \in Native(target) |-> packages[artifact].build]]

(* What the job has behind it. *)
ProgressInv ==
    /\ unproved \subseteq Targets
    /\ job \in After => \A artifact \in Updaters : packages[artifact] # NoFile
    /\ job \in {"verify", "tamper", "prove", "publish"} =>
         UpToDate("latest") /\ UpToDate("downloads")
    /\ job \in {"write", "rename"} /\ doc = "downloads" => UpToDate("latest")
    /\ job \in {"scan", "write", "rename", "verify", "tamper"} =>
         unproved = Targets
    /\ job \in {"prove", "publish"} =>
         \A target \in Targets \ unproved : Proven(target)
    /\ job = "publish" => unproved = {}

(* An update proof, of this job or of an earlier one, offers the updater   *)
(* that it hashed.                                                         *)
OfferInv ==
    \A target \in Targets : updateProof[target] # NoFile =>
        updateProof[target].manifest[<<target, "updater">>].build =
            updateProof[target].artifacts[<<target, "updater">>]

SigningInv == DocumentInv /\ ProgressInv /\ OfferInv

LEMMA InitSigningInv == SigningInit => SigningInv
<1> SUFFICES ASSUME SigningInit PROVE SigningInv
  OBVIOUS
<1>1. DocumentInv
  BY DEF SigningInit, DocumentInv, Docs
<1>2. ProgressInv /\ OfferInv
  BY DEF SigningInit, ProgressInv, OfferInv, After
<1> QED
  BY <1>1, <1>2 DEF SigningInv

(* What happens between jobs, and a job that starts or ends.               *)
LEMMA OutsideKeepsInv ==
  ASSUME SigningInv, Deliver \/ Spoil \/ Litter \/ StartJob \/ JobEnds
  PROVE  SigningInv'
<1>1. /\ job' \in {"idle", "scan"} /\ UNCHANGED <<docs, doc, updateProof>>
      /\ unproved' \subseteq Targets /\ (job' = "scan" => unproved' = Targets)
  BY DEF Deliver, Spoil, Litter, Changing, StartJob, JobEnds, SigningInv,
         ProgressInv
<1>2. DocumentInv' /\ OfferInv'
  BY <1>1 DEF SigningInv, DocumentInv, OfferInv
<1>3. ProgressInv'
  BY <1>1 DEF ProgressInv, After
<1> QED
  BY <1>2, <1>3 DEF SigningInv

LEMMA WritingKeepsInv ==
  ASSUME SigningInv, Scan \/ WriteTemporary
  PROVE  SigningInv'
<1>1. UNCHANGED <<docs, packages, updateProof, unproved>>
      /\ doc' \in Docs /\ job' \in {"write", "rename"}
      /\ (job = "scan" => doc' = "latest") /\ (job # "scan" => doc' = doc)
      /\ job \in {"scan", "write"}
  BY DEF Scan, WriteTemporary, SigningInv, DocumentInv, Docs
<1>2. \A artifact \in Updaters : packages[artifact] # NoFile
  BY DEF Scan, WriteTemporary, SigningInv, ProgressInv, After
<1>3. DocumentInv' /\ OfferInv'
  BY <1>1 DEF SigningInv, DocumentInv, OfferInv
<1>4. ProgressInv'
  BY <1>1, <1>2 DEF SigningInv, ProgressInv, UpToDate
<1> QED
  BY <1>3, <1>4 DEF SigningInv

LEMMA RenameKeepsInv ==
  ASSUME SigningInv, RenameTemporary
  PROVE  SigningInv'
<1>1. /\ docs' = [docs EXCEPT ![doc] = Listing(doc, packages)]
      /\ doc' = "downloads" /\ UNCHANGED <<packages, unproved, updateProof>>
      /\ job = "rename" /\ job' = IF doc = "latest" THEN "write" ELSE "verify"
  BY DEF RenameTemporary
<1>2. docs' = [name \in Docs |->
                 IF name = doc THEN Listing(doc, packages) ELSE docs[name]]
      /\ doc \in Docs
  BY <1>1 DEF SigningInv, DocumentInv
<1>3. DOMAIN Listing("latest", packages) = Updaters
  BY <1>1 DEF Listing, SigningInv, ProgressInv, After
<1>4. DocumentInv'
  BY <1>1, <1>2, <1>3 DEF SigningInv, DocumentInv, Docs
<1>5. ProgressInv'
  <2>1. docs'[doc] = Listing(doc, packages) /\ packages' = packages
    BY <1>1, <1>2
  <2>2. CASE doc = "latest"
    <3>1. UpToDate("latest")'
      BY <2>1, <2>2 DEF UpToDate, Listing
    <3> QED
      BY <1>1, <2>2, <3>1 DEF SigningInv, ProgressInv, After
  <2>3. CASE doc = "downloads"
    <3>1. UpToDate("downloads")'
      BY <2>1, <2>3 DEF UpToDate, Listing
    <3>2. UpToDate("latest")'
      BY <1>1, <1>2, <2>3 DEF UpToDate, Listing, SigningInv, ProgressInv, Docs
    <3> QED
      BY <1>1, <2>3, <3>1, <3>2 DEF SigningInv, ProgressInv, After
  <2> QED
    BY <1>2, <2>2, <2>3 DEF Docs
<1>6. OfferInv'
  BY <1>1 DEF SigningInv, OfferInv
<1> QED
  BY <1>4, <1>5, <1>6 DEF SigningInv

LEMMA VerifyKeepsInv ==
  ASSUME SigningInv, Verify \/ Tamper
  PROVE  SigningInv'
<1>1. UNCHANGED <<docs, packages, updateProof, unproved, doc>>
      /\ \/ job = "verify" /\ job' = "tamper"
         \/ job = "tamper" /\ job' = "prove"
  BY DEF Verify, Tamper
<1>2. DocumentInv' /\ OfferInv'
  BY <1>1 DEF SigningInv, DocumentInv, OfferInv
<1>3. ProgressInv'
  BY <1>1 DEF SigningInv, ProgressInv, UpToDate, After
<1> QED
  BY <1>2, <1>3 DEF SigningInv

(* A proof that is made offers what it hashed, whoever asks for it.        *)
LEMMA ProvesAnOffer ==
  ASSUME SigningInv, NEW target \in Targets, Proves(target)
  PROVE  /\ OfferInv'
         /\ updateProof' = [t \in Targets |-> updateProof'[t]]
         /\ \A t \in Targets \ {target} : updateProof'[t] = updateProof[t]
         /\ updateProof'[target] =
               [manifest |-> docs["latest"],
                artifacts |-> [artifact \in Native(target) |->
                                 packages[artifact].build]]
<1> DEFINE made == [manifest |-> docs["latest"],
                    artifacts |-> [artifact \in Native(target) |->
                                     packages[artifact].build]]
<1>1. updateProof' = [t \in Targets |-> IF t = target THEN made ELSE updateProof[t]]
  BY DEF Proves, SigningInv, DocumentInv
<1>2. made.manifest[<<target, "updater">>].build = made.artifacts[<<target, "updater">>]
  <2>1. <<target, "updater">> \in Updaters /\ <<target, "updater">> \in Native(target)
    BY DEF Updaters, Artifacts, Native
  <2>2. docs["latest"] # NoFile /\ <<target, "updater">> \in DOMAIN docs["latest"]
    BY <2>1 DEF Proves, RejectsTampering, Verifies, Docs, SigningInv, DocumentInv
  <2>3. packages[<<target, "updater">>] = docs["latest"][<<target, "updater">>]
    BY <2>2 DEF Proves, RejectsTampering, Verifies, Docs
  <2> QED
    BY <2>1, <2>3
<1>3. OfferInv'
  <2> SUFFICES ASSUME NEW t \in Targets, updateProof'[t] # NoFile
               PROVE  updateProof'[t].manifest[<<t, "updater">>].build =
                        updateProof'[t].artifacts[<<t, "updater">>]
    BY DEF OfferInv
  <2>1. CASE t = target
    BY <1>1, <1>2, <2>1
  <2>2. CASE t # target
    BY <1>1, <2>2 DEF SigningInv, OfferInv
  <2> QED
    BY <2>1, <2>2
<1> QED
  BY <1>1, <1>3

LEMMA ProveKeepsInv ==
  ASSUME SigningInv, ProveUpdate \/ ProveAlone
  PROVE  SigningInv'
<1>0. UNCHANGED <<packages, docs, doc>>
  BY DEF ProveUpdate, ProveAlone
<1>1. CASE ProveUpdate
  <2>1. PICK target \in unproved :
          /\ Proves(target) /\ unproved' = unproved \ {target}
          /\ job' = IF unproved = {target} THEN "publish" ELSE "prove"
    BY <1>1 DEF ProveUpdate
  <2>2. target \in Targets /\ job = "prove"
    BY <1>1 DEF ProveUpdate, SigningInv, ProgressInv
  <2>3. Proven(target)'
    BY <1>0, <2>1, <2>2, ProvesAnOffer DEF Proven, Proves
  <2>4. \A t \in Targets \ unproved' : Proven(t)'
    <3> SUFFICES ASSUME NEW t \in Targets \ unproved', t # target
                 PROVE  Proven(t)'
      BY <2>3
    <3>1. Proven(t) /\ updateProof'[t] = updateProof[t]
      BY <2>1, <2>2, ProvesAnOffer DEF SigningInv, ProgressInv
    <3> QED
      BY <1>0, <3>1 DEF Proven
  <2>5. ProgressInv'
    BY <1>0, <2>1, <2>2, <2>4 DEF SigningInv, ProgressInv, UpToDate, After
  <2>6. DocumentInv' /\ OfferInv'
    BY <1>0, <2>1, <2>2, ProvesAnOffer DEF SigningInv, DocumentInv
  <2> QED
    BY <2>5, <2>6 DEF SigningInv
<1>2. CASE ProveAlone
  <2>1. PICK target \in Targets : Proves(target)
    BY <1>2 DEF ProveAlone
  <2>2. DocumentInv' /\ OfferInv'
    BY <1>0, <2>1, ProvesAnOffer DEF SigningInv, DocumentInv
  <2>3. ProgressInv'
    BY <1>2 DEF ProveAlone, SigningInv, ProgressInv, After
  <2> QED
    BY <2>2, <2>3 DEF SigningInv
<1> QED
  BY <1>1, <1>2

(* What every job knows, whatever jobs and changes came before.            *)
THEOREM SigningInvariant == SigningSpec => []SigningInv
<1>1. SigningInv /\ [SigningNext]_signingVars => SigningInv'
  <2>1. CASE UNCHANGED signingVars
    BY <2>1 DEF signingVars, SigningInv, DocumentInv, ProgressInv, OfferInv,
                UpToDate, Proven
  <2> QED
    BY <2>1, OutsideKeepsInv, WritingKeepsInv, RenameKeepsInv, VerifyKeepsInv,
       ProveKeepsInv DEF SigningNext
<1> QED
  BY <1>1, InitSigningInv, PTL DEF SigningSpec

(* A job that publishes has signed payloads, documents that list exactly   *)
(* these, and update proofs of these documents, whatever temporary files,  *)
(* documents and proofs earlier jobs left.                                 *)
THEOREM PublishedIsAlwaysWhole ==
  ASSUME WithInstaller \subseteq Targets
  PROVE  SigningSpec => []PublishedIsWhole
<1>1. SigningInv => PublishedIsWhole
  <2> SUFFICES ASSUME SigningInv, job = "publish" PROVE PublishedIsWhole
    BY DEF PublishedIsWhole
  <2>1. \A target \in Targets : Proven(target)
    BY DEF SigningInv, ProgressInv
  <2>2. ASSUME NEW artifact \in Artifacts
        PROVE  /\ packages[artifact] # NoFile
               /\ packages[artifact].sidecar = packages[artifact].build
    <3>1. artifact[1] \in Targets /\ artifact \in Native(artifact[1])
      BY DEF Artifacts, Updaters, Installers, Native
    <3> QED
      BY <2>1, <3>1 DEF Proven
  <2>3. UpToDate("latest") /\ UpToDate("downloads")
    BY DEF SigningInv, ProgressInv
  <2> QED
    BY <2>1, <2>2, <2>3 DEF PublishedIsWhole, Docs, UpToDate, Proven
<1> QED
  BY <1>1, SigningInvariant, PTL

(* The gate compares an update proof with a package proof and never sees   *)
(* the manifest; if they agree, the manifest offers that build.            *)
THEOREM AcceptedRowIsAlwaysOneBuild == SigningSpec => []AcceptedRowIsOneBuild
<1>1. SigningInv => AcceptedRowIsOneBuild
  <2> SUFFICES ASSUME SigningInv, NEW target \in Targets, NEW build \in Builds,
                      updateProof[target] # NoFile,
                      updateProof[target].artifacts =
                        [artifact \in Native(target) |-> build]
               PROVE  updateProof[target].manifest[<<target, "updater">>].build = build
    BY DEF AcceptedRowIsOneBuild
  <2>1. <<target, "updater">> \in Native(target)
    BY DEF Updaters, Artifacts, Native
  <2> QED
    BY <2>1 DEF SigningInv, OfferInv
<1> QED
  BY <1>1, SigningInvariant, PTL

-----------------------------------------------------------------------------
(* Induction.  A set of numbers that has an element has a least one, since *)
(* the strict inclusion of finite sets is well-founded; so a set that has  *)
(* 0 and the successor of each of its elements has every number.  Stated   *)
(* of a set, this is a fact like any other.                                *)

LEMMA Least ==
  ASSUME NEW S \in SUBSET Nat, S # {}
  PROVE  \E n \in S : \A m \in S : n <= m
<1> DEFINE T == {1..n : n \in S}
<1>1. T \subseteq FiniteSubsetsOf(Nat)
  <2>1. ASSUME NEW n \in S PROVE IsFiniteSet(1..n) /\ 1..n \subseteq Nat
    BY FS_Interval
  <2> QED
    BY <2>1 DEF FiniteSubsetsOf
<1>2. T # {}
  OBVIOUS
<1>3. \E x \in T : \A y \in T : <<y, x>> \notin StrictSubsetOrdering(Nat)
  <2> HIDE DEF T
  <2> QED
    BY <1>1, <1>2, FS_StrictSubsetOrderingWellFounded, WFMin
<1>4. PICK n \in S : \A m \in S : <<1..m, 1..n>> \notin StrictSubsetOrdering(Nat)
  BY <1>3
<1>5. ASSUME NEW m \in S, m < n PROVE FALSE
  <2>1. 1..m \subseteq 1..n /\ 1..m # 1..n
    <3>1. n \in 1..n /\ n \notin 1..m
      BY <1>5
    <3> QED
      BY <1>5, <3>1
  <2>2. 1..m \in SUBSET Nat /\ 1..n \in SUBSET Nat
    OBVIOUS
  <2> QED
    BY <1>4, <2>1, <2>2 DEF StrictSubsetOrdering
<1> QED
  BY <1>5

LEMMA Induction ==
  ASSUME NEW S, 0 \in S, \A n \in Nat : n \in S => n + 1 \in S
  PROVE  Nat \subseteq S
<1> SUFFICES ASSUME Nat \ S # {} PROVE FALSE
  OBVIOUS
<1>1. PICK n \in Nat \ S : \A m \in Nat \ S : n <= m
  BY Least
<1>2. n # 0 /\ n - 1 \in Nat /\ n - 1 \in S
  BY <1>1
<1> QED
  BY <1>2

LEMMA Greatest ==
  ASSUME NEW n \in Nat, NEW S, S \subseteq 0..n, S # {}
  PROVE  Max(S) \in S /\ \A m \in S : m <= Max(S)
<1> DEFINE T == {n - m : m \in S}
<1>1. T \subseteq Nat /\ T # {}
  <2>1. \A m \in S : n - m \in Nat
    OBVIOUS
  <2> QED
    BY <2>1
<1>2. PICK d \in T : \A e \in T : d <= e
  BY <1>1, Least
<1>3. PICK m \in S : d = n - m
  OBVIOUS
<1>4. \A k \in S : m >= k
  BY <1>2, <1>3
<1> QED
  BY <1>4 DEF Max

-----------------------------------------------------------------------------
(* Sum *)

LEMMA SumsExist ==
  ASSUME NEW values, NEW n \in Nat
  PROVE  \E f : f = [i \in 0..n |-> IF i = 0 THEN 0 ELSE f[i - 1] + values[i]]
<1> DEFINE S == {m \in Nat :
                   \E f : f = [i \in 0..m |-> IF i = 0 THEN 0 ELSE f[i - 1] + values[i]]}
<1>1. 0 \in S
  <2> DEFINE f == [i \in 0..0 |-> 0]
  <2>1. f = [i \in 0..0 |-> IF i = 0 THEN 0 ELSE f[i - 1] + values[i]]
    OBVIOUS
  <2> QED
    BY <2>1
<1>2. ASSUME NEW m \in Nat, m \in S PROVE m + 1 \in S
  <2>1. PICK f : f = [i \in 0..m |-> IF i = 0 THEN 0 ELSE f[i - 1] + values[i]]
    BY <1>2
  <2> DEFINE g == [i \in 0 .. m + 1 |->
                     IF i = m + 1 THEN f[m] + values[m + 1] ELSE f[i]]
  <2>2. ASSUME NEW i \in 0 .. m + 1
        PROVE  g[i] = IF i = 0 THEN 0 ELSE g[i - 1] + values[i]
    <3>1. CASE i = m + 1
      BY <3>1
    <3>2. CASE i # m + 1
      BY <2>1, <3>2
    <3> QED
      BY <3>1, <3>2
  <2>3. g = [i \in 0 .. m + 1 |-> IF i = 0 THEN 0 ELSE g[i - 1] + values[i]]
    <3> HIDE DEF g
    <3> SUFFICES g = [i \in 0 .. m + 1 |-> g[i]]
      BY <2>2
    <3> QED
      BY DEF g
  <2> HIDE DEF g
  <2> QED
    BY <2>3
<1> HIDE DEF S
<1>3. n \in S
  BY <1>1, <1>2, Induction
<1> QED
  BY <1>3 DEF S

LEMMA SumDef ==
  ASSUME NEW n \in Nat, NEW values \in [1..n -> Nat]
  PROVE  \E f : /\ f[0] = 0 /\ Sum(values) = f[n]
                /\ \A i \in 1..n : f[i] = f[i - 1] + values[i]
<1>1. Len(values) = n
  OBVIOUS
<1> DEFINE f == CHOOSE g : g = [i \in 0..n |-> IF i = 0 THEN 0 ELSE g[i - 1] + values[i]]
<1>2. f = [i \in 0..n |-> IF i = 0 THEN 0 ELSE f[i - 1] + values[i]]
  <2>1. \E g : g = [i \in 0..n |-> IF i = 0 THEN 0 ELSE g[i - 1] + values[i]]
    BY SumsExist
  <2> QED
    BY <2>1
<1>3. Sum(values) = f[n]
  BY <1>1 DEF Sum
<1> HIDE DEF f
<1>4. f[0] = 0 /\ \A i \in 1..n : f[i] = f[i - 1] + values[i]
  BY <1>2
<1> QED
  BY <1>3, <1>4

LEMMA SumEmpty == Sum(<<>>) = 0
<1>1. <<>> \in [1..0 -> Nat]
  OBVIOUS
<1> QED
  BY <1>1, SumDef

(* One more value adds itself. *)
LEMMA SumStep ==
  ASSUME NEW n \in Nat, NEW v \in [1..n -> Nat], NEW w \in [1 .. n + 1 -> Nat],
         \A i \in 1..n : w[i] = v[i]
  PROVE  Sum(w) = Sum(v) + w[n + 1]
<1>1. PICK f : /\ f[0] = 0 /\ Sum(v) = f[n]
               /\ \A i \in 1..n : f[i] = f[i - 1] + v[i]
  BY SumDef
<1>2. PICK g : /\ g[0] = 0 /\ Sum(w) = g[n + 1]
               /\ \A i \in 1 .. n + 1 : g[i] = g[i - 1] + w[i]
  <2>1. n + 1 \in Nat
    OBVIOUS
  <2> QED
    BY <2>1, SumDef
<1> DEFINE S == {i \in Nat : i <= n => f[i] = g[i]}
<1>3. 0 \in S
  BY <1>1, <1>2
<1>4. ASSUME NEW i \in Nat, i \in S PROVE i + 1 \in S
  <2> SUFFICES ASSUME i + 1 <= n PROVE f[i + 1] = g[i + 1]
    OBVIOUS
  <2> QED
    BY <1>1, <1>2, <1>4
<1> HIDE DEF S
<1>5. n \in S
  BY <1>3, <1>4, Induction
<1> QED
  BY <1>1, <1>2, <1>5 DEF S

LEMMA SumNat ==
  ASSUME NEW n \in Nat, NEW v \in [1..n -> Nat]
  PROVE  Sum(v) \in Nat
<1>1. PICK f : /\ f[0] = 0 /\ Sum(v) = f[n]
               /\ \A i \in 1..n : f[i] = f[i - 1] + v[i]
  BY SumDef
<1> DEFINE S == {i \in Nat : i <= n => f[i] \in Nat}
<1>2. 0 \in S
  BY <1>1
<1>3. ASSUME NEW i \in Nat, i \in S PROVE i + 1 \in S
  BY <1>1, <1>3
<1> HIDE DEF S
<1>4. n \in S
  BY <1>2, <1>3, Induction
<1> QED
  BY <1>1, <1>4 DEF S

-----------------------------------------------------------------------------
(* The stream, in lines *)

TextUnits(line) == {Text(line, part) : part \in 1..Len(line.parts)}

Units == {Return, Feed} \union UNION {TextUnits(line) : line \in Lines}

LEMMA UnitsAre ==
  /\ Return \in Units /\ Feed \in Units
  /\ \A line \in Lines : \A part \in 1..Len(line.parts) : Text(line, part) \in Units
<1>1. \A line \in Lines : \A part \in 1..Len(line.parts) :
        Text(line, part) \in TextUnits(line)
  BY DEF TextUnits
<1>2. Return \in Units /\ Feed \in Units
  BY Zenon DEF Units
<1> QED
  BY <1>1, <1>2, Zenon DEF Units

LEMMA LineType ==
  ASSUME NEW line \in Lines
  PROVE  /\ line \in [key : STRING, value : STRING, parts : Seq(Nat), cr : BOOLEAN]
         /\ Len(line.parts) \in Nat \ {0}
         /\ line.parts \in [1..Len(line.parts) -> Nat]
BY ProgressAssumption

(* What is left of a line without its line feed.                           *)
Content(line) == IF line.cr THEN Append(TextOf(line), Return) ELSE TextOf(line)

LEMMA TextType ==
  ASSUME NEW line \in Lines
  PROVE  /\ TextOf(line) \in Seq(Units) /\ Len(TextOf(line)) = Len(line.parts)
         /\ Content(line) \in Seq(Units) /\ Content(line) # <<>>
         /\ \A i \in 1..Len(Content(line)) : Content(line)[i] # Feed
<1>1. \A part \in 1..Len(line.parts) : Text(line, part) \in Units
  BY UnitsAre
<1>2. TextOf(line) \in Seq(Units) /\ Len(TextOf(line)) = Len(line.parts)
  BY LineType, <1>1 DEF TextOf
<1>3. \A i \in 1..Len(line.parts) : TextOf(line)[i].kind = "text"
  BY LineType DEF TextOf, Text
<1>4. Return.kind = "return" /\ Feed.kind = "feed" /\ Return \in Units
  BY UnitsAre DEF Return, Feed
<1>5. /\ Content(line) \in Seq(Units)
      /\ \A i \in 1..Len(Content(line)) : Content(line)[i].kind # "feed"
  BY <1>2, <1>3, <1>4, LineType DEF Content
<1>6. Content(line) # <<>>
  BY <1>2, LineType, <1>4 DEF Content
<1> QED
  BY <1>2, <1>4, <1>5, <1>6

LEMMA WrittenIs ==
  ASSUME NEW line \in Lines
  PROVE  /\ Written(line) = Append(Content(line), Feed)
         /\ Written(line) \in Seq(Units)
         /\ Len(Written(line)) = Len(Content(line)) + 1
<1>1. Feed \in Units /\ Return \in Units
  BY UnitsAre
<1>2. Written(line) = Append(Content(line), Feed)
  <2>1. CASE line.cr
    <3>1. TextOf(line) \o <<Return, Feed>> = Append(Append(TextOf(line), Return), Feed)
      BY TextType, <1>1
    <3> QED
      BY <2>1, <3>1 DEF Written, Content
  <2>2. CASE ~line.cr
    <3>1. TextOf(line) \o <<Feed>> = Append(TextOf(line), Feed)
      BY TextType, <1>1
    <3> QED
      BY <2>2, <3>1 DEF Written, Content
  <2> QED
    BY <2>1, <2>2
<1> QED
  BY <1>1, <1>2, TextType

LEMMA OutputsExist ==
  ASSUME NEW n \in Nat
  PROVE  \E f : f = [i \in 0..n |->
                       IF i = 0 THEN <<>> ELSE f[i - 1] \o Written(script[i])]
<1> DEFINE Join(before, i) == before \o Written(script[i])
           S == {m \in Nat :
                   \E f : f = [i \in 0..m |-> IF i = 0 THEN <<>> ELSE Join(f[i - 1], i)]}
<1> HIDE DEF Join
<1>1. 0 \in S
  <2> DEFINE f == [i \in 0..0 |-> <<>>]
  <2>1. f = [i \in 0..0 |-> IF i = 0 THEN <<>> ELSE Join(f[i - 1], i)]
    OBVIOUS
  <2> QED
    BY <2>1
<1>2. ASSUME NEW m \in Nat, m \in S PROVE m + 1 \in S
  <2>1. PICK f : f = [i \in 0..m |-> IF i = 0 THEN <<>> ELSE Join(f[i - 1], i)]
    BY <1>2
  <2> DEFINE g == [i \in 0 .. m + 1 |-> IF i = m + 1 THEN Join(f[m], m + 1) ELSE f[i]]
  <2>2. ASSUME NEW i \in 0 .. m + 1
        PROVE  g[i] = IF i = 0 THEN <<>> ELSE Join(g[i - 1], i)
    <3>1. CASE i = m + 1
      BY <3>1
    <3>2. CASE i # m + 1
      BY <2>1, <3>2
    <3> QED
      BY <3>1, <3>2
  <2>3. g = [i \in 0 .. m + 1 |-> IF i = 0 THEN <<>> ELSE Join(g[i - 1], i)]
    <3> HIDE DEF g
    <3> SUFFICES g = [i \in 0 .. m + 1 |-> g[i]]
      BY <2>2
    <3> QED
      BY DEF g
  <2> HIDE DEF g
  <2> QED
    BY <2>3
<1> HIDE DEF S
<1>3. n \in S
  BY <1>1, <1>2, Induction
<1> QED
  BY <1>3 DEF S, Join

LEMMA OutputDef ==
  ASSUME NEW n \in Nat
  PROVE  \E f : /\ f[0] = <<>> /\ Output(n) = f[n]
                /\ \A i \in 1..n : f[i] = f[i - 1] \o Written(script[i])
<1> DEFINE Further(f, i) == IF i = 0 THEN <<>> ELSE f[i - 1] \o Written(script[i])
           f == CHOOSE g : g = [i \in 0..n |-> Further(g, i)]
<1>1. f = [i \in 0..n |-> Further(f, i)]
  <2>1. \E g : g = [i \in 0..n |-> Further(g, i)]
    BY OutputsExist
  <2> QED
    BY <2>1
<1>2. Output(n) = f[n]
  BY DEF Output
<1> HIDE DEF f
<1>3. f[0] = <<>> /\ \A i \in 1..n : f[i] = f[i - 1] \o Written(script[i])
  BY <1>1
<1> QED
  BY <1>2, <1>3

LEMMA OutputNone == Output(0) = <<>>
BY OutputDef

LEMMA OutputStep ==
  ASSUME NEW n \in Nat
  PROVE  Output(n + 1) = Output(n) \o Written(script[n + 1])
<1>1. PICK f : /\ f[0] = <<>> /\ Output(n) = f[n]
               /\ \A i \in 1..n : f[i] = f[i - 1] \o Written(script[i])
  BY OutputDef
<1>2. PICK g : /\ g[0] = <<>> /\ Output(n + 1) = g[n + 1]
               /\ \A i \in 1 .. n + 1 : g[i] = g[i - 1] \o Written(script[i])
  <2>1. n + 1 \in Nat
    OBVIOUS
  <2> QED
    BY <2>1, OutputDef
<1> DEFINE S == {i \in Nat : i <= n => f[i] = g[i]}
<1>3. 0 \in S
  BY <1>1, <1>2
<1>4. ASSUME NEW i \in Nat, i \in S PROVE i + 1 \in S
  <2> SUFFICES ASSUME i + 1 <= n PROVE f[i + 1] = g[i + 1]
    OBVIOUS
  <2>1. /\ i + 1 \in 1..n /\ i + 1 \in 1 .. n + 1 /\ (i + 1) - 1 = i
        /\ f[i] = g[i]
    BY <1>4
  <2>2. f[i + 1] = f[i] \o Written(script[i + 1])
    BY <1>1, <2>1
  <2>3. g[i + 1] = g[i] \o Written(script[i + 1])
    BY <1>2, <2>1
  <2> QED
    BY <2>1, <2>2, <2>3
<1> HIDE DEF S
<1>5. n \in S
  BY <1>3, <1>4, Induction
<1>6. f[n] = g[n]
  BY <1>5 DEF S
<1>7. g[n + 1] = g[n] \o Written(script[n + 1])
  <2>1. n + 1 \in 1 .. n + 1 /\ (n + 1) - 1 = n
    OBVIOUS
  <2> QED
    BY <1>2, <2>1
<1> QED
  BY <1>1, <1>2, <1>6, <1>7

LEMMA EndStep ==
  ASSUME script \in Seq(Lines)
  PROVE  /\ End(0) = 0
         /\ \A n \in 0..Len(script) : Output(n) \in Seq(Units) /\ End(n) \in Nat
         /\ \A n \in 0 .. Len(script) - 1 :
              /\ End(n + 1) = End(n) + Len(Written(script[n + 1]))
              /\ Written(script[n + 1]) \in Seq(Units)
              /\ Len(Written(script[n + 1])) >= 2
<1>1. ASSUME NEW n \in 0 .. Len(script) - 1
      PROVE  /\ Written(script[n + 1]) \in Seq(Units)
             /\ Len(Written(script[n + 1])) >= 2
  <2>1. script[n + 1] \in Lines
    BY <1>1
  <2>2. \A c \in Seq(Units) : c # <<>> => Len(c) >= 1
    OBVIOUS
  <2> QED
    BY <2>1, <2>2, WrittenIs, TextType
<1> DEFINE S == {n \in Nat : n <= Len(script) => Output(n) \in Seq(Units)}
<1>2. 0 \in S
  <2>1. <<>> \in Seq(Units)
    OBVIOUS
  <2> QED
    BY <2>1, OutputNone
<1>3. ASSUME NEW n \in Nat, n \in S PROVE n + 1 \in S
  <2> SUFFICES ASSUME n + 1 <= Len(script) PROVE Output(n + 1) \in Seq(Units)
    OBVIOUS
  <2>1. Output(n) \in Seq(Units) /\ Written(script[n + 1]) \in Seq(Units)
    BY <1>1, <1>3
  <2>2. Output(n) \o Written(script[n + 1]) \in Seq(Units)
    BY <2>1
  <2> QED
    BY <2>2, OutputStep
<1>4. \A n \in 0..Len(script) : Output(n) \in Seq(Units)
  <2> HIDE DEF S
  <2>1. Nat \subseteq S
    BY <1>2, <1>3, Induction
  <2> QED
    BY <2>1 DEF S
<1> HIDE DEF S
<1>5. ASSUME NEW n \in 0 .. Len(script) - 1
      PROVE  End(n + 1) = End(n) + Len(Written(script[n + 1]))
  <2>1. Output(n) \in Seq(Units) /\ Written(script[n + 1]) \in Seq(Units)
    BY <1>1, <1>4
  <2>2. Len(Output(n) \o Written(script[n + 1]))
          = Len(Output(n)) + Len(Written(script[n + 1]))
    BY <2>1
  <2>3. Output(n + 1) = Output(n) \o Written(script[n + 1])
    <3>1. n \in Nat
      OBVIOUS
    <3> QED
      BY <3>1, OutputStep
  <2> QED
    BY <2>2, <2>3 DEF End
<1>6. \A n \in 0..Len(script) : End(n) \in Nat
  BY <1>4 DEF End
<1>7. End(0) = 0
  BY OutputNone DEF End
<1> QED
  BY <1>1, <1>4, <1>5, <1>6, <1>7

LEMMA EndGrows ==
  ASSUME script \in Seq(Lines), NEW m \in 0..Len(script), NEW n \in 0..Len(script),
         m <= n
  PROVE  End(m) <= End(n)
<1> DEFINE S == {d \in Nat : m + d <= Len(script) => End(m) <= End(m + d)}
<1>1. 0 \in S
  BY EndStep
<1>2. ASSUME NEW d \in Nat, d \in S PROVE d + 1 \in S
  <2> SUFFICES ASSUME m + d + 1 <= Len(script) PROVE End(m) <= End(m + (d + 1))
    OBVIOUS
  <2>1. /\ m + d \in 0 .. Len(script) - 1 /\ m + (d + 1) = (m + d) + 1
        /\ End(m) <= End(m + d)
    BY <1>2
  <2>2. /\ End((m + d) + 1) = End(m + d) + Len(Written(script[m + d + 1]))
        /\ Len(Written(script[m + d + 1])) >= 2
        /\ Len(Written(script[m + d + 1])) \in Nat
    <3>1. Written(script[m + d + 1]) \in Seq(Units)
      BY <2>1, EndStep
    <3>2. Len(Written(script[m + d + 1])) \in Nat
      BY <3>1
    <3> QED
      BY <2>1, <3>2, EndStep
  <2>3. End(m) \in Nat /\ End(m + d) \in Nat
    BY <2>1, EndStep
  <2> QED
    BY <2>1, <2>2, <2>3
<1> HIDE DEF S
<1>3. n - m \in S
  BY <1>1, <1>2, Induction
<1>4. n - m \in Nat /\ m + (n - m) = n
  OBVIOUS
<1> QED
  BY <1>3, <1>4 DEF S

LEMMA StreamLine ==
  ASSUME script \in Seq(Lines), NEW n \in 0 .. Len(script) - 1,
         NEW k \in 1..Len(Written(script[n + 1]))
  PROVE  Stream[End(n) + k] = Written(script[n + 1])[k]
<1> DEFINE W == Written(script[n + 1])
           S == {d \in Nat : n + 1 + d <= Len(script) =>
                               /\ End(n) + k <= End(n + 1 + d)
                               /\ Output(n + 1 + d)[End(n) + k] = W[k]}
<1>1. /\ n \in Nat /\ Output(n) \in Seq(Units) /\ W \in Seq(Units)
      /\ End(n) \in Nat /\ k \in 1..Len(W) /\ Len(W) \in Nat
      /\ End(n + 1) = End(n) + Len(W)
  BY EndStep
<1> HIDE DEF W
<1>2. 0 \in S
  <2>1. Output(n + 1) = Output(n) \o W
    BY <1>1, OutputStep DEF W
  <2>2. (Output(n) \o W)[Len(Output(n)) + k] = W[k]
    BY <1>1
  <2> QED
    BY <1>1, <2>1, <2>2 DEF End
<1>3. ASSUME NEW d \in Nat, d \in S PROVE d + 1 \in S
  <2> SUFFICES ASSUME n + 1 + (d + 1) <= Len(script)
               PROVE  /\ End(n) + k <= End(n + 1 + (d + 1))
                      /\ Output(n + 1 + (d + 1))[End(n) + k] = W[k]
    OBVIOUS
  <2> DEFINE l == n + 1 + d
             V == Written(script[l + 1])
  <2>1. /\ l \in Nat /\ l \in 0 .. Len(script) - 1 /\ n + 1 + (d + 1) = l + 1
        /\ End(n) + k <= End(l) /\ Output(l)[End(n) + k] = W[k]
    BY <1>3
  <2>2. /\ Output(l) \in Seq(Units) /\ V \in Seq(Units) /\ End(l) \in Nat
        /\ End(l + 1) = End(l) + Len(V)
    BY <2>1, EndStep
  <2>3. Output(l + 1) = Output(l) \o V
    BY <2>1, OutputStep
  <2> HIDE DEF l, V
  <2>4. Len(V) \in Nat /\ Len(Output(l)) = End(l)
    BY <2>2 DEF End
  <2>5. (Output(l) \o V)[End(n) + k] = Output(l)[End(n) + k]
    BY <1>1, <2>1, <2>2, <2>4
  <2>6. Output(l + 1)[End(n) + k] = W[k]
    BY <2>1, <2>3, <2>5
  <2>7. End(n) + k <= End(l + 1)
    BY <1>1, <2>1, <2>2, <2>4
  <2>8. n + 1 + (d + 1) = l + 1
    BY <2>1
  <2> QED
    BY <2>6, <2>7, <2>8
<1> HIDE DEF S
<1>4. Len(script) - (n + 1) \in S
  BY <1>2, <1>3, Induction
<1>5. n + 1 + (Len(script) - (n + 1)) = Len(script)
  OBVIOUS
<1> QED
  BY <1>4, <1>5 DEF S, W, Stream

LEMMA EndedAtIs ==
  ASSUME script \in Seq(Lines), NEW place \in Nat, NEW n \in 0..Len(script),
         End(n) <= place, n < Len(script) => place < End(n + 1)
  PROVE  EndedAt(place) = n
<1> DEFINE S == {m \in 0..Len(script) : End(m) <= place}
<1>1. S \subseteq 0..Len(script) /\ n \in S /\ Len(script) \in Nat
  OBVIOUS
<1> HIDE DEF S
<1>2. Max(S) \in S /\ n <= Max(S)
  BY <1>1, Greatest
<1>3. ASSUME n < Max(S) PROVE FALSE
  <2>1. n + 1 \in 0..Len(script) /\ n + 1 <= Max(S) /\ n < Len(script)
    BY <1>1, <1>2, <1>3 DEF S
  <2>2. Max(S) \in 0..Len(script) /\ End(Max(S)) <= place
    BY <1>2 DEF S
  <2>3. End(n + 1) <= End(Max(S))
    BY <2>1, <2>2, EndGrows
  <2>4. End(n + 1) \in Nat /\ End(Max(S)) \in Nat
    BY <2>1, <2>2, EndStep
  <2> QED
    BY <2>1, <2>2, <2>3, <2>4
<1>4. Max(S) = n
  BY <1>1, <1>2, <1>3 DEF S
<1> QED
  BY <1>4 DEF EndedAt, S

(* Where a place is, and what one more unit of the stream is.              *)
LEMMA PlaceIs ==
  ASSUME script \in Seq(Lines), NEW place \in 0..Len(Stream)
  PROVE  /\ EndedAt(place) \in 0..Len(script) /\ End(EndedAt(place)) <= place
         /\ EndedAt(place) < Len(script) => place < End(EndedAt(place) + 1)
<1> DEFINE S == {m \in 0..Len(script) : End(m) <= place}
           n == Max(S)
<1>1. S \subseteq 0..Len(script) /\ 0 \in S /\ Len(script) \in Nat
  <2>1. place \in Nat
    BY EndStep DEF Stream, End
  <2> QED
    BY <2>1, EndStep
<1> HIDE DEF S
<1>2. n \in S /\ \A m \in S : m <= n
  BY <1>1, Greatest
<1>3. ASSUME n < Len(script), ~(place < End(n + 1)) PROVE FALSE
  <2>1. n \in 0..Len(script) /\ n + 1 \in 0..Len(script)
    BY <1>1, <1>2, <1>3 DEF S
  <2>2. End(n + 1) \in Nat
    BY <2>1, EndStep
  <2>3. place \in Nat
    BY EndStep DEF Stream, End
  <2> QED
    BY <1>2, <1>3, <2>1, <2>2, <2>3 DEF S
<1>4. EndedAt(place) = n
  BY DEF EndedAt, S
<1> QED
  BY <1>1, <1>2, <1>3, <1>4 DEF S

UnendedAt(place) == SubSeq(Stream, End(EndedAt(place)) + 1, place)

LEMMA OneMore ==
  ASSUME NEW T, NEW s \in Seq(T), NEW a \in Nat \ {0}, NEW b \in Nat,
         a <= b + 1, b < Len(s)
  PROVE  SubSeq(s, a, b + 1) = Append(SubSeq(s, a, b), s[b + 1])
<1> DEFINE l == SubSeq(s, a, b + 1)
           r == Append(SubSeq(s, a, b), s[b + 1])
<1>1. l \in Seq(T) /\ Len(l) = b + 2 - a /\ Len(l) \in Nat
  OBVIOUS
<1>2. SubSeq(s, a, b) \in Seq(T) /\ Len(SubSeq(s, a, b)) = b + 1 - a
  OBVIOUS
<1>3. s[b + 1] \in T
  OBVIOUS
<1>4. r \in Seq(T) /\ Len(r) = b + 2 - a
  BY <1>2, <1>3
<1>5. ASSUME NEW i \in 1..Len(l) PROVE l[i] = r[i]
  <2>1. l[i] = s[a + i - 1]
    BY <1>1
  <2>2. CASE i = b + 2 - a
    <3>1. r[i] = s[b + 1]
      BY <1>2, <1>3, <2>2
    <3> QED
      BY <2>1, <2>2, <3>1
  <2>3. CASE i <= b + 1 - a
    <3>1. r[i] = SubSeq(s, a, b)[i]
      BY <1>2, <1>3, <2>3
    <3>2. SubSeq(s, a, b)[i] = s[a + i - 1]
      BY <2>3
    <3> QED
      BY <2>1, <3>1, <3>2
  <2> QED
    BY <1>1, <2>2, <2>3
<1> HIDE DEF l, r
<1>6. l = r
  <2>1. l = [i \in 1..Len(l) |-> l[i]] /\ r = [i \in 1..Len(r) |-> r[i]]
    BY <1>1, <1>4
  <2> QED
    BY <1>1, <1>4, <1>5, <2>1
<1> QED
  BY <1>6 DEF l, r

(* The next unit is one more of the line that has not ended, or ends it.   *)
LEMMA NextUnit ==
  ASSUME script \in Seq(Lines), NEW place \in 0 .. Len(Stream) - 1
  PROVE  LET n == EndedAt(place)
             unit == Stream[place + 1]
         IN  /\ n \in 0 .. Len(script) - 1 /\ script[n + 1] \in Lines
             /\ \/ /\ unit # Feed /\ EndedAt(place + 1) = n
                   /\ UnendedAt(place + 1) = Append(UnendedAt(place), unit)
                \/ /\ unit = Feed /\ EndedAt(place + 1) = n + 1
                   /\ UnendedAt(place) = Content(script[n + 1])
                   /\ UnendedAt(place + 1) = <<>>
<1> DEFINE n == EndedAt(place)
           C == Content(script[n + 1])
           W == Written(script[n + 1])
           k == place + 1 - End(n)
<1>0. Stream \in Seq(Units) /\ Len(Stream) = End(Len(script))
      /\ Len(script) \in Nat /\ Len(Stream) \in Nat /\ place \in Nat
  BY EndStep DEF Stream, End
<1>1. n \in 0..Len(script) /\ End(n) <= place
      /\ (n < Len(script) => place < End(n + 1))
  BY PlaceIs
<1> HIDE DEF n
<1>2. n \in 0 .. Len(script) - 1 /\ n \in Nat /\ End(n) \in Nat
  BY <1>0, <1>1, EndStep
<1>3. script[n + 1] \in Lines /\ End(n + 1) = End(n) + Len(W)
  BY <1>2, EndStep
<1>4. /\ W = Append(C, Feed) /\ Len(W) = Len(C) + 1
      /\ C \in Seq(Units) /\ \A i \in 1..Len(C) : C[i] # Feed
  BY <1>3, WrittenIs, TextType
<1> HIDE DEF C
<1>5. \A i \in 1..Len(W) : Stream[End(n) + i] = W[i]
  BY <1>2, StreamLine
<1> HIDE DEF W
<1>6. k \in 1..Len(W) /\ End(n) + k = place + 1 /\ Len(C) \in Nat
  BY <1>0, <1>1, <1>2, <1>3, <1>4
<1>7. Stream[place + 1] = W[k]
  BY <1>5, <1>6
<1>8. UnendedAt(place) = SubSeq(Stream, End(n) + 1, place)
  BY DEF UnendedAt, n
<1>9. CASE k <= Len(C)
  <2>1. W[k] = C[k] /\ C[k] # Feed
    BY <1>4, <1>6, <1>9
  <2>2. EndedAt(place + 1) = n
    <3>1. /\ place + 1 \in Nat /\ n \in 0..Len(script)
          /\ End(n) <= place + 1 /\ place + 1 < End(n + 1)
      BY <1>0, <1>1, <1>2, <1>3, <1>4, <1>6, <1>9
    <3> QED
      BY <3>1, EndedAtIs
  <2>3. UnendedAt(place + 1) = Append(UnendedAt(place), Stream[place + 1])
    <3>1. UnendedAt(place + 1) = SubSeq(Stream, End(n) + 1, place + 1)
      BY <2>2 DEF UnendedAt
    <3>2. SubSeq(Stream, End(n) + 1, place + 1)
            = Append(SubSeq(Stream, End(n) + 1, place), Stream[place + 1])
      <4>1. /\ End(n) + 1 \in Nat \ {0} /\ End(n) + 1 <= place + 1
            /\ place < Len(Stream)
        BY <1>0, <1>1, <1>2
      <4> QED
        BY <1>0, <4>1, OneMore
    <3> QED
      BY <1>8, <3>1, <3>2
  <2> QED
    BY <1>2, <1>3, <1>7, <2>1, <2>2, <2>3 DEF n
<1>10. CASE k = Len(C) + 1
  <2>1. W[k] = Feed
    BY <1>4, <1>10
  <2>2. place + 1 = End(n + 1)
    BY <1>3, <1>4, <1>6, <1>10
  <2>3. EndedAt(place + 1) = n + 1
    <3>1. n + 1 \in 0..Len(script) /\ place + 1 \in Nat
      BY <1>0, <1>2
    <3>2. n + 1 < Len(script) => End(n + 1) < End(n + 1 + 1)
      <4> SUFFICES ASSUME n + 1 < Len(script) PROVE End(n + 1) < End(n + 1 + 1)
        OBVIOUS
      <4>1. n + 1 \in 0 .. Len(script) - 1
        BY <1>0, <1>2
      <4>2. /\ End(n + 1 + 1) = End(n + 1) + Len(Written(script[n + 1 + 1]))
            /\ Len(Written(script[n + 1 + 1])) >= 2
            /\ Written(script[n + 1 + 1]) \in Seq(Units)
            /\ End(n + 1) \in Nat
        BY <3>1, <4>1, EndStep
      <4>3. Len(Written(script[n + 1 + 1])) \in Nat
        BY <4>2
      <4> QED
        BY <4>2, <4>3
    <3> QED
      BY <2>2, <3>1, <3>2, EndedAtIs
  <2>4. UnendedAt(place) = C
    <3>1. SubSeq(Stream, End(n) + 1, place)
            = [i \in 1 .. place - End(n) |-> Stream[End(n) + i]]
      BY <1>0, <1>1, <1>2
    <3>2. place - End(n) = Len(C)
      BY <1>0, <1>2, <1>6, <1>10
    <3>3. \A i \in 1..Len(C) : Stream[End(n) + i] = C[i]
      BY <1>4, <1>5, <1>6
    <3>4. C = [i \in 1..Len(C) |-> C[i]]
      BY <1>4
    <3> QED
      BY <1>8, <3>1, <3>2, <3>3, <3>4
  <2>5. UnendedAt(place + 1) = <<>>
    <3>1. UnendedAt(place + 1) = SubSeq(Stream, place + 1 + 1, place + 1)
      BY <2>2, <2>3 DEF UnendedAt
    <3> QED
      BY <1>0, <3>1
  <2> QED
    BY <1>2, <1>3, <1>7, <2>1, <2>3, <2>4, <2>5 DEF n, C
<1> QED
  BY <1>4, <1>6, <1>9, <1>10

-----------------------------------------------------------------------------
(* The blocks, line by line *)

LEMMA OpeningStep ==
  ASSUME NEW n \in Nat
  PROVE  /\ Opening(n + 1) \in 1 .. n + 1
         /\ n = 0 => Opening(n + 1) = 1
         /\ Opening(n + 2) = IF Marker(n + 1) THEN n + 2 ELSE Opening(n + 1)
<1> DEFINE Before(i) == {j \in 1 .. i - 1 : Marker(j)} \union {0}
<1>1. /\ Before(n + 1) \subseteq 0..n /\ Before(n + 1) # {}
      /\ Before(n + 2) \subseteq 0 .. n + 1 /\ Before(n + 2) # {}
  OBVIOUS
<1>2. /\ Max(Before(n + 1)) \in Before(n + 1)
      /\ \A j \in Before(n + 1) : j <= Max(Before(n + 1))
  <2> HIDE DEF Before
  <2> QED
    BY <1>1, Greatest
<1>3. /\ Max(Before(n + 2)) \in Before(n + 2)
      /\ \A j \in Before(n + 2) : j <= Max(Before(n + 2))
  <2>1. n + 1 \in Nat
    OBVIOUS
  <2> HIDE DEF Before
  <2> QED
    BY <1>1, <2>1, Greatest
<1>4. Before(n + 2) = Before(n + 1) \union (IF Marker(n + 1) THEN {n + 1} ELSE {})
  <2>1. \A j : j \in 1 .. n + 2 - 1 <=> j \in 1 .. n + 1 - 1 \/ j = n + 1
    OBVIOUS
  <2> QED
    BY <2>1
<1>5. Opening(n + 1) = Max(Before(n + 1)) + 1 /\ Opening(n + 2) = Max(Before(n + 2)) + 1
  BY DEF Opening
<1> HIDE DEF Before
<1>6. CASE Marker(n + 1)
  <2>1. n + 1 \in Before(n + 2)
    BY <1>4, <1>6
  <2>2. Max(Before(n + 2)) = n + 1
    BY <1>1, <1>3, <2>1
  <2> QED
    BY <1>1, <1>2, <1>5, <1>6, <2>2
<1>7. CASE ~Marker(n + 1)
  <2>1. Before(n + 2) = Before(n + 1)
    BY <1>4, <1>7
  <2> QED
    BY <1>1, <1>2, <1>5, <1>7, <2>1
<1> QED
  BY <1>6, <1>7

LEMMA LastOfStep ==
  ASSUME NEW n \in Nat, NEW a \in 1 .. n + 1, NEW key
  PROVE  /\ a = n + 1 => LastOf(key, a..n) = "N/A"
         /\ LastOf(key, a .. n + 1) =
              IF script[n + 1].key = key THEN script[n + 1].value
              ELSE LastOf(key, a..n)
<1> DEFINE Found(m) == {i \in a..m : script[i].key = key}
<1>1. a = n + 1 => Found(n) = {}
  OBVIOUS
<1>2. CASE script[n + 1].key = key
  <2>1. Found(n + 1) \subseteq 0 .. n + 1 /\ n + 1 \in Found(n + 1) /\ n + 1 \in Nat
    BY <1>2
  <2> HIDE DEF Found
  <2>2. Max(Found(n + 1)) \in Found(n + 1) /\ n + 1 <= Max(Found(n + 1))
    BY <2>1, Greatest
  <2>3. Max(Found(n + 1)) = n + 1
    BY <2>1, <2>2
  <2> QED
    BY <1>1, <1>2, <2>1, <2>3 DEF LastOf, Found
<1>3. CASE script[n + 1].key # key
  <2>1. Found(n + 1) = Found(n)
    BY <1>3
  <2> HIDE DEF Found
  <2>2. LastOf(key, a .. n + 1) = LastOf(key, a..n)
    BY <2>1 DEF LastOf, Found
  <2> QED
    BY <1>1, <1>3, <2>2 DEF LastOf, Found
<1> QED
  BY <1>2, <1>3

LEMMA SizeOfStep ==
  ASSUME script \in Seq(Lines)
  PROVE  /\ \A n \in 0..Len(script) : SizeOf(n) \in Nat
         /\ \A n \in 0 .. Len(script) - 1 :
              /\ Sum(script[n + 1].parts) \in Nat
              /\ SizeOf(n + 1) = SizeOf(n) + Sum(script[n + 1].parts) + 1
<1> DEFINE Sizes(n) == [i \in 1..n |-> Sum(script[i].parts) + 1]
<1>1. ASSUME NEW i \in 1..Len(script) PROVE Sum(script[i].parts) \in Nat
  <2>1. script[i] \in Lines
    BY <1>1
  <2> QED
    BY <2>1, LineType, SumNat
<1>2. ASSUME NEW n \in 0..Len(script) PROVE Sizes(n) \in [1..n -> Nat]
  <2>1. ASSUME NEW i \in 1..n PROVE Sum(script[i].parts) + 1 \in Nat
    <3>1. i \in 1..Len(script)
      OBVIOUS
    <3> QED
      BY <1>1, <3>1
  <2> QED
    BY <2>1
<1>3. ASSUME NEW n \in 0..Len(script) PROVE SizeOf(n) \in Nat
  <2>1. n \in Nat /\ Sizes(n) \in [1..n -> Nat]
    BY <1>2
  <2> HIDE DEF Sizes
  <2>2. Sum(Sizes(n)) \in Nat
    BY <2>1, SumNat
  <2> QED
    BY <2>2 DEF SizeOf, Sizes
<1>4. ASSUME NEW n \in 0 .. Len(script) - 1
      PROVE  SizeOf(n + 1) = SizeOf(n) + (Sum(script[n + 1].parts) + 1)
  <2>1. /\ n \in Nat /\ Sizes(n) \in [1..n -> Nat]
        /\ Sizes(n + 1) \in [1 .. n + 1 -> Nat]
    BY <1>2
  <2>2. /\ \A i \in 1..n : Sizes(n + 1)[i] = Sizes(n)[i]
        /\ Sizes(n + 1)[n + 1] = Sum(script[n + 1].parts) + 1
    OBVIOUS
  <2> HIDE DEF Sizes
  <2>3. Sum(Sizes(n + 1)) = Sum(Sizes(n)) + Sizes(n + 1)[n + 1]
    BY <2>1, <2>2, SumStep
  <2> QED
    BY <2>2, <2>3 DEF SizeOf, Sizes
<1>5. \A n \in 0 .. Len(script) - 1 : n + 1 \in 1..Len(script) /\ n \in 0..Len(script)
  OBVIOUS
<1>6. ASSUME NEW n \in 0 .. Len(script) - 1
      PROVE  SizeOf(n + 1) = SizeOf(n) + Sum(script[n + 1].parts) + 1
  <2>1. SizeOf(n) \in Nat /\ Sum(script[n + 1].parts) \in Nat
    BY <1>1, <1>3, <1>5
  <2> QED
    BY <1>4, <2>1
<1> QED
  BY <1>1, <1>3, <1>5, <1>6

Events == [speed : DOMAIN Worth \union {"N/A"}, finished : BOOLEAN]

LEMMA SpeedNat ==
  ASSUME NEW value \in DOMAIN Worth \union {"N/A"}
  PROVE  Speed(value) \in Nat
BY ProgressAssumption DEF Speed

Summaries == [sum : Nat, count : Nat, finished : BOOLEAN]

(* The summary of one more event. *)
Counted(sum, event) ==
    [sum |-> sum.sum + Speed(event.speed),
     count |-> sum.count + (IF event.speed = "N/A" THEN 0 ELSE 1),
     finished |-> sum.finished \/ event.finished]

LEMMA RecordNone ==
  ASSUME NEW sum \in Summaries
  PROVE  Record(sum, <<>>) = sum
<1> DEFINE none == <<>>
<1>1. /\ [i \in 1..Len(none) |-> Speed(none[i].speed)] = <<>>
      /\ [i \in 1..Len(none) |-> IF none[i].speed = "N/A" THEN 0 ELSE 1] = <<>>
      /\ ~ \E i \in 1..Len(none) : none[i].finished
  OBVIOUS
<1>2. Record(sum, none) = [sum |-> sum.sum + 0, count |-> sum.count + 0,
                           finished |-> sum.finished \/ FALSE]
  BY <1>1, SumEmpty DEF Record
<1> QED
  BY <1>2 DEF Summaries

LEMMA RecordStep ==
  ASSUME NEW sum \in Summaries, NEW events \in Seq(Events), NEW event \in Events
  PROVE  /\ Record(sum, events) \in Summaries
         /\ Record(sum, Append(events, event)) = Counted(Record(sum, events), event)
<1> DEFINE more == Append(events, event)
           n == Len(events)
           Speeds(es) == [i \in 1..Len(es) |-> Speed(es[i].speed)]
           Counts(es) == [i \in 1..Len(es) |-> IF es[i].speed = "N/A" THEN 0 ELSE 1]
<1>1. /\ n \in Nat /\ Len(more) = n + 1 /\ more[n + 1] = event
      /\ \A i \in 1..n : more[i] = events[i] /\ events[i] \in Events
      /\ \A i \in 1 .. n + 1 : more[i] \in Events
  OBVIOUS
<1> HIDE DEF more
<1>2. \A e \in Events : Speed(e.speed) \in Nat /\ e.finished \in BOOLEAN
  BY SpeedNat DEF Events
<1>3. /\ Speeds(events) \in [1..n -> Nat] /\ Speeds(more) \in [1 .. n + 1 -> Nat]
      /\ \A i \in 1..n : Speeds(more)[i] = Speeds(events)[i]
      /\ Speeds(more)[n + 1] = Speed(event.speed)
  BY <1>1, <1>2
<1>4. /\ Counts(events) \in [1..n -> Nat] /\ Counts(more) \in [1 .. n + 1 -> Nat]
      /\ \A i \in 1..n : Counts(more)[i] = Counts(events)[i]
      /\ Counts(more)[n + 1] = IF event.speed = "N/A" THEN 0 ELSE 1
  BY <1>1
<1>5. (\E i \in 1 .. n + 1 : more[i].finished)
        <=> (\E i \in 1..n : events[i].finished) \/ event.finished
  <2>1. \A i : i \in 1 .. n + 1 <=> i \in 1..n \/ i = n + 1
    BY <1>1
  <2> QED
    BY <1>1, <2>1
<1> HIDE DEF Speeds, Counts, n
<1>6. Sum(Speeds(more)) = Sum(Speeds(events)) + Speed(event.speed)
  BY <1>1, <1>3, SumStep
<1>7. Sum(Counts(more)) = Sum(Counts(events)) + (IF event.speed = "N/A" THEN 0 ELSE 1)
  BY <1>1, <1>4, SumStep
<1>8. Sum(Speeds(events)) \in Nat /\ Sum(Counts(events)) \in Nat
  BY <1>1, <1>3, <1>4, SumNat
<1>9. Record(sum, events)
        = [sum |-> sum.sum + Sum(Speeds(events)),
           count |-> sum.count + Sum(Counts(events)),
           finished |-> sum.finished \/ \E i \in 1..n : events[i].finished]
  BY DEF Record, Speeds, Counts, n
<1>10. Record(sum, more)
        = [sum |-> sum.sum + Sum(Speeds(more)),
           count |-> sum.count + Sum(Counts(more)),
           finished |-> sum.finished \/ \E i \in 1 .. n + 1 : more[i].finished]
  BY <1>1 DEF Record, Speeds, Counts
<1>11. sum.sum \in Nat /\ sum.count \in Nat /\ sum.finished \in BOOLEAN
  BY DEF Summaries
<1>12. Record(sum, events) \in Summaries
  <2>1. (sum.finished \/ \E i \in 1..n : events[i].finished) \in BOOLEAN
    OBVIOUS
  <2> QED
    BY <1>8, <1>9, <1>11, <2>1 DEF Summaries
<1>13. Record(sum, more) = Counted(Record(sum, events), event)
  <2>1. /\ sum.sum + Sum(Speeds(more))
             = Record(sum, events).sum + Speed(event.speed)
        /\ sum.count + Sum(Counts(more))
             = Record(sum, events).count + (IF event.speed = "N/A" THEN 0 ELSE 1)
    BY <1>2, <1>6, <1>7, <1>8, <1>9, <1>11
  <2>2. (sum.finished \/ \E i \in 1 .. n + 1 : more[i].finished)
          = (Record(sum, events).finished \/ event.finished)
    <3>1. Record(sum, events).finished
            = (sum.finished \/ \E i \in 1..n : events[i].finished)
      BY <1>9
    <3> QED
      BY <1>5, <3>1, Zenon
  <2> QED
    BY <1>10, <2>1, <2>2 DEF Counted
<1> QED
  BY <1>12, <1>13 DEF more

LEMMA SummaryNone ==
  SummaryOf(0) = [sum |-> 0, count |-> 0, finished |-> FALSE]
<1>1. Timed(0) = {} /\ 1..0 = {}
  BY DEF Timed
<1>2. [i \in 1..0 |-> IF i \in Timed(0) THEN Speed(BlockSpeed(i)) ELSE 0] = <<>>
  OBVIOUS
<1> QED
  BY <1>1, <1>2, SumEmpty, FS_EmptySet DEF SummaryOf

(* A complete block adds itself to the summary, another line nothing.      *)
LEMMA SummaryStep ==
  ASSUME NEW n \in Nat, \A i \in 1 .. n + 1 : SoundLine(i)
  PROVE  /\ SummaryOf(n) \in Summaries
         /\ Marker(n + 1) =>
              SummaryOf(n + 1)
                = Counted(SummaryOf(n), [speed |-> BlockSpeed(n + 1),
                                         finished |-> script[n + 1].value = "end"])
         /\ ~Marker(n + 1) => SummaryOf(n + 1) = SummaryOf(n)
<1> DEFINE Speeds(m) == [i \in 1..m |-> IF i \in Timed(m) THEN Speed(BlockSpeed(i)) ELSE 0]
<1>1. ASSUME NEW i \in 1 .. n + 1, Marker(i)
      PROVE  BlockSpeed(i) \in DOMAIN Worth \union {"N/A"}
  BY <1>1 DEF SoundLine, BlockSpeed, Numbers
<1>2. Timed(n + 1) = IF Marker(n + 1) /\ BlockSpeed(n + 1) # "N/A"
                     THEN Timed(n) \union {n + 1} ELSE Timed(n)
  <2>1. \A i : i \in 1 .. n + 1 <=> i \in 1..n \/ i = n + 1
    OBVIOUS
  <2> QED
    BY <2>1 DEF Timed
<1>3. IsFiniteSet(Timed(n)) /\ Cardinality(Timed(n)) \in Nat /\ n + 1 \notin Timed(n)
  <2>1. IsFiniteSet(1..n) /\ Timed(n) \subseteq 1..n
    BY FS_Interval DEF Timed
  <2> QED
    BY <2>1, FS_Subset, FS_CardinalityType
<1>4. Cardinality(Timed(n + 1)) =
        Cardinality(Timed(n))
          + (IF Marker(n + 1) /\ BlockSpeed(n + 1) # "N/A" THEN 1 ELSE 0)
  BY <1>2, <1>3, FS_AddElement
<1>5. /\ Speeds(n) \in [1..n -> Nat] /\ Speeds(n + 1) \in [1 .. n + 1 -> Nat]
      /\ \A i \in 1..n : Speeds(n + 1)[i] = Speeds(n)[i]
      /\ Speeds(n + 1)[n + 1] = IF Marker(n + 1) THEN Speed(BlockSpeed(n + 1)) ELSE 0
  <2>1. \A m \in {n, n + 1} : \A i \in Timed(m) : i \in 1 .. n + 1 /\ Marker(i)
    BY DEF Timed
  <2>2. \A m \in {n, n + 1} : \A i \in Timed(m) : Speed(BlockSpeed(i)) \in Nat
    BY <1>1, <2>1, SpeedNat
  <2>3. Speeds(n) \in [1..n -> Nat] /\ Speeds(n + 1) \in [1 .. n + 1 -> Nat]
    BY <2>2
  <2>4. \A i \in 1..n : i \in Timed(n + 1) <=> i \in Timed(n)
    BY <1>2
  <2>5. Speeds(n + 1)[n + 1] = IF Marker(n + 1) THEN Speed(BlockSpeed(n + 1)) ELSE 0
    BY <1>2, <1>3 DEF Speed
  <2> QED
    BY <2>3, <2>4, <2>5
<1> HIDE DEF Speeds
<1>6. Sum(Speeds(n + 1)) = Sum(Speeds(n)) + Speeds(n + 1)[n + 1] /\ Sum(Speeds(n)) \in Nat
  BY <1>5, SumStep, SumNat
<1>7. (\E i \in 1 .. n + 1 : Marker(i) /\ script[i].value = "end")
        <=> \/ \E i \in 1..n : Marker(i) /\ script[i].value = "end"
            \/ Marker(n + 1) /\ script[n + 1].value = "end"
  <2>1. \A i : i \in 1 .. n + 1 <=> i \in 1..n \/ i = n + 1
    OBVIOUS
  <2> QED
    BY <2>1
<1>8. \A m : SummaryOf(m) = [sum |-> Sum(Speeds(m)), count |-> Cardinality(Timed(m)),
                             finished |-> \E i \in 1..m : Marker(i) /\ script[i].value = "end"]
  BY DEF SummaryOf, Speeds
<1>9. SummaryOf(n) \in Summaries
  BY <1>3, <1>6, <1>8 DEF Summaries
<1>10. ASSUME Marker(n + 1)
       PROVE  SummaryOf(n + 1)
                = Counted(SummaryOf(n), [speed |-> BlockSpeed(n + 1),
                                         finished |-> script[n + 1].value = "end"])
  <2>1. /\ Sum(Speeds(n + 1)) = Sum(Speeds(n)) + Speed(BlockSpeed(n + 1))
        /\ Cardinality(Timed(n + 1)) =
             Cardinality(Timed(n)) + (IF BlockSpeed(n + 1) = "N/A" THEN 0 ELSE 1)
    BY <1>4, <1>5, <1>6, <1>10
  <2>2. (\E i \in 1 .. n + 1 : Marker(i) /\ script[i].value = "end")
          = ((\E i \in 1..n : Marker(i) /\ script[i].value = "end")
              \/ script[n + 1].value = "end")
    BY <1>7, <1>10
  <2> QED
    BY <1>8, <2>1, <2>2 DEF Counted
<1>11. ASSUME ~Marker(n + 1) PROVE SummaryOf(n + 1) = SummaryOf(n)
  <2>1. /\ Sum(Speeds(n + 1)) = Sum(Speeds(n))
        /\ Cardinality(Timed(n + 1)) = Cardinality(Timed(n))
    BY <1>3, <1>4, <1>5, <1>6, <1>11
  <2>2. (\E i \in 1 .. n + 1 : Marker(i) /\ script[i].value = "end")
          = (\E i \in 1..n : Marker(i) /\ script[i].value = "end")
    BY <1>7, <1>11
  <2> QED
    BY <1>8, <2>1, <2>2
<1> QED
  BY <1>9, <1>10, <1>11

-----------------------------------------------------------------------------
(* One unit after another *)

Blocks == UNION {[keys -> STRING] : keys \in SUBSET Numbers}

ParserType == [pending : Seq(Units), block : Blocks, size : Nat,
               events : Seq(Events), ok : BOOLEAN]

(* What a parser that has read up to a place, some of it in this push, has *)
(* in its hands: the unfinished line, the unfinished block, the events of  *)
(* the blocks that were completed in this push.  It has refused a line     *)
(* only if one was not sound.                                              *)
Agrees(parser, place) ==
    LET n == EndedAt(place)
    IN  /\ parser \in ParserType
        /\ parser.ok =>
             /\ \A i \in 1..n : SoundLine(i)
             /\ parser.pending = UnendedAt(place)
             /\ parser.size = SizeOf(n) - SizeOf(Opening(n + 1) - 1)
             /\ \A key \in Numbers :
                  Number(parser, key) = LastOf(key, Opening(n + 1) .. n)
             /\ Record(summary, parser.events) = SummaryOf(n)
        /\ ~parser.ok => \E i \in 1..n : ~SoundLine(i)

LEMMA EmptyBlock == <<>> \in Blocks
<1>1. <<>> \in [1..0 -> STRING] /\ 1..0 = {} /\ {} \in SUBSET Numbers
  OBVIOUS
<1> QED
  BY <1>1 DEF Blocks

LEMMA SizeOfLine ==
  ASSUME NEW line \in Lines
  PROVE  /\ Sum(line.parts) \in Nat
         /\ Size(TextOf(line)) = Sum(line.parts)
         /\ Size(Content(line)) = Sum(line.parts) + (IF line.cr THEN 1 ELSE 0)
<1> DEFINE Sizes(units) == [i \in 1..Len(units) |-> UnitSize(units[i])]
           n == Len(line.parts)
<1>1. n \in Nat \ {0} /\ line.parts \in [1..n -> Nat] /\ line.parts \in Seq(Nat)
  BY LineType
<1>2. Sum(line.parts) \in Nat
  BY <1>1, SumNat
<1>3. /\ Len(TextOf(line)) = n /\ TextOf(line) \in Seq(Units)
      /\ \A i \in 1..n : UnitSize(TextOf(line)[i]) = line.parts[i]
  BY <1>1, TextType DEF TextOf, Text, UnitSize
<1> HIDE DEF n
<1>4. Sizes(TextOf(line)) = line.parts
  <2>1. line.parts = [i \in 1..n |-> line.parts[i]]
    BY <1>1
  <2> QED
    BY <1>3, <2>1
<1>5. Size(TextOf(line)) = Sum(line.parts)
  BY <1>4 DEF Size
<1>6. ASSUME line.cr PROVE Size(Content(line)) = Sum(line.parts) + 1
  <2>1. Content(line) = Append(TextOf(line), Return)
    BY <1>6 DEF Content
  <2>2. Return \in Units /\ UnitSize(Return) = 1
    BY UnitsAre DEF UnitSize, Return
  <2>3. /\ Len(Content(line)) = n + 1 /\ Content(line)[n + 1] = Return
        /\ \A i \in 1..n : Content(line)[i] = TextOf(line)[i]
    BY <1>1, <1>3, <2>1, <2>2
  <2>4. /\ Sizes(Content(line)) \in [1 .. n + 1 -> Nat]
        /\ \A i \in 1..n : Sizes(Content(line))[i] = line.parts[i]
        /\ Sizes(Content(line))[n + 1] = 1
    <3>1. \A i \in 1 .. n + 1 : i \in 1..n \/ i = n + 1
      BY <1>1
    <3> QED
      BY <1>1, <1>3, <2>2, <2>3, <3>1
  <2> HIDE DEF Sizes
  <2>5. Sum(Sizes(Content(line))) = Sum(line.parts) + 1
    BY <1>1, <2>4, SumStep
  <2> QED
    BY <2>5 DEF Size, Sizes
<1> QED
  BY <1>2, <1>5, <1>6 DEF Content

LEMMA SizeNat ==
  ASSUME NEW units \in Seq(Units)
  PROVE  Size(units) \in Nat
<1>1. \A unit \in Units : UnitSize(unit) \in Nat
  <2>1. ASSUME NEW line \in Lines, NEW part \in 1..Len(line.parts)
        PROVE  UnitSize(Text(line, part)) \in Nat
    BY LineType DEF Text, UnitSize
  <2>2. UnitSize(Return) \in Nat /\ UnitSize(Feed) \in Nat
    BY DEF UnitSize, Return, Feed
  <2>3. \A line \in Lines : \A unit \in TextUnits(line) : UnitSize(unit) \in Nat
    BY <2>1, Zenon DEF TextUnits
  <2> QED
    BY <2>2, <2>3, Zenon DEF Units
<1> DEFINE n == Len(units)
           sizes == [i \in 1..n |-> UnitSize(units[i])]
<1>2. n \in Nat /\ sizes \in [1..n -> Nat]
  BY <1>1
<1> HIDE DEF n, sizes
<1>3. Sum(sizes) \in Nat
  BY <1>2, SumNat
<1> QED
  BY <1>3 DEF Size, sizes, n

(* What FinishLine makes of a whole line. *)
LEMMA LineIsUnderstood ==
  ASSUME NEW line \in Lines
  PROVE  /\ Understood(TextOf(line)) /\ TextOf(line)[1].line = line
         /\ (IF Content(line) # <<>> /\ Last(Content(line)) = Return
             THEN Front(Content(line)) ELSE Content(line)) = TextOf(line)
<1>1. Understood(TextOf(line))
  BY DEF Understood
<1>2. /\ TextOf(line) \in Seq(Units) /\ Len(TextOf(line)) = Len(line.parts)
      /\ Len(line.parts) \in Nat \ {0} /\ Content(line) # <<>>
      /\ \A i \in 1..Len(line.parts) : TextOf(line)[i] = Text(line, i)
  BY TextType, LineType DEF TextOf
<1>3. TextOf(line)[1].line = line
  <2>1. 1 \in 1..Len(line.parts)
    BY <1>2
  <2> QED
    BY <2>1, LineType DEF TextOf, Text
<1>4. CASE line.cr
  <2>1. Content(line) = Append(TextOf(line), Return) /\ Return \in Units
    BY <1>4, UnitsAre DEF Content
  <2>2. Last(Content(line)) = Return
    BY <1>2, <2>1 DEF Last
  <2>3. Front(Content(line)) = TextOf(line)
    BY <1>2, <2>1 DEF Front
  <2> QED
    BY <1>1, <1>2, <1>3, <2>2, <2>3
<1>5. CASE ~line.cr
  <2>1. Content(line) = TextOf(line)
    BY <1>5 DEF Content
  <2>2. Last(TextOf(line)).kind = "text"
    <3>1. Len(line.parts) \in 1..Len(line.parts)
      BY <1>2
    <3> QED
      BY <1>2, <3>1, LineType DEF Last, TextOf, Text
  <2>3. Last(Content(line)) # Return
    BY <2>1, <2>2 DEF Return
  <2> QED
    BY <1>1, <1>3, <2>1, <2>3
<1> QED
  BY <1>4, <1>5

LEMMA FinishLineAgrees ==
  ASSUME script \in Seq(Lines), summary \in Summaries,
         NEW place \in 0 .. Len(Stream) - 1, Stream[place + 1] = Feed,
         NEW parser, Agrees(parser, place), parser.ok
  PROVE  Agrees(FinishLine(parser), place + 1)
<1> DEFINE n == EndedAt(place)
           line == script[n + 1]
           cleared == [parser EXCEPT !.pending = <<>>]
           counted == [cleared EXCEPT !.size = @ + Sum(line.parts) + 1]
<1>1. /\ n \in 0 .. Len(script) - 1 /\ line \in Lines /\ EndedAt(place + 1) = n + 1
      /\ UnendedAt(place) = Content(line) /\ UnendedAt(place + 1) = <<>>
  BY NextUnit
<1>2. /\ parser \in ParserType /\ parser.pending = Content(line)
      /\ \A i \in 1..n : SoundLine(i)
      /\ parser.size = SizeOf(n) - SizeOf(Opening(n + 1) - 1)
      /\ \A key \in Numbers : Number(parser, key) = LastOf(key, Opening(n + 1) .. n)
      /\ Record(summary, parser.events) = SummaryOf(n)
  BY <1>1 DEF Agrees
<1>3. /\ line.key \in STRING /\ line.value \in STRING /\ line.cr \in BOOLEAN
      /\ Sum(line.parts) \in Nat /\ Limit \in Nat
  BY <1>1, LineType, SizeOfLine, ProgressAssumption
<1> HIDE DEF n, line
<1>4. n \in Nat /\ n + 1 \in Nat
  BY <1>1
<1>5. cleared \in ParserType /\ counted \in ParserType /\ parser.size \in Nat
  <2>1. <<>> \in Seq(Units)
    OBVIOUS
  <2>2. parser.size \in Nat /\ parser.size + Sum(line.parts) + 1 \in Nat
    BY <1>2, <1>3 DEF ParserType
  <2> QED
    BY <1>2, <2>1, <2>2 DEF ParserType
<1>6. /\ counted.pending = <<>> /\ counted.block = parser.block
      /\ counted.events = parser.events /\ counted.ok
      /\ counted.size = parser.size + Sum(line.parts) + 1
      /\ cleared.size = parser.size
  BY <1>2 DEF ParserType
<1>7. counted.size = SizeOf(n + 1) - SizeOf(Opening(n + 1) - 1)
  <2>1. SizeOf(n + 1) = SizeOf(n) + Sum(line.parts) + 1 /\ SizeOf(n) \in Nat
    BY <1>1, SizeOfStep DEF line
  <2>2. SizeOf(Opening(n + 1) - 1) \in Nat
    <3>1. Opening(n + 1) - 1 \in 0..Len(script)
      BY <1>1, <1>4, OpeningStep
    <3> QED
      BY <3>1, SizeOfStep
  <2> QED
    BY <1>2, <1>3, <1>6, <2>1, <2>2
<1> HIDE DEF cleared, counted
<1>8. \A key \in Numbers :
        LastOf(key, Opening(n + 1) .. n + 1) =
          IF line.key = key THEN line.value ELSE Number(parser, key)
  BY <1>2, <1>4, OpeningStep, LastOfStep DEF line
<1>9. SoundLine(n + 1) <=>
        /\ counted.size <= Limit
        /\ line.key \in Numbers => line.value # Garbled
        /\ line.key = "progress" =>
             /\ line.value \in {"continue", "end"}
             /\ \A key \in Numbers : Number(parser, key) \in DOMAIN Worth \union {"N/A"}
  <2>1. Marker(n + 1) <=> line.key = "progress"
    BY DEF Marker, line
  <2>2. line.key = "progress" =>
          \A key \in Numbers : LastOf(key, Opening(n + 1) .. n + 1) = Number(parser, key)
    BY <1>8 DEF Numbers
  <2> QED
    BY <1>7, <2>1, <2>2 DEF SoundLine, line
<1>10. ASSUME NEW refused \in ParserType, ~refused.ok, ~SoundLine(n + 1)
       PROVE  Agrees(refused, place + 1)
  <2>1. n + 1 \in 1 .. n + 1
    BY <1>4
  <2> QED
    BY <1>1, <1>10, <2>1 DEF Agrees
<1>11. Refused(parser) \in ParserType /\ ~Refused(parser).ok
       /\ Refused(counted) \in ParserType /\ ~Refused(counted).ok
  BY <1>2, <1>5 DEF Refused, ParserType
<1>12. FinishLine(parser) =
         IF Size(Content(line)) > Limit THEN Refused(parser)
         ELSE ConsumeLine(cleared, TextOf(line))
  BY <1>1, <1>2, LineIsUnderstood DEF FinishLine, cleared
<1>13. CASE Size(Content(line)) > Limit
  <2>1. counted.size > Limit
    BY <1>1, <1>3, <1>5, <1>6, <1>13, SizeOfLine
  <2>2. ~SoundLine(n + 1)
    BY <1>3, <1>5, <1>6, <1>9, <2>1
  <2> QED
    BY <1>10, <1>11, <1>12, <1>13, <2>2
<1>14. CASE ~(Size(Content(line)) > Limit)
  <2>1. FinishLine(parser) = ConsumeLine(cleared, TextOf(line))
    BY <1>12, <1>14
  <2>2. /\ Understood(TextOf(line)) /\ TextOf(line)[1].line = line
        /\ counted = [cleared EXCEPT !.size = @ + Size(TextOf(line)) + 1]
    BY <1>1, LineIsUnderstood, SizeOfLine DEF counted
  <2>3. ConsumeLine(cleared, TextOf(line)) =
          IF counted.size > Limit THEN Refused(counted) ELSE Take(counted, line)
    BY <2>2, Zenon DEF ConsumeLine
  <2>7. /\ line.key = "progress" => Take(counted, line) = Emit(counted, line.value)
        /\ line.key \in Numbers => line.key # "progress"
        /\ line.key \in Numbers /\ line.value = Garbled =>
             Take(counted, line) = Refused(counted)
        /\ line.key \in Numbers /\ line.value # Garbled =>
             Take(counted, line) = Insert(counted, line.key, line.value)
        /\ line.key \notin Numbers \union {"progress"} => Take(counted, line) = counted
    BY DEF Take, Numbers
  <2>4. CASE counted.size > Limit
    BY <1>3, <1>5, <1>6, <1>9, <1>10, <1>11, <2>1, <2>3, <2>4
  <2>5. CASE counted.size <= Limit
    <3>1. FinishLine(parser) = Take(counted, line)
      BY <1>3, <1>5, <1>6, <2>1, <2>3, <2>5
    <3>2. \A key : Number(counted, key) = Number(parser, key)
      BY <1>6 DEF Number
    <3>5. Marker(n + 1) <=> line.key = "progress"
      BY DEF Marker, line
    <3>3. CASE ~SoundLine(n + 1)
      <4>1. \/ line.key = "progress"
            \/ line.key \in Numbers /\ line.value = Garbled
        BY <1>9, <2>5, <3>3
      <4>2. line.key = "progress" => Emit(counted, line.value) = Refused(counted)
        BY <1>9, <2>5, <2>7, <3>2, <3>3 DEF Emit
      <4>3. Take(counted, line) = Refused(counted)
        BY <2>7, <4>1, <4>2
      <4> QED
        BY <1>10, <1>11, <3>1, <3>3, <4>3
    <3>4. CASE SoundLine(n + 1)
      <4>1. \A i \in 1 .. n + 1 : SoundLine(i)
        BY <1>2, <1>4, <3>4
      <4>2. CASE line.key = "progress"
        <5> DEFINE event == [speed |-> Number(parser, "speed"),
                             finished |-> line.value = "end"]
                   emitted == [counted EXCEPT !.block = <<>>, !.size = 0,
                                              !.events = Append(@, event)]
        <5>1. event \in Events
          BY <1>9, <3>4, <4>2 DEF Events, Numbers
        <5>2. FinishLine(parser) = emitted
          BY <1>9, <2>7, <3>1, <3>2, <3>4, <4>2 DEF Emit
        <5>3. /\ emitted \in ParserType /\ emitted.ok /\ emitted.pending = <<>>
              /\ emitted.block = <<>> /\ emitted.size = 0
              /\ emitted.events = Append(parser.events, event)
          <6>1. <<>> \in Blocks
            BY EmptyBlock
          <6>2. Append(counted.events, event) \in Seq(Events)
            BY <1>5, <5>1 DEF ParserType
          <6> QED
            BY <1>5, <1>6, <6>1, <6>2 DEF ParserType
        <5>4. /\ Opening(n + 2) = n + 2 /\ n + 1 + 1 = n + 2
              /\ SizeOf(n + 1) - SizeOf(Opening(n + 2) - 1) = 0
          <6>1. Opening(n + 2) = n + 2
            BY <1>4, <3>5, <4>2, OpeningStep
          <6>2. SizeOf(n + 1) \in Nat /\ n + 2 - 1 = n + 1 /\ n + 1 + 1 = n + 2
            BY <1>1, <1>4, SizeOfStep
          <6>3. Opening(n + 2) - 1 = n + 1
            BY <1>4, <6>1
          <6> QED
            BY <6>1, <6>2, <6>3
        <5>5. \A key \in Numbers :
                Number(emitted, key) = LastOf(key, Opening(n + 2) .. n + 1)
          <6>1. \A key : Number(emitted, key) = "N/A"
            BY <5>3 DEF Number
          <6>2. n + 1 \in Nat /\ n + 1 + 1 \in 1 .. n + 1 + 1
            BY <1>4
          <6>3. \A key : LastOf(key, n + 1 + 1 .. n + 1) = "N/A"
            BY <6>2, LastOfStep
          <6> QED
            BY <5>4, <6>1, <6>3
        <5>6. Record(summary, emitted.events) = SummaryOf(n + 1)
          <6>1. parser.events \in Seq(Events)
            BY <1>2 DEF ParserType
          <6>2. Record(summary, emitted.events) = Counted(SummaryOf(n), event)
            BY <1>2, <5>1, <5>3, <6>1, RecordStep
          <6>3. event = [speed |-> BlockSpeed(n + 1),
                         finished |-> script[n + 1].value = "end"]
            BY <1>8, <4>2 DEF BlockSpeed, Numbers, line
          <6> QED
            BY <1>4, <3>5, <4>1, <4>2, <6>2, <6>3, SummaryStep
        <5> HIDE DEF event, emitted
        <5> QED
          BY <1>1, <4>1, <5>2, <5>3, <5>4, <5>5, <5>6 DEF Agrees
      <4>3. CASE line.key # "progress"
        <5> DEFINE inHand == Take(counted, line)
        <5>1. /\ inHand \in ParserType /\ inHand.ok /\ inHand.pending = <<>>
              /\ inHand.size = counted.size /\ inHand.events = parser.events
              /\ \A key \in Numbers : Number(inHand, key) =
                   IF line.key = key THEN line.value ELSE Number(parser, key)
          <6>1. CASE line.key \in Numbers
            <7> DEFINE inserted ==
                         [k \in DOMAIN counted.block \union {line.key} |->
                            IF k = line.key THEN line.value ELSE counted.block[k]]
            <7>1. PICK keys \in SUBSET Numbers : counted.block \in [keys -> STRING]
              BY <1>5 DEF ParserType, Blocks
            <7>2. inserted \in [keys \union {line.key} -> STRING]
              BY <1>3, <7>1
            <7>3. inserted \in Blocks
              BY <6>1, <7>1, <7>2 DEF Blocks
            <7>4. /\ DOMAIN inserted = DOMAIN parser.block \union {line.key}
                  /\ \A k \in DOMAIN inserted :
                       inserted[k] = IF k = line.key THEN line.value ELSE parser.block[k]
              BY <1>6
            <7> HIDE DEF inserted
            <7>5. inHand = [counted EXCEPT !.block = inserted]
              BY <1>9, <2>7, <3>4, <6>1 DEF Insert, inserted
            <7>6. /\ inHand \in ParserType /\ inHand.block = inserted /\ inHand.ok
                  /\ inHand.pending = <<>> /\ inHand.size = counted.size
                  /\ inHand.events = parser.events
              BY <1>5, <1>6, <7>3, <7>5 DEF ParserType
            <7> HIDE DEF inHand
            <7>7. \A key \in Numbers : Number(inHand, key) =
                    IF line.key = key THEN line.value ELSE Number(parser, key)
              BY <7>4, <7>6 DEF Number
            <7> QED
              BY <7>6, <7>7
          <6>2. CASE line.key \notin Numbers
            BY <1>5, <1>6, <2>7, <3>2, <4>3, <6>2
          <6> QED
            BY <6>1, <6>2
        <5>2. Opening(n + 2) = Opening(n + 1) /\ n + 1 + 1 = n + 2
          BY <1>4, <3>5, <4>3, OpeningStep
        <5>3. SummaryOf(n + 1) = SummaryOf(n)
          BY <1>4, <3>5, <4>1, <4>3, SummaryStep
        <5> HIDE DEF inHand
        <5>4. FinishLine(parser) = inHand
          BY <3>1 DEF inHand
        <5> QED
          BY <1>1, <1>2, <1>7, <1>8, <4>1, <5>1, <5>2, <5>3, <5>4 DEF Agrees
      <4> QED
        BY <4>2, <4>3
    <3> QED
      BY <3>3, <3>4
  <2>6. counted.size <= Limit \/ counted.size > Limit
    BY <1>3, <1>5, <1>6
  <2> QED
    BY <2>4, <2>5, <2>6
<1> QED
  BY <1>13, <1>14

LEMMA PushUnitAgrees ==
  ASSUME script \in Seq(Lines), summary \in Summaries,
         NEW place \in 0 .. Len(Stream) - 1, NEW parser, Agrees(parser, place)
  PROVE  Agrees(PushUnit(parser, Stream[place + 1]), place + 1)
<1> DEFINE n == EndedAt(place)
           unit == Stream[place + 1]
<1>1. /\ n \in 0 .. Len(script) - 1 /\ EndedAt(place + 1) \in {n, n + 1}
      /\ unit # Feed => /\ EndedAt(place + 1) = n
                        /\ UnendedAt(place + 1) = Append(UnendedAt(place), unit)
  BY NextUnit
<1>2. parser \in ParserType /\ parser.ok \in BOOLEAN
  BY DEF Agrees, ParserType
<1>3. CASE ~parser.ok
  <2>1. PICK i \in 1..n : ~SoundLine(i)
    BY <1>3 DEF Agrees
  <2>2. i \in 1..EndedAt(place + 1)
    BY <1>1
  <2>3. PushUnit(parser, unit) = parser
    BY <1>3 DEF PushUnit
  <2> QED
    BY <1>2, <1>3, <2>1, <2>2, <2>3 DEF Agrees
<1>4. CASE parser.ok /\ unit = Feed
  <2>1. PushUnit(parser, unit) = FinishLine(parser)
    BY <1>4 DEF PushUnit
  <2> QED
    BY <1>4, <2>1, FinishLineAgrees
<1>5. CASE parser.ok /\ unit # Feed
  <2> DEFINE longer == [parser EXCEPT !.pending = Append(@, unit)]
  <2>1. PushUnit(parser, unit) = longer
    BY <1>5 DEF PushUnit
  <2>2. unit \in Units
    <3>1. Stream \in Seq(Units)
      BY EndStep DEF Stream
    <3> QED
      BY <3>1
  <2>3. /\ longer \in ParserType /\ longer.ok /\ longer.size = parser.size
        /\ longer.block = parser.block /\ longer.events = parser.events
        /\ longer.pending = Append(parser.pending, unit)
    <3>1. parser.pending \in Seq(Units)
      BY <1>2 DEF ParserType
    <3> HIDE DEF unit
    <3>2. Append(parser.pending, unit) \in Seq(Units)
      BY <2>2, <3>1
    <3> QED
      BY <1>2, <1>5, <3>2 DEF ParserType
  <2> HIDE DEF longer, unit, n
  <2>4. \A key : Number(longer, key) = Number(parser, key)
    BY <2>3 DEF Number
  <2> QED
    BY <1>1, <1>5, <2>1, <2>3, <2>4 DEF Agrees, n, unit
<1> QED
  BY <1>2, <1>3, <1>4, <1>5

(* The states of a parser while the n units of a piece are pushed. *)
Pushing(f, parser, piece, n) ==
    /\ f[0] = parser /\ \A i \in 1..n : f[i] = PushUnit(f[i - 1], piece[i])
    /\ Push(parser, piece) = IF Size(f[n].pending) > Limit THEN Refused(f[n]) ELSE f[n]

LEMMA PushDef ==
  ASSUME NEW parser, NEW piece, NEW n \in Nat, Len(piece) = n
  PROVE  \E f : Pushing(f, parser, piece, n)
<1> DEFINE S == {m \in Nat :
                   \E f : f = [i \in 0..m |->
                                 IF i = 0 THEN parser ELSE PushUnit(f[i - 1], piece[i])]}
<1>1. 0 \in S
  <2> DEFINE f == [i \in 0..0 |-> parser]
  <2>1. f = [i \in 0..0 |-> IF i = 0 THEN parser ELSE PushUnit(f[i - 1], piece[i])]
    OBVIOUS
  <2> QED
    BY <2>1
<1>2. ASSUME NEW m \in Nat, m \in S PROVE m + 1 \in S
  <2>1. PICK f : f = [i \in 0..m |->
                        IF i = 0 THEN parser ELSE PushUnit(f[i - 1], piece[i])]
    BY <1>2
  <2> DEFINE g == [i \in 0 .. m + 1 |->
                     IF i = m + 1 THEN PushUnit(f[m], piece[m + 1]) ELSE f[i]]
  <2>2. ASSUME NEW i \in 0 .. m + 1
        PROVE  g[i] = IF i = 0 THEN parser ELSE PushUnit(g[i - 1], piece[i])
    <3>1. CASE i = m + 1
      BY <3>1
    <3>2. CASE i # m + 1
      BY <2>1, <3>2
    <3> QED
      BY <3>1, <3>2
  <2>3. g = [i \in 0 .. m + 1 |->
               IF i = 0 THEN parser ELSE PushUnit(g[i - 1], piece[i])]
    <3> HIDE DEF g
    <3> SUFFICES g = [i \in 0 .. m + 1 |-> g[i]]
      BY <2>2
    <3> QED
      BY DEF g
  <2> HIDE DEF g
  <2> QED
    BY <2>3
<1> HIDE DEF S
<1>3. n \in S
  BY <1>1, <1>2, Induction
<1>4. \E g : g = [i \in 0..n |-> IF i = 0 THEN parser ELSE PushUnit(g[i - 1], piece[i])]
  BY <1>3 DEF S
<1> DEFINE f == CHOOSE g : g = [i \in 0..n |->
                                  IF i = 0 THEN parser ELSE PushUnit(g[i - 1], piece[i])]
<1>5. f = [i \in 0..n |-> IF i = 0 THEN parser ELSE PushUnit(f[i - 1], piece[i])]
  BY <1>4
<1>6. Push(parser, piece) = IF Size(f[n].pending) > Limit THEN Refused(f[n]) ELSE f[n]
  BY DEF Push
<1> HIDE DEF f
<1>7. f[0] = parser /\ \A i \in 1..n : f[i] = PushUnit(f[i - 1], piece[i])
  BY <1>5
<1> QED
  BY <1>6, <1>7 DEF Pushing

(* A push takes the parser from where it was to the end of the piece; only *)
(* then is what is pending held to the limit.                              *)
LEMMA PushAgrees ==
  ASSUME script \in Seq(Lines), summary \in Summaries,
         NEW a \in 0..Len(Stream), NEW b \in a..Len(Stream),
         NEW parser, Agrees(parser, a)
  PROVE  \E last : /\ Agrees(last, b)
                   /\ Push(parser, SubSeq(Stream, a + 1, b)) =
                        IF Size(last.pending) > Limit THEN Refused(last) ELSE last
<1> DEFINE piece == SubSeq(Stream, a + 1, b)
           n == b - a
<1>1. Stream \in Seq(Units) /\ a \in Nat /\ b \in Nat /\ n \in Nat
  BY EndStep DEF Stream
<1>2. Len(piece) = n /\ \A i \in 1..n : piece[i] = Stream[a + i]
  BY <1>1
<1> HIDE DEF piece
<1>3. PICK f : Pushing(f, parser, piece, n)
  <2>1. n \in Nat
    BY <1>1
  <2>2. Len(piece) = n
    BY <1>2
  <2> HIDE DEF n
  <2> QED
    BY <2>1, <2>2, PushDef
<1>4. /\ f[0] = parser /\ \A i \in 1..n : f[i] = PushUnit(f[i - 1], piece[i])
      /\ Push(parser, piece) =
           IF Size(f[n].pending) > Limit THEN Refused(f[n]) ELSE f[n]
  BY <1>3 DEF Pushing
<1> DEFINE S == {i \in Nat : i <= n => Agrees(f[i], a + i)}
<1>5. 0 \in S
  BY <1>1, <1>4
<1>6. ASSUME NEW i \in Nat, i \in S PROVE i + 1 \in S
  <2> SUFFICES ASSUME i + 1 <= n PROVE Agrees(f[i + 1], a + (i + 1))
    OBVIOUS
  <2>1. /\ i + 1 \in 1..n /\ i + 1 - 1 = i /\ a + i \in 0 .. Len(Stream) - 1
        /\ a + i + 1 = a + (i + 1) /\ Agrees(f[i], a + i)
    BY <1>1, <1>6
  <2>2. f[i + 1] = PushUnit(f[i], Stream[a + i + 1])
    BY <1>2, <1>4, <2>1
  <2>3. Agrees(PushUnit(f[i], Stream[a + i + 1]), a + i + 1)
    BY <2>1, PushUnitAgrees
  <2> QED
    BY <2>1, <2>2, <2>3
<1> HIDE DEF S
<1>7. n \in S
  BY <1>1, <1>5, <1>6, Induction
<1>8. Agrees(f[n], b)
  <2>1. a + n = b
    BY <1>1
  <2> QED
    BY <1>1, <1>7, <2>1 DEF S
<1> QED
  BY <1>4, <1>8 DEF piece

-----------------------------------------------------------------------------
(* drain_progress *)

(* What FFmpeg writes does not change, so neither does what it means.      *)
LEMMA SameScript ==
  ASSUME script' = script
  PROVE  /\ Stream' = Stream
         /\ \A place : EndedAt(place)' = EndedAt(place)
         /\ \A place : UnendedAt(place)' = UnendedAt(place)
         /\ \A i : SoundLine(i)' <=> SoundLine(i)
         /\ \A i : Opening(i)' = Opening(i)
         /\ \A n : SizeOf(n)' = SizeOf(n)
         /\ \A key, lines : LastOf(key, lines)' = LastOf(key, lines)
         /\ \A n : SummaryOf(n)' = SummaryOf(n)
<1>1. \A n : Output(n)' = Output(n)
  BY DEF Output
<1>2. Stream' = Stream /\ \A n : End(n)' = End(n)
  BY <1>1 DEF Stream, End
<1>3. \A place : EndedAt(place)' = EndedAt(place)
  BY <1>2 DEF EndedAt
<1>4. \A place : UnendedAt(place)' = UnendedAt(place)
  BY <1>2, <1>3 DEF UnendedAt
<1>5. \A i : Marker(i)' <=> Marker(i)
  BY DEF Marker
<1>6. \A i : Opening(i)' = Opening(i)
  BY <1>5 DEF Opening
<1>7. \A key, lines : LastOf(key, lines)' = LastOf(key, lines)
  BY DEF LastOf
<1>8. \A n : SizeOf(n)' = SizeOf(n)
  BY DEF SizeOf
<1>9. \A i : SoundLine(i)' <=> SoundLine(i)
  BY <1>5, <1>6, <1>7, <1>8 DEF SoundLine
<1>10. \A i : BlockSpeed(i)' = BlockSpeed(i)
  BY <1>6, <1>7 DEF BlockSpeed
<1>11. \A n : Timed(n)' = Timed(n)
  BY <1>5, <1>10 DEF Timed
<1>12. \A n : SummaryOf(n)' = SummaryOf(n)
  BY <1>5, <1>10, <1>11 DEF SummaryOf
<1> QED
  BY <1>2, <1>3, <1>4, <1>6, <1>7, <1>8, <1>9, <1>12

(* The inductive invariant: while the parser is alive it agrees with what  *)
(* was read.                                                               *)
DrainInv ==
    /\ script \in Seq(Lines) /\ Len(script) <= MaxLines
    /\ taken \in 0..Len(Stream)
    /\ summary \in Summaries
    /\ drained \in {"none", "summary", "progress error", "io error"}
    /\ drained # "progress error" => Agrees(Parser, taken) /\ Size(pending) <= Limit
    /\ drained = "progress error" => ~Sound /\ block = <<>> /\ blockSize = 0

LEMMA ParserIs ==
  /\ Parser.pending = pending /\ Parser.block = block /\ Parser.size = blockSize
  /\ Parser.events = <<>> /\ Parser.ok
BY DEF Parser

LEMMA InvGivesSummary ==
  ASSUME DrainInv
  PROVE  SummaryIsOfTheStream
<1>1. ASSUME drained = "summary" PROVE Sound /\ summary = SummaryOf(Ended)
  <2>1. Agrees(Parser, taken) /\ Size(pending) <= Limit /\ summary \in Summaries
    BY <1>1 DEF DrainInv
  <2>2. /\ \A i \in 1..Ended : SoundLine(i)
        /\ pending = Unended /\ Record(summary, <<>>) = SummaryOf(Ended)
    BY <2>1, ParserIs DEF Agrees, Ended, Unended, UnendedAt
  <2> QED
    BY <2>1, <2>2, RecordNone DEF Sound
<1> QED
  BY <1>1 DEF DrainInv, SummaryIsOfTheStream

LEMMA InvGivesType ==
  ASSUME DrainInv
  PROVE  ProgressTypeOK
<1>1. ASSUME drained # "progress error"
      PROVE  DOMAIN block \subseteq Numbers /\ blockSize \in Nat
  <2>1. Parser \in ParserType
    BY <1>1 DEF DrainInv, Agrees
  <2>2. block \in Blocks /\ blockSize \in Nat
    BY <2>1, ParserIs DEF ParserType
  <2> QED
    BY <2>2 DEF Blocks
<1>2. ASSUME drained = "progress error"
      PROVE  DOMAIN block \subseteq Numbers /\ blockSize \in Nat
  <2>1. block = <<>> /\ blockSize = 0
    BY <1>2 DEF DrainInv
  <2> QED
    BY <2>1
<1> QED
  BY <1>1, <1>2 DEF DrainInv, ProgressTypeOK, Summaries

LEMMA InitInv ==
  ASSUME ProgressInit
  PROVE  DrainInv
<1>1. script \in Seq(Lines) /\ Len(script) <= MaxLines
  <2>1. PICK n \in 0..MaxLines : script \in [1..n -> Lines]
    BY DEF ProgressInit
  <2> QED
    BY <2>1, ProgressAssumption
<1>2. End(0) = 0 /\ Len(Stream) \in Nat /\ Len(script) \in Nat
  BY <1>1, EndStep DEF Stream
<1>3. EndedAt(0) = 0
  <2>1. ASSUME 0 < Len(script) PROVE 0 < End(0 + 1)
    <3>1. 0 \in 0 .. Len(script) - 1
      BY <1>2, <2>1
    <3>2. End(0 + 1) = End(0) + Len(Written(script[0 + 1])) /\ Len(Written(script[0 + 1])) >= 2
          /\ Written(script[0 + 1]) \in Seq(Units)
      BY <1>1, <3>1, EndStep
    <3> QED
      BY <1>2, <3>2
  <2> QED
    BY <1>1, <1>2, <2>1, EndedAtIs
<1>4. UnendedAt(0) = <<>>
  <2>1. Stream \in Seq(Units)
    BY <1>1, <1>2, EndStep DEF Stream
  <2>2. UnendedAt(0) = SubSeq(Stream, 1, 0)
    BY <1>2, <1>3 DEF UnendedAt
  <2> QED
    BY <2>1, <2>2
<1>5. Opening(0 + 1) = 1 /\ SizeOf(0) = 0
  <2>1. Opening(0 + 1) = 1
    BY OpeningStep
  <2>2. [i \in 1..0 |-> Sum(script[i].parts) + 1] = <<>>
    OBVIOUS
  <2> QED
    BY <2>1, <2>2, SumEmpty DEF SizeOf
<1>6. \A key : LastOf(key, 0 + 1 .. 0) = "N/A"
  BY LastOfStep
<1>7. SummaryOf(0) = summary /\ summary \in Summaries
  BY SummaryNone DEF ProgressInit, Summaries
<1>8. Agrees(Parser, 0)
  <2>1. /\ pending = <<>> /\ block = <<>> /\ blockSize = 0
    BY DEF ProgressInit
  <2>2. Parser \in ParserType
    BY <2>1, EmptyBlock DEF Parser, ParserType
  <2>3. \A key : Number(Parser, key) = "N/A"
    BY <2>1, ParserIs DEF Number
  <2>4. SizeOf(0) - SizeOf(Opening(0 + 1) - 1) = 0
    BY <1>5
  <2>5. Record(summary, Parser.events) = SummaryOf(0)
    BY <1>7, ParserIs, RecordNone
  <2> QED
    BY <1>3, <1>4, <1>5, <1>6, <2>1, <2>2, <2>3, <2>4, <2>5, ParserIs DEF Agrees
<1>9. Size(pending) <= Limit
  <2>1. pending = <<>> /\ Size(<<>>) = Sum(<<>>)
    BY DEF ProgressInit, Size
  <2> QED
    BY <2>1, SumEmpty, ProgressAssumption
<1> QED
  BY <1>1, <1>2, <1>7, <1>8, <1>9 DEF ProgressInit, DrainInv

LEMMA ReadPieceInv ==
  ASSUME DrainInv, ReadPiece
  PROVE  DrainInv'
<1>1. PICK n \in taken + 1 .. Len(Stream) :
        LET parser == Push(Parser, SubSeq(Stream, taken + 1, n))
        IN  /\ taken' = n
            /\ \/ /\ parser.ok
                  /\ pending' = parser.pending
                  /\ block' = parser.block /\ blockSize' = parser.size
                  /\ summary' = Record(summary, parser.events)
                  /\ UNCHANGED drained
               \/ /\ ~parser.ok
                  /\ drained' = "progress error"
                  /\ pending' = <<>> /\ block' = <<>> /\ blockSize' = 0
                  /\ UNCHANGED summary
  BY DEF ReadPiece
<1> DEFINE parser == Push(Parser, SubSeq(Stream, taken + 1, n))
<1>2. /\ script \in Seq(Lines) /\ Len(script) <= MaxLines /\ summary \in Summaries
      /\ taken \in 0..Len(Stream) /\ Agrees(Parser, taken)
      /\ drained = "none" /\ script' = script
  BY DEF DrainInv, ReadPiece
<1>3. n \in taken..Len(Stream) /\ n \in 0..Len(Stream)
  <2>1. Len(Stream) \in Nat
    BY <1>2, EndStep DEF Stream
  <2> QED
    BY <1>2, <2>1
<1>4. PICK last : /\ Agrees(last, n)
                  /\ parser = IF Size(last.pending) > Limit THEN Refused(last) ELSE last
  BY <1>2, <1>3, PushAgrees
<1>5. last \in ParserType /\ Size(last.pending) \in Nat /\ Limit \in Nat
  <2>1. last \in ParserType
    BY <1>4 DEF Agrees
  <2>2. last.pending \in Seq(Units)
    BY <2>1 DEF ParserType
  <2> QED
    BY <2>1, <2>2, SizeNat, ProgressAssumption
<1>6. taken' = n /\ Stream' = Stream
  BY <1>1, <1>2, SameScript
<1> HIDE DEF parser
<1>7. CASE parser.ok
  <2>1. /\ parser = last /\ last.ok /\ Size(last.pending) <= Limit
    BY <1>4, <1>5, <1>7 DEF Refused, ParserType
  <2>2. /\ pending' = last.pending /\ block' = last.block /\ blockSize' = last.size
        /\ summary' = Record(summary, last.events) /\ drained' = "none"
    BY <1>1, <1>2, <1>7, <2>1 DEF parser
  <2>3. summary' \in Summaries
    <3> DEFINE event == [speed |-> "N/A", finished |-> FALSE]
    <3>1. event \in Events /\ last.events \in Seq(Events)
      BY <1>5 DEF Events, ParserType
    <3> HIDE DEF event
    <3> QED
      BY <1>2, <2>2, <3>1, RecordStep
  <2>4. /\ Parser'.pending = last.pending /\ Parser'.block = last.block
        /\ Parser'.size = last.size /\ Parser'.events = <<>> /\ Parser'.ok
        /\ Parser' \in ParserType
    <3>1. <<>> \in Seq(Events)
      OBVIOUS
    <3> QED
      BY <1>5, <2>2, <3>1 DEF Parser, ParserType
  <2>5. Agrees(Parser, taken)'
    <3> DEFINE m == EndedAt(n)
    <3>1. /\ \A i \in 1..m : SoundLine(i)
          /\ last.pending = UnendedAt(n)
          /\ last.size = SizeOf(m) - SizeOf(Opening(m + 1) - 1)
          /\ \A key \in Numbers : Number(last, key) = LastOf(key, Opening(m + 1) .. m)
          /\ Record(summary, last.events) = SummaryOf(m)
      BY <1>4, <2>1 DEF Agrees
    <3>2. \A key : Number(Parser', key) = Number(last, key)
      BY <2>4 DEF Number
    <3>3. Record(summary', <<>>) = SummaryOf(m)
      BY <2>2, <2>3, <3>1, RecordNone
    <3>4. /\ EndedAt(taken)' = m /\ UnendedAt(taken)' = UnendedAt(n)
          /\ \A i : SoundLine(i)' <=> SoundLine(i)
          /\ \A i : Opening(i)' = Opening(i)
          /\ \A i : SizeOf(i)' = SizeOf(i)
          /\ \A key, lines : LastOf(key, lines)' = LastOf(key, lines)
          /\ \A i : SummaryOf(i)' = SummaryOf(i)
      BY <1>2, <1>6, SameScript
    <3> HIDE DEF m
    <3> QED
      BY <2>4, <3>1, <3>2, <3>3, <3>4 DEF Agrees
  <2> QED
    BY <1>2, <1>3, <1>6, <2>1, <2>2, <2>3, <2>5 DEF DrainInv
<1>8. CASE ~parser.ok
  <2>1. /\ drained' = "progress error" /\ block' = <<>> /\ blockSize' = 0
        /\ summary' = summary
    BY <1>1, <1>8 DEF parser
  <2>2. ~Sound'
    <3>1. /\ Ended' = EndedAt(n) /\ Unended' = UnendedAt(n)
          /\ \A i : SoundLine(i)' <=> SoundLine(i)
      BY <1>2, <1>6, SameScript DEF Ended, Unended, UnendedAt
    <3>2. CASE ~last.ok
      <4>1. PICK i \in 1..EndedAt(n) : ~SoundLine(i)
        BY <1>4, <3>2 DEF Agrees
      <4> QED
        BY <3>1, <4>1 DEF Sound
    <3>3. CASE last.ok
      <4>1. Size(last.pending) > Limit
        BY <1>4, <1>8, <3>3
      <4>2. last.pending = UnendedAt(n)
        BY <1>4, <3>3 DEF Agrees
      <4> QED
        BY <1>5, <3>1, <4>1, <4>2 DEF Sound
    <3> QED
      BY <3>2, <3>3
  <2> QED
    BY <1>2, <1>3, <1>6, <2>1, <2>2 DEF DrainInv, Summaries
<1> QED
  BY <1>7, <1>8

(* What does not touch what was read or what is held keeps the invariant.  *)
LEMMA SameInv ==
  ASSUME DrainInv, UNCHANGED <<script, taken, pending, block, blockSize, summary>>,
         drained' = drained \/ (drained = "none" /\ drained' \in {"summary", "io error"})
  PROVE  DrainInv'
<1>1. Stream' = Stream /\ Parser' = Parser
  BY SameScript DEF Parser
<1>2. Agrees(Parser, taken)' <=> Agrees(Parser, taken)
  BY <1>1, SameScript DEF Agrees
<1>3. Sound' <=> Sound
  BY <1>1, SameScript DEF Sound, Ended, Unended, End, Output
<1> QED
  BY <1>1, <1>2, <1>3 DEF DrainInv

LEMMA NextInv ==
  ASSUME DrainInv, [ProgressNext]_progressVars
  PROVE  DrainInv'
<1>1. CASE ReadPiece
  BY <1>1, ReadPieceInv
<1>2. CASE EndOfFile
  BY <1>2, SameInv DEF EndOfFile
<1>3. CASE ReadFails
  BY <1>3, SameInv DEF ReadFails
<1>4. CASE UNCHANGED progressVars
  <2>1. /\ UNCHANGED <<script, taken, pending, block, blockSize, summary>>
        /\ drained' = drained \/ (drained = "none" /\ drained' \in {"summary", "io error"})
    BY <1>4 DEF progressVars
  <2> QED
    BY <2>1, SameInv
<1> QED
  BY <1>1, <1>2, <1>3, <1>4 DEF ProgressNext

-----------------------------------------------------------------------------
(* Results *)

(* After any pieces of any output, a parser that is alive has exactly the  *)
(* unfinished line, the unfinished block and the size that the lines call  *)
(* for, and the summary counts every complete block once.                  *)
THEOREM DrainInvariant == ProgressSpec => []DrainInv
<1>1. ProgressInit => DrainInv
  BY InitInv
<1>2. DrainInv /\ [ProgressNext]_progressVars => DrainInv'
  BY NextInv
<1> QED
  BY <1>1, <1>2, PTL DEF ProgressSpec

(* The parser and the summary of drain_progress have their types.          *)
THEOREM ProgressIsTyped == ProgressSpec => []ProgressTypeOK
<1>1. DrainInv => ProgressTypeOK
  BY InvGivesType
<1> QED
  BY <1>1, DrainInvariant, PTL

(* drain_progress returns the summary of the complete blocks in FFmpeg's   *)
(* output however the pipe cuts it, and fails if and only if the output is *)
(* malformed or too long as such.                                          *)
THEOREM SummaryIsAlwaysOfTheStream == ProgressSpec => []SummaryIsOfTheStream
<1>1. DrainInv => SummaryIsOfTheStream
  BY InvGivesSummary
<1> QED
  BY <1>1, DrainInvariant, PTL

-----------------------------------------------------------------------------
(* The four families together *)

LEMMA FileStep ==
  ASSUME [FileNext]_<<family, vars, progressVars, stagingVars, signingVars>>
  PROVE  /\ [Next]_vars /\ [ProgressNext]_progressVars
         /\ [StagingNext]_stagingVars /\ [SigningNext]_signingVars
  BY DEF FileNext

(* A run of the four families is a run of each: what is proved of one alone *)
(* holds of it.                                                             *)
THEOREM FileRunsAreRuns ==
  FileSpec => Spec /\ ProgressSpec /\ StagingSpec /\ SigningSpec
<1>1. FileInit => Init /\ ProgressInit /\ StagingInit /\ SigningInit
  BY DEF FileInit
<1> QED
  BY <1>1, FileStep, PTL DEF FileSpec, Spec, ProgressSpec, StagingSpec, SigningSpec

(* So everything the run of the four families checks holds for any number  *)
(* of commands, any hardware, output, bundles, targets, builds and jobs.   *)
THEOREM FileRunsAreSafe ==
  ASSUME WithInstaller \subseteq Targets
  PROVE  FileSpec =>
           [](/\ ProofIsOfItsRun /\ AcceptedIsEarned /\ ProvenOutputStays
              /\ SummaryIsOfTheStream /\ PackageSurvives
              /\ PublishedIsWhole /\ AcceptedRowIsOneBuild)
<1>1. SigningSpec => []PublishedIsWhole
  BY PublishedIsAlwaysWhole
<1> QED
  BY <1>1, FileRunsAreRuns, ProofsAreOfTheirRuns, AcceptedIsAlwaysEarned,
     ProvenOutputAlwaysStays, SummaryIsAlwaysOfTheStream, PackageAlwaysSurvives,
     AcceptedRowIsAlwaysOneBuild, PTL
=============================================================================
