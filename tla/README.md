# A verification of Ovayra's Phase 0 code

This directory holds TLA+ specifications of the Rust code of this repository,
configurations that check them with TLC, and proofs checked with TLAPS.  Every
definition is translated from the source; `PROJECT.json` maps each one to the
lines it stands for.

## 1. The system

Phase 0 of Ovayra is a set of feasibility spikes and a gate that decides from
their evidence whether the project goes on.  One binary, `ovayra-spike`, runs
each spike as a command; libraries under `crates/` do the work; every command
leaves a JSON file behind, and `gate` reads those files.

| Component | Source | State it keeps | Operations |
|---|---|---|---|
| Gemini upload client | `crates/spike-gemini` | none across calls; the upload session (URL, granularity) is a value | start, upload chunk, finalize, query offset, poll, generate, delete, seal and open a checkpoint |
| Gemini commands | `main.rs` (`stage-upload`, `resume-analyze`), `gemini_orchestration.rs` | checkpoint file, evidence files | stage one chunk and exit; resume, finalize, analyse, clean up |
| Secret store and envelope cipher | `spike-platform/src/{envelope,keyring_store}.rs` | one key per account in the OS keyring | load or create a key, seal, open; keyring smoke test with a cleanup guard |
| Process group | `spike-platform/src/process_group.rs`, `child_tree.rs` | the group leader, the reported tree, deadlines | spawn, wait for the tree report, kill and reap, drop |
| Preview | `spike-media/src/preview.rs`, `preview_app.rs` | one frame slot, a scheduling flag, metrics, window visibility | decode frames, publish, apply on the UI thread, hide, restore, cancel, report |
| Tray lifecycle | `preview_app.rs` | window and tray state, timers | close to tray, restore, quit, fallback without a tray |
| Execution policy | `spike-media/src/capability.rs` | a process-wide set of quarantined hardware | plan, observe a failure, quarantine, retry on the CPU |
| CPU fallback and FFmpeg runner | `spike-media/src/{cpu_fallback,ffmpeg}.rs` | child process, bounded output buffers | probe, run with a deadline, kill and reap |
| FFmpeg progress parser | `spike-media/src/progress.rs`, `drain_progress` in `cpu_fallback.rs` | the unfinished line and block, a summary | push a piece of output, sum up a block, finish |
| Evidence and gate | `spike-contracts/src/*`, `evidence_lint.rs`, `gate.rs` | the canonical matrix, the set of reports and proofs | write, lint, match to rows, accept or refuse |
| Package staging | `prepare_package` in `main.rs` | `current`, `previous-generation` and a temporary directory | copy a bundle, generate icons, swap generations |
| Release manifest and signing | `spike-release/src/{package,manifest}.rs` | `latest.json`, `downloads.json` and their temporary files, packages with signatures, update proofs | generate, verify, reject tampering, prove an update |
| FFmpeg bundle policy | `spike-release/src/ffmpeg_policy.rs` | none | inspect the layout, licence and configuration of a bundle |
| Command line, UI glue, scripts, workflows | `cli.rs`, `spike-ui-generated`, `scripts/`, `.github/` | none that outlives a call | parse arguments, generated UI, packaging scripts |

How they interact: the commands call the client and the cipher; the preview's
decoder thread and the UI thread share the frame slot, the scheduling flag and
the metrics; the fallback consults and updates the execution policy; everything
ends in evidence files, which only the gate relates to one another.

What is hard: requests whose answer is lost or late, crashes between a remote
effect and the local file that remembers it, two threads around one slot,
children that outlive their parent, deadlines shared between steps, a process
wide flag read before a long operation and acted on after it, several files
replaced one after another.  `PROJECT.json` lists these hazards by line.

What makes each part correct:

- *Gemini client and commands*: no byte is sent twice to the wrong place; a
  remote file can always be found again through the checkpoint, until it is
  deleted or the user replaces the checkpoint; the checkpoint is given up last;
  a PASS and an accepted pair of proofs mean what they say; every command ends.
- *Secret store and cipher*: a sealed checkpoint stays readable; a smoke test
  that passes has left no credential behind.
- *Process group*: once a guard is gone, or a call says the group was killed,
  nobody of the group is left alive and unsignalled; calls keep their deadlines.
- *Preview*: one closure in the event loop, each frame shown or dropped once,
  none shown out of order, the newest one not stranded; the run ends, its child
  first; three judges of one proof agree.
- *Child runner*: a child that fills its pipes does not block the call, a child
  that hangs is killed and reaped at the deadline, cut output is never success.
- *Media commands and policy*: a proof is about the file its own run produced
  on the backend it names, and that file stays.
- *Evidence and gate*: only linted regular files are judged, the verdict does
  not depend on the order of the directory, success means the PASS report is
  on disk.
- *Tray*: a PASS means that the window really went to the tray and came back, or
  never left without one; a run fails only for a cause; the proof says what the
  verdict was made from; an automated run ends.
- *Progress parser*: what is summed up does not depend on where the pipe cuts
  FFmpeg's output, and malformed output is refused.
- *Package staging*: the packager finds a whole package or none, and one swap
  that goes wrong does not cost the last package.
- *Release*: what is published is what the documents list, and an update proof
  the gate accepts is about the build the update offers.

## 2. Modules

| Module | What it is |
|---|---|
| `UploadServer` | the Gemini Files service and the network, as far as the client can tell (external) |
| `GeminiUpload` | `stage-upload` and `resume-analyze` with the client's retry loops, and crashes |
| `UploadLedger` | the abstract promise of the two commands, implemented by `GeminiUpload` |
| `GeminiUpload_proofs` | theorems about `GeminiUpload` |
| `PreviewBridge` | `LatestFrame`, `ApplySchedule` and `FrameBridge`: slot, flag and event-loop queue |
| `PreviewRun` | `run_preview`: extends the bridge with the FFmpeg stream, the timers, the end of the run and its proof |
| `LatestValue` | the abstract promise of the bridge: a display of the newest value, implemented by `PreviewRun` |
| `TrayLifecycle` | `run_tray_lifecycle`: the window, the automation timers, a user, the proof |
| `MCWindowRuns` | the two commands with an event loop, one after the other |
| `WindowRuns_proofs` | theorems about `PreviewRun` and `TrayLifecycle` |
| `ProcessGroup` | `GroupedProcess`, the two processes it guards, its callers and `process_smoke` |
| `ProcessGroup_proofs` | theorems about `ProcessGroup` |
| `MediaChild` | one bounded child with two pipes and a deadline, in the four forms the code has |
| `MediaChild_proofs` | theorems about `MediaChild` |
| `PolicyRules` | the value of an `ExecutionPolicy`, as functions |
| `MediaCommands` | the four media commands over the files and proofs they share |
| `MediaCommands_proofs` | theorems about `MediaCommands` |
| `ProgressParser` | `ProgressParser` and `drain_progress` over a pipe that cuts anywhere, and a definition over whole lines |
| `PackageStaging` | `prepare_package` and what it leaves when it fails or is killed |
| `ReleaseSigning` | the release commands of the sign-and-verify job, over packages that change between jobs |
| `MCFileCommands` | the media commands, the parser and the two release modules, one of them per behaviour |
| `FileCommands_proofs` | theorems about `PackageStaging`, `ReleaseSigning` and `ProgressParser`, and about the four families of `MCFileCommands` together |
| `AcceptanceRules` | `evaluate_proofs` as an operator, and a reference definition of an acceptable set |
| `EvidenceGate` | one run of the gate over a directory that others change |
| `EvidenceGate_proofs` | theorems about `AcceptanceRules` and `EvidenceGate` |
| `KeyringCommands` | the processes that share the credential store |
| `KeyringCommands_proofs` | theorems about `KeyringCommands` |
| other `MC...` | instances for TLC: symmetry sets and the documents of the gate |

`GeminiUpload` extends `UploadServer`; `PreviewRun` extends `PreviewBridge`;
`MediaCommands` extends `PolicyRules`; `EvidenceGate` extends
`AcceptanceRules`.  `GeminiUpload` and `PreviewRun` implement an abstract
specification each through `INSTANCE ... WITH`.  `MCWindowRuns` and
`MCFileCommands` put modules that share no state behind one specification, so
that one run checks them.

Some modules hold definitions marked *Variant*: a plausible slip in the code
(a dropped check, a missing reset).  No specification uses them; replacing the
real definition by its variant makes the property violated that
`PROJECT.json` lists with it, which shows that the property looks at that code.

## 3. State, actions and the code

**Gemini upload.**  What survives a process is the checkpoint file, the two
evidence files and the server; everything else (`pc`, `sid`, `offset`,
`attempt`, `hint`, ...) are locals of `stage_gemini_upload`,
`resume_analyze_with_evidence` and of the client's loops, and `Crash` may end a
process between any two steps.  A request and its answer are one action with
two independent outcomes: what the server did (applied, applied in part, not,
or not yet: `late`), and what the client saw.  This holds of a finalize as of a
chunk: one taken in part leaves its bytes and no file, and the generic retry then
sends it again from an offset the server has passed.  `upload_chunk` is the actions
`Chunk...` and `ResolveChunk`, the generic `retry` the actions
`...Throttled`, `...ServerError` and `...Retried`, each counting `attempt`.
`WriteEvidence` is the whole end of `resume-analyze`, with the order in which
categories win.  `superseded` and nothing else is history.  Bytes are lengths:
what was sent is told apart only by its offset.  Lost answers, 5xx, 429, failed
calls and crashes are `Fault`s; with `Endless` there may be any number of them, and
`FaultsStop` is the moment, if there is one, after which there are none.

**Preview.**  Every access to the slot's mutex, to the atomic flag and to the
event loop's queue is a step: `Publish`, `TryQueue`, `Invoke`, `Complete` on
the decoding thread, the closure's steps under `UIThread`.  `PreviewRun` adds the
stream (`SpawnChild` ... `StreamCompletes`), the automation timers in order of
their deadlines, the loop's end, `Stop`, `Join` and `WriteProof`.  What a run
measures is chosen on both sides of each threshold, and the command's gate,
`verify-preview` and the matrix judge the same proof (`GatePasses`,
`LintAccepts`, `MatrixAccepts`).

**Tray.**  `metrics` is `TrayMetrics`, `timers` the single-shot timers of
`schedule_tray_automation` that have not fired, in the order of their deadlines.
Time is absent: a timer may fire late, and a loop that was held up fires all that
are due before it looks at a request to quit (`Dispatching`).  Hiding and showing
may fail; a user may close, restore or quit between any two timers.  `story`
(shown, hidden, back) and `hand` (a user took part) are history.

**Process group.**  The operating system side is the leader and the leaf
(unborn, alive, zombie, gone), who of them was sent SIGKILL, and the report on
stdout; the guard side is `child`, the stderr task and the reaper thread of a
drop.  `WaitForReportedTree` and `KillAndWait` are the calls, one action per
await; `Abandon` is a caller that drops a future in the middle; `Drop` is
`Drop`.  A deadline may pass at any moment.

**Child runner.**  The four copies of "run a child, drain its pipes" differ in
what they keep; `kind` chooses one.  Each of the three futures under
`try_join!` is a part of the state, the deadline may pass at any moment, and the
cleanup of each variant follows it.

**Media commands.**  A command is a process that goes through preflight,
encoding, probing, observation, validation and the proof; `Stop` ends it
anywhere.  A file remembers who wrote it in which run and how that FFmpeg ended,
which is what a SHA-256 in a proof stands for.  Durations are half seconds, so
that rounding up shows.

**Progress parser.**  What FFmpeg writes is any sequence of `Lines`: a key, a
value, the sizes of the parts its text is cut into, and perhaps a carriage return
before the line feed.  `Stream` is the sequence of all their units, `ReadPiece`
takes any stretch of it, which is what one `read` returns, and `Push` feeds it to
the parser unit by unit (`PushUnit`); the code copies a stretch between two line
feeds at once, which makes no difference, because nothing is looked at before the
line feed.  `pending`, `block` and `blockSize` are the parser's fields, and both
limits are checked where the code checks them, in bytes.  `Worth` says which texts
are numbers.  A value that is not UTF-8 is `Garbled` and refused at once, one that
is not a number only when its block ends.  `SummaryIsOfTheStream` compares with a
definition over the whole script that knows neither pieces nor a parser.

**Package staging.**  One action per file operation of `prepare_package` that can
fail: copying, the icons, removal of the generation before (which may stop half
way), the two renames, and putting the old package back.  `Killed`
ends the command at any of them; the temporary directory goes with it, because
its name is never used again.

**Release.**  `job` goes through `manifest` (`Scan`, `WriteTemporary`,
`RenameTemporary` for each of the two documents), `verify-manifest`,
`verify-tamper-rejection` and `prove-update` for each target.  A job may end
after any step; `Deliver`, `Spoil` and `Litter` change the packages between jobs,
and `ProveAlone` is `prove-update` run by itself.  A payload is the build it
comes from, a signature the build it was made for.

**Evidence gate.**  `Collect`, `Look`, `Open`, `Read` and `Confirm` are the
steps of `lint_file`, between which `StartWrite`/`FinishWrite` (a command
replacing its proof), `RemoveFile` and `PutLink` change the directory.  Each
file that is created under a name has a new inode number.  `Judge` is
`evaluate_proofs` on what was linted, `WriteReport` the replacement of the
report, which may fail before or after the rename.

**Keyring.**  Any process runs one of four commands.  `Succeeds` and `Fails`
are an external store's two answers; either may be untrue.  A key is the name
of the process that generated it.  `rivals` and `lied` are history: who was
creating the shared key at the same time, and whether the store ever claimed to
have stored a shared key and had not.

## 4. What is checked

| Run | Question | Bounds |
|---|---|---|
| `GeminiUpload_commands` | continuation on chunk borders (`AlignedContinuation`); what an accepted pair of proofs means (`AcceptedRowIsTrue`); a remote file can be found again (`LiveFileIsReachable`); a PASS is clean (`PassIsClean`); the two commands implement `UploadLedger` (`LedgerSpec`) | 2 sessions at one path, inputs of 2, 3 and 5 units with chunks of 2, 2 attempts, 2 faults, late requests |
| `GeminiUpload_recovery` | no chunk and no first attempt of a finalize starts at a stale offset (`NoStaleReplay`); a stored offset is one the server had (`HintIsLowerBound`); every command ends, whatever the service answers for ever (`CommandTerminates`); a live file is deleted once faults stop (`LiveFileEventuallyDeleted`) | 1 session, any number of faults, 3 attempts, no granularity (chunks may be taken in part), finalize may be repeated |
| `GeminiUpload_orphan` | *violated*: every terminal path attempts deletion | 1 fault |
| `WindowRuns_commands` | preview: `EachFrameOnce`, `NoStrandedFrame`, `NoChildLeftBehind`, `JudgesAgree`, `RunEnds`, and that the bridge implements `LatestValue` with its fairness (`DisplaySpec`); tray: `TrayPassIsEarned`, `TrayFailureHasACause`, `TrayProofAndVerdict`, `TrayRunEnds` | 120 s requested, 3 frames; one tray run with all its timers |
| `ProcessGroup_calls` | `NoSurvivors`, `ReturnsAreTrue`, `AcceptedMeansDead`; `CallsReturn`, `DroppedLeavesNothing` | one leader and one leaf that holds stderr |
| `ProcessGroup_refused` | *violated*: every end of a guard kills the group | same |
| `MediaChild_call` | `ReturnedIsReaped`, `NothingIsCut`; `DrainsToTheEnd`, `DeadlineHolds` | pipe of 2 units, limit 2, up to 4 units on either pipe, 2 retries of a busy executable |
| `FileCommands_runs` | media: `ProofIsOfItsRun`, `AcceptedIsEarned`, `ProvenOutputStays`; parser: `SummaryIsOfTheStream`; staging: `PackageSurvives`; release: `PublishedIsWhole`, `AcceptedRowIsOneBuild` | 3 commands, 2 kinds of hardware; up to 4 lines with a limit of 9 bytes; 2 bundles, any number of commands, wrong swaps counted to 2; 3 targets, 2 of them with an installer, 2 builds, 2 changes, any number of jobs |
| `MediaCommands_hardware` | *violated*: a self-test on working hardware passes | 2 commands |
| `EvidenceGate_runs` | `VerdictIsReference`, `SourcesAreClean`, `ReportMatchesOutcome` | 2 rows with 5 proofs, 6 names, 15 documents, 2 changes |
| `EvidenceGate_exact` | *violated*: a PASS was given to an exact set | 1 change |
| `KeyringCommands_shared` | `CheckpointsOpen`, `AcceptedLeavesNothing` | 3 processes with any commands |

Each module also states its types (`TypeOK` or its like).  Wherever a module has
theorems these are proved, so no run spends a check on them.

Why the bounds are enough for what the runs ask:

- *Gemini*: inputs of 2, 3 and 5 units with chunks of 2 give an input of
  exactly one chunk (refused by `stage-upload`), a last chunk that is
  short, and one full chunk between the first and the last.  Two attempts show the first and the last try
  of every loop, three also one in the middle.  Two sessions are the one that a
  checkpoint leads to and one that replaces it; two faults are a lost answer
  and a crash after it.  The recovery run trades the second session for faults
  without end (`Endless`), because its questions are about one upload and about
  what ends a command when nothing else does; the theorems cover both kinds.
- *Preview*: a frame in the slot, one in the UI thread's hand and one being
  published are all that can be under way at once, so three frames reach every
  arrangement; the theorems cover any number.  120 s is the duration the proof
  commands ask for; the thresholds are relative to it.
- *Process group*: the code knows only a leader and what the leader reports.
- *Child runner*: output of up to twice the pipe and twice the limit shows a
  full pipe, output at the limit and beyond it.
- *Media commands*: a run that leaves a file, a second that fails over it and a
  third that could mistake it for its own.
- *Tray*: the schedule has at most six timers and runs once; nothing is bounded.
- *Parser*: two blocks of two lines show a number carried over from one block to
  the next, a marker too many and both limits met exactly and exceeded by one;
  the limit is scaled down together with the lengths of the lines.  Each line is
  cut into two parts at most; the theorem covers any lines, any parts and any limit.
- *Staging*: a second bundle tells the packages of two commands apart; two wrong
  swaps are one more than the promise covers.
- *Release*: each of the three targets and each kind of artifact the code knows;
  two builds tell a fresh file from a stale one; one change spoils what a
  second one mends.
- *Gate*: every pair of names is read in both orders; two changes suffice for a
  file that is replaced and put back between two looks.  Links lead to a
  document that would complete the matrix if it were taken.  Two rows are those
  whose proofs must agree with one another; the theorem covers any matrix.
- *Keyring*: two processes that race, and one that depends on the result.

`CHECK_DEADLOCK FALSE` is set where the modelled program ends: a run of the
preview, a call, a gate run, a bounded number of commands, processes that have
each run once.  The Gemini runs check deadlock: somebody can always start
another command.  Symmetry is used only in runs without liveness; `UploadLedger`'s
specification has no fairness.

### Fairness

- *Gemini* (`FairSpec`): a started command goes on (it is polled by its own
  runtime), and whoever runs the commands keeps resuming, for each input
  infinitely often.  The last is strong fairness on an action of the user,
  because a resume can be started only between commands.  The service owes
  nothing: every answer may be lost or a 5xx, and a file may stay PROCESSING for
  ever.  `CommandTerminates` holds all the same, because the attempts of each loop
  and the deadline of the polling end (`PROJECT.json` lists a mutant for each of the
  two).  `LiveFileEventuallyDeleted` assumes in addition, as its premise, that
  faults stop one day; the claim is that the checkpoint makes this enough.  A
  late request may stay away for ever.
- *Preview* (`FairSpec`): the event loop dispatches closures and timers and
  ends when asked; the decoding thread ends a publication it began and looks at
  the flag, which the code polls every 10 ms while it reads.  FFmpeg owes
  nothing: it need not write, end, or fail, so `RunEnds` leans neither on it nor
  on the stream's timeout.
- *Process group* (`CallSpec`): only the caller's own steps, deadlines among
  them.  What the operating system owes (a killed process dies, init and a
  waiting thread reap, a closed pipe ends the task) is the assumption
  `SystemDelivers` of `DroppedLeavesNothing` alone.
- *Child runner* (`CallSpec`): the runtime polls futures that are ready.  Two
  properties add one assumption each: `DrainsToTheEnd` that the child goes on
  while it can write (and not that the deadline passes), `DeadlineHolds` that
  the deadline passes (and not that the child does anything).
- *Tray* (`Fairness`): the event loop fires timers that are due and ends when
  asked to quit.  Nobody has to touch the window, and hiding and showing may
  fail: the failsafe is a timer like the others.
- Media commands, parser, staging, release, gate and keyring state safety only
  and assume nothing.

## 5. What the runs found

Four statements of the repository do not hold; `PROJECT.json` quotes each.

1. *Every terminal path attempts remote deletion* (plan of Phase 0).  If the
   answer to `upload, finalize` is lost, the file may exist and
   `resume-analyze` reports `FINALIZATION_FAILED` with `NOT_ATTEMPTED`.  The
   checkpoint stays, so a later resume can find the file
   (`LiveFileIsReachable` holds).
2. *The guard kills the whole group on cleanup.*  When `spawn` itself fails
   after the group was started there is no guard, and nobody kills the group.
3. *A self-test on working hardware passes.*  `self-test` encodes H.264 and AAC
   and reads its output with a contract that accepts VP9 and Opus in WebM only,
   so hardware that worked is refused, and no `media_hardware` proof can be
   written.
4. *All records must be exact.*  The gate does not ask whether a proof's
   component belongs to its row; a foreign one is accepted with the rest, and
   where it is read first it can stand in for the row's own proof when the two
   Gemini proofs are compared.

Behaviour worth knowing that contradicts no stated promise:

- A DELETE that the server applied before a 5xx is retried, answered 404 and
  reported as `REMOTE_CLEANUP_FAILED`; the checkpoint of a vanished file is
  kept.
- A finalize that was taken in part before a 5xx is sent again from its first
  offset, which a server that checks offsets refuses; with a granularity, what it
  left may be off every chunk border, and then each later `resume-analyze` ends
  with `OFFSET_MISALIGNED`: that upload can never be finished.
- A service that acknowledges chunks without taking a byte and names no
  granularity keeps `continue_and_finalize` asking and sending
  (`gemini_orchestration.rs:330-349`), which counts no attempts.
  `CommandTerminates` assumes a service that took at least a byte of what it
  acknowledged.
- The checkpoint does not bind the input: resuming with another file of at
  least the stored length uploads mixed content.
- An interactive preview cannot pass: the memory sample at 20 s is taken by the
  automation only.  If the window cannot be shown, `run_preview` returns with the
  decoding thread still running.
- `kill_and_wait` reaps the leader; the leaf may take a moment longer to die,
  and a probe in that moment makes the proof fail, never pass.
- A proof stays on disk when a later run of the same command fails after
  overwriting the output the proof hashes.
- A command replacing its proof while the gate runs makes the gate FAIL (its
  temporary file is not an evidence file); a gate whose report cannot be written
  leaves an older PASS report in place, and says so only by its exit status.  One
  that fails after the rename, because the directory cannot be synced, leaves a PASS
  report of its own beside a failed exit status; that report is true
  (`ReportMatchesOutcome`).
  The gate judges each file as it was read, not one snapshot of the directory.
- An automated tray run that a user interferes with may pass with its window still
  in the tray: the look at the restored window comes before the quit, and a close
  by hand may come between (`TrayPassIsEarned` says exactly this).
- A tray proof holds three of the seven facts its verdict looks at; the matrix
  accepts the proof of a run that failed because the failsafe fired or the event
  loop broke, and of no other (`TrayProofAndVerdict`).
- A process that dies between writing a `.tmp` of the manifest and its rename
  leaves a file that makes every later `release manifest` fail; if it is
  `downloads.tmp`, each of them first replaces `latest.json`.  The job then stops
  before it verifies, so nothing is published (`PublishedIsWhole`).
- Each `prepare-package` begins its swap by removing the generation before; two
  swaps that go wrong one after the other may therefore leave no package
  (`OnePackageIsLeft` is the part that holds).
- `prove-update` by itself may prove an installer that `downloads.json` does not
  list: the document behind an update proof is `latest.json`, which lists
  updater payloads only.
- `resume-analyze` without a key creates one; two commands that create the first
  key at once may leave a checkpoint that nobody can open, and this, with a
  store that lies, is the only way (`CheckpointsOpen`).  A smoke command that
  dies leaves its credential behind.

## 6. What is proved

TLAPS proves the following for every value of the constants, from the named
assumptions of the modules (`ServerAssumption`, `ClientAssumption`,
`NoneIsNoCheckpoint`, `PreviewAssumption`, `HoldStderrAssumption`, the four of
`MediaChild`, `BackendAssumption` and `NoneIsNoPolicy` of `PolicyRules`,
`RunsAssumption` of `MediaCommands`, `GateAssumption`,
`KeyringAssumption`, and `ProgressAssumption`, which says that a line has text and
that "N/A" is no number).  The two release modules assume nothing of their
constants; two theorems state an assumption about them themselves.

| Theorem | Says |
|---|---|
| `GeminiUpload_proofs!TypeOKCorrect`, `InductiveInvariant` | types, and `IInv` |
| `LiveFileIsAlwaysReachable`, `PassIsAlwaysClean`, `CheckpointIsReleasedLast` | `LiveFileIsReachable`, `PassIsClean`, and the action property that the checkpoint goes last |
| `ReplayIsNeverStale`, `HintIsAlwaysLowerBound`, `ChunksAreAlwaysAligned`, `AcceptedRowIsAlwaysTrue` | `NoStaleReplay` (of chunks and of the first attempt of a finalize), `HintIsLowerBound`, `AlignedContinuation`, `AcceptedRowIsTrue` |
| `CommandsImplementLedger` | the refinement of `UploadLedger`: `Spec => LedgerSpec` |
| `WindowRuns_proofs!TypeCorrect`, `RunInvariant`, `EachFrameIsShownOnce`, `NoFrameIsStranded`, `NoChildIsLeftBehind`, `ProofIsHonest` | types, the invariant, `EachFrameOnce`, `NoStrandedFrame`, `NoChildLeftBehind`, `JudgesAgree` with the counts of the proof |
| `PreviewIsALatestValueDisplay` | the safety part of the refinement of `LatestValue` |
| `TrayInvariant`, `TrayPassIsAlwaysEarned`, `TrayFailureHasItsCause`, `TrayProofAgreesWithVerdict` | the invariant of the tray lifecycle and its three properties |
| `WindowRunsArePreviewRuns` | the composed run is a run of the preview |
| `ProcessGroup_proofs!TypeCorrect`, `GroupInvariant`, `NothingSurvives`, `ReturnsAreAlwaysTrue`, `AcceptedTreeIsDead` | types, the invariant, `NoSurvivors`, `ReturnsAreTrue`, `AcceptedMeansDead` |
| `MediaChild_proofs!CallInvariant`, `NoCallLeavesAChild`, `NoOutputIsCut` | types with the invariant, `ReturnedIsReaped`, `NothingIsCut` |
| `MediaCommands_proofs!MediaInvariant`, `ProofsAreOfTheirRuns`, `AcceptedIsAlwaysEarned`, `ProvenOutputAlwaysStays`, `NoSelfTestIsProven` | the invariant, `ProofIsOfItsRun`, `AcceptedIsEarned` (encoded to the end, probed, and for a forced fallback after a failed attempt on the hardware of its row), `ProvenOutputStays` (until the command is started again), and that `self-test` never writes a proof |
| `FileCommands_proofs!StagingInvariant`, `PackageAlwaysSurvives` | the invariant of `prepare_package`, `PackageSurvives` |
| `SigningInvariant`, `PublishedIsAlwaysWhole`, `AcceptedRowIsAlwaysOneBuild` | the invariant of the jobs, `PublishedIsWhole` (if every target with an installer is a target), `AcceptedRowIsOneBuild` |
| `DrainInvariant`, `ProgressIsTyped`, `SummaryIsAlwaysOfTheStream` | the invariant and the types of `drain_progress`, `SummaryIsOfTheStream` |
| `FileRunsAreRuns`, `FileRunsAreSafe` | the composed run is a run of each of the four families; so all seven properties of `FileCommands_runs` hold of it |
| `EvidenceGate_proofs!AcceptedCoversMatrix`, `EvaluationIsReference` | what `evaluate_proofs` accepts, against the reference |
| `TypeCorrect`, `SourcesClean`, `VerdictIsThatOfReference`, `ReportIsTrue` | types and the three invariants of the gate; that the verdict is the reference's is claimed only where no judged proof is foreign to its row |
| `KeyringCommands_proofs!TypeCorrect`, `CheckpointsStayReadable`, `SmokeTellsTheTruth` | types and the two invariants |

The arguments, in short:

- **Gemini.**  `LiveFileIsReachable` is not inductive: a late finalize may
  create a file long after the process that sent it has died.  `IInv` adds that
  a late finalize is on a session somebody can still find (`LateInv`), that
  while staging no finalize exists (`StagingInv`), that a resuming process
  works on the session its checkpoint leads to (`ResumingInv`), that a file
  exists exactly for final sessions (`SessionInv`), and what the pending report
  may say (`ReportInv`).  What the numbers mean needs a second invariant
  (`OffsetInv`): what the server holds only grows, a session is staged once, and
  its hint is one number in the checkpoint, in memory and in both proofs.
  Alignment needs a third, because only additions of a chunk keep an offset
  aligned.  For the refinement each kind of change (a session opens, a
  checkpoint is sealed, a file is published or erased, the checkpoint goes, a
  report is written) is a step of the ledger, and `IInv` gives its guard.
- **Preview.**  The flag, the queue and the closure's position determine who is
  responsible for a frame in the slot; `RunInv` states this together with the
  phases of the main thread, in particular that the reader has ended before
  the proof is written.
- **Tray.**  The timers still to fire are an end of one of the two schedules
  (`TrayPhases`), and each end says what has been done by then: what holds in
  spite of a user (`TrayStory`, `TrayCallbacks`) and what without one
  (`Untouched`).
- **Process group.**  From the kill on, nobody is alive and unsignalled, and
  no new member can appear: `GroupInv` says at which points of the calls this
  holds and who owns the child.
- **Child runner.**  `Accounting`: what is kept and what is in the pipe add up
  to what was written until the limit is met, and the limit is then remembered.
- **Media commands.**  Each command takes a fresh output before it encodes, so what
  is under its name is of its own run at every later phase (`MediaInv`); a
  self-test is refused by the contract it reads its own output with, so it never
  reaches its proof (and what `ProofIsOfItsRun` says of a self-test's proof is
  about none).  What a command has observed and probed is history of its run
  (`failed`, `probed`), which a fallback's proof carries.
- **Staging.**  What a command has in its hands at each phase of the swap
  (`PhaseInv`), and where the last delivered package is then (`DeliveredInv`).
- **Release.**  A list of updaters, once it is there, is complete (`DocumentInv`),
  a job that has got to a step has what the earlier ones wrote and checked, such
  as documents that agree with the packages (`ProgressInv`), and an update proof
  names a document that offered what it hashed (`OfferInv`), which survives
  later jobs and changes.
- **Parser.**  `Agrees` says of each place in the output what a living parser has in
  its hands there: the unfinished line, the numbers and the size of the unfinished
  block, and, with what it has emitted in this push, the summary of the complete
  ones; and that a parser that has refused met a line that is not sound.  One more
  unit keeps it (`PushUnitAgrees`; for a line feed `FinishLineAgrees`), so a
  push takes a parser that agrees from where it was to the end of the piece
  (`PushAgrees`), wherever that is.  The facts about sums, about where lines end
  and about the last number of a block are by induction.  The prover cannot
  instantiate the induction rules of the library, which take a predicate; the
  strict inclusion of finite sets is well-founded, however, which the library
  states of sets, and from this a set of numbers has a least element (`Least`)
  and a set with 0 and the successor of each of its elements has every number
  (`Induction`).  Applied to the set of the numbers for which a statement holds,
  that is induction.
- **Gate.**  That no two rows of a canonical matrix ask one target for two
  uploads or two releases (`MatrixIsCanonical`, which `PhaseZeroMatrix::validate`
  guarantees) makes "first of its component and target" the row's own proof;
  `LintInv` says what the handle and the identities seen so far imply,
  `VerdictInv` that the verdict is that of the linted bytes.
- **Keyring.**  Every key that is stored, in use or sealed with is the stored
  one or a rival of it, and a rival of everybody who is about to store one
  (`KeyInv`); after the deletion of a smoke credential each step keeps what the
  report will say (`SmokeInv`).

Every safety property that a passing run checks is proved.  Only model-checked are
all liveness (`CommandTerminates`, `LiveFileEventuallyDeleted`, `RunEnds`,
`TrayRunEnds`, `CallsReturn`, `DroppedLeavesNothing`, `DrainsToTheEnd`,
`DeadlineHolds` and the liveness of `DisplaySpec`), which is out of the prover's
reach, and the four violations.

## 7. What is not modelled

- *Windows*: job objects instead of process groups.  *Reused process ids*: the
  code compares start times, so a reused id is another process.
- *FFmpeg after a SIGKILL of the command*: no code of the repository runs then.
- *Directories below the evidence directory*: `EvidenceGate` is a flat directory
  on Unix, where device and inode identify a file.  The two checks of
  `canonicalize` against the root (`evidence_lint.rs:297-302`, `324-331`) guard against a
  linked directory on the way to a file and are outside of it, as is the identity
  of a file on Windows.
- *A credential store that misreads*: in `KeyringCommands` writing and deleting may
  fail or succeed in name only, but what is read, if the read succeeds, is what is
  stored.
- *Two upload commands at one checkpoint path at the same time*, and two media
  commands writing one output: commands run one after the other, as the device
  workflow runs them.
- *Text*: the scans of the lint (keys, URLs, limits on size, number and depth),
  the inventory of encoders, redaction,
  `evaluate` for generic reports, which no command uses for its verdict.
- *Isolated policies*, which only tests construct, and the branches for pipes
  that a piped `Stdio` always has.
- *Cryptography*: a record opens with the key that sealed it and no other; the
  random account of a smoke command is its own.
- *Values of the measurements*: chosen on both sides of each threshold.
- *FFmpeg bundle policy* (`ffmpeg_policy.rs`): one pass over the files, licences
  and configuration text of a bundle, with no state.  A bundle is valid or not in
  `PackageStaging`.
- *Command line, generated UI, scripts, workflows*: no state of their own; the
  order in which the sign-and-verify job calls the commands is `ReleaseSigning`'s,
  and the layout in which a workflow uploads artifacts is left out.
- *Packaging*: a bundle that changes while it is copied, and two
  `prepare-package` at one output root.
- *Release*: limits on sizes, the text of names, URLs, versions and signature
  envelopes, `verify-artifact` by itself; `prove-package` is the relation the
  gate checks between its proof and an update proof.

## 8. What could come next

Nothing below changes what is claimed above.

1. Windows job objects beside the process groups of Unix: the same promise
   (`NoSurvivors`) from another mechanism, as a second implementation of one
   abstract specification.
2. Limits on the number, size and depth of evidence files in `EvidenceGate`, with
   a directory that grows while it is listed.
3. A bundle that changes while `prepare-package` copies it: the validation and
   the copy look at the same files at different times.
