# EngVit: a TLA+ model of the resumable video job

EngVit enhances a video on Kaggle, in sessions that are cut off at any time. A
job is cut into chunks; workers lease chunks, encode them to segment files and
hand completions to a coordinator, which alone writes the job manifest. When
every chunk is complete the segments are assembled to `enhanced-video.mkv`. The
job directory is packed into an archive before a session ends and restored in the
next. This directory holds the model of that system: TLA+ modules translated from
the source, TLC configurations that check them on small instances, and TLAPS
proofs of the properties that must hold for jobs of any size.

Source paths below are relative to `src/src/engvit/`, unless they begin with
`scripts/`, `notebooks/` or `docs/`, which lie under `src/`.

    tlc -workers 2 -config MCSessions.cfg MCSessions
    tlapm CoordinatorProofs.tla

## 1. Inventory

### Parts with state and concurrency

| Part | State | Operations | What is hard |
|---|---|---|---|
| `orchestration/coordinator.py` | `_current`, `_manifest_sha256`, an RLock; `manifest.json`, completion sidecars | constructor, `lease`, `stage_completion`, `commit`, `request_pause`, `resume`, `recover`, `_persist` | threads of one process share the lock, other processes do not; memory is updated after the file, so every exception in between leaves the two apart; leases expire while their holders live |
| `orchestration/atomic.py` | destination file, `.partial` file | `write` with an expected previous hash | compare and replace are two steps; an exception after the replacement |
| `pipeline.py` | the loop's counters | `_execute_spatial_job`, `execute_lanczos_job`, `execute_neural_job` | recovery, chunk limit, pause and report in one loop; restarts |
| `cli.py`, `kaggle.py` | none of their own | `run`, `resume`, `pause`, `qa`, `persist`; `prepare_phase0` | every command is a process with its own Coordinator; preparation writes before and after the identity is checked |
| `media/decode.py`, `media/encode.py` | two child processes and their pipes, partial file, segment file | `decode_normalized_frames`, `encode_segment` | three processes coupled by bounded pipes, each of which may fail; publishes under a path all workers of the chunk share and hashes afterwards |
| `media/concat.py` | final video | `validate_and_concat` | checks hashes, then has FFmpeg read the files again |
| `persistence.py` | archive, restored tree | `prepare_continuation`, `resume_continuation` | archive of a moving job; restore cut short; absolute paths in the manifest |
| `acceptance.py`, `scripts/run_acceptance.py` | evidence directory, report, capability record | `run_acceptance`, the two writes of the script | receipts are read twice and replaced in between; two files are written one after the other |
| `models/registry.py`, `planning/` | weight roots; a frozen plan | `resolve`, `freeze_execution_plan`, `admit`, `verify_plan_bindings` | what was checked is stale when it is used |
| `scripts/build_kaggle_notebook.py`, `notebooks/` | globals of a kernel | eight cells, edits, restarts | cells are rerun, raise half-way, and share globals |

A worker gets a `ChunkLease` from `lease`, calls `encode_segment`, and passes the
`ChunkCompletion` to `commit`. `commit` checks it (identity, lease, path, size,
hash, frame count, PTS), writes it next to the segment as
`<segment>.completion.json`, and only then persists the next manifest generation.
`recover`, at the start of every run, reads the manifest again, expires leases,
revalidates complete chunks and takes valid sidecars as completions. The notebook
and the command line call `prepare_phase0` and then the pipeline; `persist` packs
the directory while they may be at work.

### Parts that compute

| Part | Function | Correct when |
|---|---|---|
| `orchestration/chunks.py` | `plan_chunks` | every output frame in exactly one core, cores in order, bounded, context inside the output |
| `media/timeline.py`, `media/filters.py`, `media/frame_probe.py` | `plan_timeline` and the FFmpeg filters | the planned frames are those the decoder delivers |
| `analysis/` | proxy scan, scenes, samples | bounds lie at the cuts; samples are complete |
| `models/temporal/windows.py`, `interpolation/timeline.py` | windows, interpolation ticks | every frame once, nothing across a scene bound |
| `tiling/` | calibration, layout, blend weights | every pixel covered, seams blended, first size that fits |
| `models/weights.py`, `licenses.py` | header check, license gate | only licensed, intact weights |
| `planning/session.py` | disk, memory and time admission | no job admitted that cannot fit |
| `quality/`, `recipes/` | decisions from evidence | no capability without complete evidence |
| `media/selection.py`, `environment.py`, `supply_chain.py`, `privacy.py` | identity and preflight | the same source, tools and privacy state throughout |

`PROJECT.json` lists all of them under `components`, with what each module covers.

### Hazards

`PROJECT.json` lists them at their lines. In short: the comparison that guards
the manifest is not atomic; memory and file part at every exception; a lease
outlives its deadline and its holder; the segment path is shared; a pause is a
write that a running worker has not seen; a crash falls between segment, sidecar
and manifest; the last chunk can complete while the job is paused; what is
checked and what is used are two readings (segments, receipts, weights, the
source); pipes fill up; an archive is made of a job that moves; a restore is cut
short; cells share globals; and integer boundaries in the planners.

## 2. Modules

| Module | Models | Role |
|---|---|---|
| `ManifestOps` | `orchestration/manifest.py` and the decisions of the coordinator | pure operators shared by `Coordinator`, `JobRun` and `Sessions` |
| `Coordinator` | one coordinator object, its worker threads, files, deadlines, failures | the core |
| `JobLedger` | what the manifest promises to a reader | abstract specification |
| `JobRun` | the commands as processes over shared files | composition of pipeline, coordinator, writer, encoder and assembly |
| `Sessions` | preparation, run, archive and restore over sessions, environments, mounts and output roots | composition of `kaggle.py`, `pipeline.py`, `cli.py`, `persistence.py` |
| `SegmentPipe` | decoder, worker and encoder of each chunk, and the assembly | the child processes behind one `encode` step of the others |
| `ChunkPlan` | `plan_chunks` | the loop as a state machine |
| `FramePlan` | from the frames of a source to all plans over them | chain of planners; drives `ChunkPlan` |
| `TilePlan` | calibration, layout and blending of tiles | planner |
| `Release` | receipts, capabilities, recipes, weights, plan, admission | evidence pipeline |
| `Notebook` | the cells and their globals | user interface over jobs |
| `ManifestProofs` | | lemmas about `ManifestOps` that the proofs of its users share |
| `CoordinatorProofs`, `JobRunProofs`, `SessionsProofs`, `SegmentPipeProofs`, `ReleaseProofs`, `NotebookProofs` | | theorems about the module of that name |
| `PlannerProofs` | | theorems about `ChunkPlan`, `FramePlan` and `TilePlan` |
| `MCCoordinator`, `MCJobRun`, `MCSessions`, `MCSegmentPipe`, `MCPlanners`, `MCRelease`, `MCNotebook` | | instances for TLC |

Definitions marked "Slip" are deliberate mistakes: each is one plausible bug, kept
beside the definition it would replace and used by no specification. `mutants` in
`PROJECT.json` says which property notices it.

### ManifestOps

A manifest is `[gen, state, chunks]`, a chunk record `[status, lease,
completion]`. Chunks are numbered in manifest order, because `lease` takes the
first pending one. A lease id is the serial number of the lease within its chunk.
A file is its content; size and SHA-256 stand for the content. A completion holds
the hash its worker read and whether identity, frame count and PTS fit the chunk.
The clock is reduced to what `_expire` asks of it: `lapsed[c]` is the newest lease
of `c` whose deadline has passed. `worker_id` is compared nowhere and left out.

| Definition | Code |
|---|---|
| `Expire`, `IsFirstPending` | `_expire`, the search in `lease` |
| `HoldsLease`, `SegmentMatches` | `_validate_completion` |
| `StateAfterCommit`, `StateAfterPause`, `StateAfterRecover` | the state each method writes |
| `Revalidate`, `Repair`, `RecoveredChunks` | the two loops of `recover` |
| `WellFormed` | `ChunkRecord.state_fields_match` |

### Coordinator

Every method holds the lock throughout, so methods do not interleave; what does
interleave is whatever takes no lock. A call is therefore cut at its writes. `op`
is the call that holds the lock and where it is:

| State | Code |
|---|---|
| `disk`, `segment`, `sidecar` | `manifest.json`, `<chunk>.mkv`, `<chunk>.mkv.completion.json` |
| `current` | `_current`; `_manifest_sha256` is its hash, so "the file is what was expected" is `disk = current` |
| `op.at` | `"sidecar"`: before the sidecar write; `"manifest"`: before compare and replace; `"sync"`: replaced, memory not yet updated |
| `worker[w]` | the thread's lease, and how far `encode_segment` is |
| `issued`, `lapsed` | leases per chunk so far, and those past their deadline |

| Action | Code |
|---|---|
| `Lease`, `ExpireOnly` | `lease`, when the job runs and when it does not |
| `StageCompletion`, `Commit`, `RejectCompletion` | `stage_completion`, `commit`, and the exceptions of `_validate_completion` |
| `RequestPause`, `Resume`, `Recover`, `Start` | the methods of that name and the constructor over an existing manifest |
| `WriteSidecar`, `ReplaceManifest`, `RefuseReplace`, `Return` | the writes of a call, and the refusal by the expected hash |
| `WriteSegment`, `HashSegment`, `SegmentVanished`, `WorkerFails` | `encode_segment`: rename, hash, the file gone in between, an FFmpeg failure |
| `WriteFails`, `Crash`, `Lapse`, `Damage` | an exception in the writer at any point, the end of the process, a deadline, a damaged or deleted segment |

One process owns the manifest here, so compare and replace are one step;
`JobRun` separates them. A call that raises after the replacement leaves
`current` one generation behind `disk`, and the calls that follow are refused
until `recover`: the model shows that this is safe. `HashSegment` may yield a
completion that does not fit its chunk (a caller that is not `encode_segment`),
which commit must refuse.

### JobLedger

The abstract job: a state, who holds which chunk under which grant number, and the
finished chunks. It has no memory, calls, files or crashes. `Coordinator!Ledger`
maps the manifest **file** to it, and `ImplementsLedger` says that the file moves
by whole operations, each applied to the durable result of the one before:
failures, exceptions and restarts leave nothing half done and repeat nothing. That
the commands of several processes (`JobRun`) do the same, as long as nothing raced, is
proved (`CommandsImplementLedger`).

### JobRun

Each command is a process with a Coordinator of its own; one action is one access
to a shared file. `mem` is `_current` and `basis` is the manifest whose hash
`_manifest_sha256` holds: they are two readings and can differ. Accesses of
processes interleave freely. The code has three pairs of accesses that nothing
holds together (parse and hash; compare and replace; look for the manifest and
create it). The history variable `raced` becomes true when a write of one process
falls into such a pair of another; properties that need the pairs whole say so.

| Point of a process | Code |
|---|---|
| `open`, `identify`, `create` | `Coordinator.__init__` |
| `reload`, `decide` | `recover` |
| `resume`, `lease`, `encode`, `hash`, `commit`, `sidecar`, `committed`, `finish`, `concat` | `_execute_spatial_job`, `encode_segment`, `validate_and_concat` |
| `pause`, `qa` | `cli._pause`, `cli._artifact_from_existing` |
| `compare`, `replace` | `AtomicArtifactWriter.write` under `_persist` |

`engvit resume` is `run` with the resume flag. A kill, an exception of FFmpeg and
a failed write all end the process and leave the files (`Kill`). The segment
scans of `qa` and the PTS checks of `validate_and_concat` follow from the checks
made at commit and are left out here; `SegmentPipe` has them.

### Sessions

The job directory is a function from the names of the files that exist to their
contents, and an archive is another. Three processes work on the directory: a
command (`run`), the archiver (`pack`), the restorer (`unpack`). One action is one
file that one of them reads or writes, in the order of the code.

| State | Code |
|---|---|
| `video` | the source; `serial` is what `stat` tells (device, inode, size), `content` what the hash tells |
| `session` | the host, that is, the environment and the path where the dataset is mounted (both go into the identity of a job), and the output root |
| `tree` | the files of the job; `timeline` stands for `timeline.json`, `geometry.json` and `environment.json`, which are written together |
| `run` | the command: its identity, the manifest in its memory, its lease |
| `pack`, `unpack` | the archiver with the names it has still to read and what it has read; the restorer with the names it has still to write and the archive it opened |
| `swapped`, `stray` | history: the video was replaced after a command had hashed it; the directory is what a killed restore left, or was restored from an archive of such a directory |

| Action | Code |
|---|---|
| `StartRun`, `StatSource`, `HashSource`, `WriteSelection`, `Probe`, `Construct`, `WriteRecords` | `prepare_phase0`, in the order of its writes |
| `RecoverJob`, `Reopen`, `Lease`, `Encode`, `Publish`, `WriteSidecar`, `Commit`, `Committed`, `Finish`, `Concat` | `run_prepared_phase0` |
| `Qa` | `engvit qa` |
| `BeginPack`, `ListSegments`, `ReadMember`, `PublishArchive` | `prepare_continuation`: `artifacts/` is listed, then `segments/`, then member by member is read |
| `BeginUnpack`, `WriteMember` | `resume_continuation`, which refuses a directory that has any entry |
| `EndSession`, `Kill`, `SwapVideo`, `Lapse` | the surroundings |

Lists of names are sets, read and written in the order of `sorted()` (`Position`). The
restorer keeps the archive it opened, so an archive that is replaced meanwhile does not
mix into the directory.

Simplifications: an archive is not begun while a command prepares, and no command
is begun while an archive is made; when there is an archive, a new session
restores before it runs; the archive kept is the last one stored; leftover
`.partial` files of a chunk share one name; a video that is replaced is another
file, not the same one overwritten (datasets are mounted read-only); a `qa` that
refuses is left out; deadlines pass only where a command looks at them.

### SegmentPipe

One worker encodes the chunks in order and assembles them. A raw frame is several
blocks, the unit in which the decoder writes and the worker reads; both pipes are
bounded. A decoder supplies less, as much or more than the core, and may fail
while it writes or when it exits; an encoder dies, drops a frame, shifts PTS or
changes durations. The generator and `encode_segment` are one thread, so control
passes between them: `NextDraw` asks for a frame, `ReadBlock` and `TruncatedFrame`
are `_read_exact`, `AfterCore` is the extra byte and the exit code, `CloseGenerator`
and `Collect` its `finally` (run at once, or when the garbage collector gets to
it). `Raise`, `ReapEncoder` and `Unlink` are the way out of every exception.
`CheckSegment`, `Joined`, `Concat` and `PublishVideo` are the assembly, with
`Damage` between the hash and FFmpeg's reading. FFmpeg is external.

### ChunkPlan, FramePlan, TilePlan

The loop of `plan_chunks` is the only action of `ChunkPlan`. A request is a frame
count, a policy and the interior scene ends. Decode ranges, scene ids and the
timeline hash only enter the identity hash of a chunk.

`FramePlan` runs a source through every planner: `PlanTimeline` (refuses or plans,
for both policies), `BeginScan` and `ScanFrame` (the proxy rows), `DetectScene` (one
row of its loop at a time), then `PlanWindows`, `PlanInterpolation`, `BeginSamples`
and `FillBin` (`select_samples`, the second one bin of its fill, and behind the last bin
the `TopUp` by hash rank), and the chunks over the scenes found. Times are ticks; a frame
rate is the length of its frame, a fraction.

Pixels are left out: a frame shows one of `Pictures`, and `Scoring` has the pairs of
pictures whose comparison scores over the threshold of `detect_scenes`. A `Row` compares a
sampled picture with the sampled one before it, as `scan_proxy` and `detect_scenes` do
together: what comes and goes between two samples leaves no trace, and pictures may differ
without scoring.

`Slot` and `Decoded` are FFmpeg's fps filter, external, as `build_timing_filter` puts it
into the graph (`round=near:start_time=0`): a frame goes to the slot nearest to its time,
and slots before the first frame show the first. FFmpeg counts time from the start of the
container, while `plan_timeline` counts from the first frame of the video; `lead` is the
difference. The probe reads it (`start_pts`), and no plan uses it.

`TilePlan` has one axis, since positions, overlaps and weights are products of the
two. The model is external: it runs out of memory on a crop longer than `memory`,
or fails otherwise on one length. The cosine ramp stands as the linear one, which
has the same symmetry (a weight and its mirror image sum to one).

### Release

`script` is `run_acceptance.py` at work: a receipt is hashed, then read and judged,
case by case; then the report and the record are written, and it may die at any
point. `job` is a user who loads the record, freezes a recipe, resolves its weights
(`ResolveHash` and `ResolveHeader` are two readings), freezes a plan, has it
admitted and verifies its bindings. No code chains the functions behind the record
yet: the argument types of each fix their order. Receipts, weights, source,
environment and free resources may be replaced between any two accesses.
Looking for a weight file, comparing the environment with its `required_packages` and
hashing it are one step; the report, with the receipt hashes in it, is read by no code and
left out. The tensors of a header carry their names, so two names on one range are two
tensors.

### Notebook

A cell runs to its end or raises and keeps what it had assigned. `upTo` says which
cells have been run for the present parameters. The user follows
`docs/kaggle-runbook.md`: after an edit that changes the job or its privacy the
cells are run in order again; after another edit cell 2, then any cell that has
been run before. Runs are summarised by the chunks they commit; their inside is in
`JobRun` and `Sessions`. The text of the cells stands in three files, the builder
and the two notebooks it writes; `map` spreads the cells over the three.

## 3. Runs

| Run | Question | Instance | Distinct states |
|---|---|---|---|
| `coordinator` | Is every failure the coordinator handles handled without losing or double-assigning work, is the manifest a ledger, and what happens to segments when encodings differ? | 2 workers, 2 chunks, 2 disturbances, two encodings | 0.5 M |
| `coordinator_liveness` | Is the job completed? | 2 workers, 2 chunks, 2 disturbances | 0.2 M |
| `jobrun_sequential` | Does a restarted command continue where the last one stopped, and end? | 1 process, 2 chunks, 4 commands, 2 kills, with and without chunk limit | 0.5 M |
| `jobrun_together` | What do two commands keep of each other's updates? | 2 processes, 2 chunks, 2 commands, 1 kill | 0.5 M |
| `sessions` | Does a job survive sessions, archives and restores, and does it stay a job of one video? | 2 sessions, 2 roots, 2 videos, 2 chunks, 1 archive, 1 kill or replaced video; one environment and mount | 0.4 M |
| `pipe` | Is only what is exact recorded, and does a pass end and clean up whichever process fails? | 2 chunks of 2 frames of 3 blocks, pipes of 2 blocks and 1 frame, 3 faults | 81 k |
| `planners` | Are all plans exact, including where rounding bites? | timings of up to 3 frames with gaps and durations 1 to 4, regular ones of up to 7, each beginning 0, 1 or 4 ticks after its container; scans of up to 6 frames of 3 pictures; frames of up to 8 pixels | 0.8 M |
| `release` | Can a job start on evidence that does not hold? | 2 cases, receipts and weights with at most one flaw, 1 replaced file | 1.6 M |
| `notebook` | Does the notebook use media it must not, or pass a verdict on another job? | 2 real jobs and the smoke job, 2 chunks, 2 edits, 1 restart | 2.8 M |

Three runs find a disagreement between documents and code (section 6).

**Properties.**

- `TypeOK` (with the schema rule of the manifest), `MemoryIsDiskOrPredecessor`:
  memory is the file or the generation before it.
- `CompleteMeansAllChunks`: a complete job has only complete chunks; also when
  commands overwrite each other (`jobrun_together`).
- `HolderIsNewest`, `CommitIsByNewestLease`: the recorded lease is the newest ever
  made, and no superseded worker's result is committed, even when the newer lease
  is known to the disk only.
- `OnlyExactCompletions`: what is recorded was checked, by commit or by recovery.
- `IntactUnlessContended`, `NoNeedlessRework`: committed files stay as validated,
  and committed work is taken back by recovery only, while a chunk had one holder.
- `ImplementsLedger`: refinement of `JobLedger`.
- `JobCompletes`: after the last disturbance the job becomes and stays complete.
- `GenerationAdvances`, `PauseHolds`: until `raced`, no lost generation, and a pause
  stops leasing until a command that was told to resume.
- `FinishedWorkIsKept`, `RunAloneNeverRaises`, `ReportedVideoIsTheJobs`,
  `CommandEnds`: a chunk whose segment and sidecar are in place is not encoded
  again; a lone run is never refused by its own manifest; the reported video is the
  assembly of what the manifest records; commands end.
- `SegmentsAreOfTheSource`: a chunk recorded as complete was made from the video
  that the identity of its job names, in the directory and in the archive, unless
  the video was replaced under a command that had hashed it: the code does not look
  again, and a replacement in that window is really used.
- `ArchiveKeepsFinishedWork`: an archive of a moving job misses at most what was
  finished after it was begun, and what the command at work has given up: `lease`
  expires leases without a look at the sidecars, so between it and the next recovery a
  chunk can be pending in memory although an older sidecar would complete it
  (`DoneSoFar` leaves such chunks out). The order in which members are read (the
  manifest before the segments, each segment before its sidecar) is part of the model.
- `RecordsDescribeJob`: `timeline.json` and the others beside a manifest are of its
  job. `selection.json` is not: it is replaced before a changed identity is
  refused, so the property is about the others only.
- `AcceptedVideoIsTheJobs`, `JobSurvivesSessions`: what is reported or accepted
  is the assembly of what the manifest records, in the session that made it or a
  later one (what `qa` accepts only if neither `stray` nor `swapped`: it looks at the
  state and at the video, not at the segments); and the job is completed, unless the
  directory belongs to another video, environment or mount.
- `OnlyExactSegments`, `VideoIsWhole`, `NothingLeftBehind`, `PassEnds`: a segment is
  recorded only as exactly its core, from a decoder that supplied no more and exited
  cleanly; a published video has every frame once (a segment changed between the hash
  and FFmpeg's reading excepted, and even then count and PTS are right); no child and
  no partial file stays behind unless the worker itself is killed; the pass ends.
- `EveryFrameOnce`, `CoreLengthsBounded`: the chunks.
- `TimelineFollowsClock`: a normalized timeline lasts as long as the source, skips no
  frame that lasts a whole output frame, and interpolates between neighbours only.
- `DecodedAsPlanned`: a source accepted as CFR is decoded as planned, but delayed by the
  slots (`Delay`) by which the video begins later than its container: as many repetitions
  of its first frame come first, and as many frames at its end are cut off. Jitter moves no
  frame where a tick cannot take it out of its slot (`Steady`; for a video that begins with
  its container, more than two ticks per frame), and by one frame at most where it can. A
  normalized timeline is decoded with the rounding of the filter: never behind the plan,
  and ahead of its time by less than half an output frame.
- `CutsAreNear`, `ScenesAreKept`: a recorded bound has a change of picture less than a
  cadence before it, and where two pictures that score meet and each is held for a cadence
  (or to the end of the video), a bound follows less than a cadence behind. A shorter shot
  may have none. Windows and interpolation keep to the recorded scenes.
- `SamplesCover`: a sample has the count asked for and both sides of every bound.
- `PixelsAreBlended`, `CalibratedTilesFit`: every pixel is covered, two tiles that meet
  fade into each other with weights that sum to one (where no tile overlaps by more
  than half), and a size that passed calibration on frames as large never runs out of
  memory.
- `RecipesAreQualified`, `WeightsAreWhole`, `StartedJobsFit`: a recipe is frozen only
  on audited receipts with all metrics; weights have their registered hash and license,
  and each byte belongs to one tensor (unless replaced between the two readings); a job
  starts only with the memory reserve, disk and time it needs.
- `MediaIsPrivate`, `VerdictIsOfThisJob`: real media is prepared or read only under
  parameters the preflight lets pass; a PASS is about the job at hand, whose video is
  complete, and an archive holds the job it is named after.

**Bounds.** `MaxDisturbances` of `Coordinator` bounds lapses, failures, pauses,
crashes and damage together, so a run has every mixture of up to two. Two workers and
two chunks are the least in which a chunk changes hands while another is under way,
and in which "some" and "all" chunks differ. `MaxCommands` and `MaxKills` bound the
commands of `JobRun`; four commands give run, kill, run, pause and resume in any order.
`MaxSessions`, `MaxArchives` and `MaxDisturbances` of `Sessions` let a job be made,
archived while it runs, lost, restored under another root, and disturbed once in any of
these phases; no archive is made in the last session, as nothing would restore it. `MaxFaults` of `SegmentPipe` lets all three processes of a chunk fail;
frames are longer than the raw pipe, so that the worker reads a frame in pieces and a
surplus frame blocks its decoder. Inputs of the planners are enumerated; `MaxScanned`
bounds the timelines that are scanned, and their sizes let windows and tiles be longer
and shorter than scenes and frames. Leads of 1 and 4 ticks are shorter and longer than a
frame, so a video can begin late by less than a slot, by a whole one and by several. Three
pictures, of which the middle one scores with neither of the others, give cuts, gradual
changes and shots that are gone before the next sample. `MaxReplaced` of `Release` lets one file change
between any two accesses, beside missing, flawed and second-root files from the start.
`MaxEdits` and `MaxStarts` bound the user of the notebook. Generations and lease numbers
are bounded by these and need no bound of their own. Workers, processes, encodings and
real jobs are symmetric (no action tells them apart); symmetry is not used where
liveness is checked. `CHECK_DEADLOCK FALSE` stands in `JobRun`, `SegmentPipe` and the
planners, where bounded commands, a finished pass and a finished plan end the behaviour.

**Fairness.** In `Coordinator`: a call that holds the lock ends, running threads
are scheduled, and time passes (weak fairness on `OpStep`, `Lease`,
`WriteSegment`, `HashSegment` or `SegmentVanished`, `Lapse`). A worker that holds
an encoded segment calls `commit` and gets the lock eventually although other
calls take it in between: strong fairness on `Commit` or `RejectCompletion`, that
is, the RLock does not starve a thread. `Start`, `Resume` and `Recover` are the
operator (or the notebook) running `engvit resume` again and again until the job
is complete; without that the code does not promise completion. No fairness is put on
disturbances. In `JobRun` every process is scheduled (weak fairness of its steps) and
nobody has to start a command. In `Sessions` processes are scheduled, the operator
starts commands and restores again and again, and time passes (strong fairness of
`Lapse`, which is enabled only where a command looks at the clock). In `SegmentPipe`
the worker goes on whenever it can, and a child that has something to read or room to
write goes on too; nothing bounds how long it takes, as the code has no timeout.

## 4. Proofs

Every theorem holds for any number of chunks, workers, commands, sessions, archives,
restarts, failures and replaced files, for timelines, scans, windows and tiles of any
length, and for any rate: the constants of the runs are arbitrary here.

| Theorem | States |
|---|---|
| `CoordinatorProofs!TypeCorrect` | `Spec => []TypeOK` |
| `MemoryFollowsDisk`, `CompleteIsComplete`, `CompletionsAreExact`, `LeasesAreNewest` | `[]MemoryIsDiskOrPredecessor`, `[]CompleteMeansAllChunks`, `[]OnlyExactCompletions`, `[]HolderIsNewest` |
| `CommitsAreNewest` | `CommitIsByNewestLease` |
| `LoneWorkIsIntact`, `LoneWorkIsKept` | `[]IntactUnlessContended`, `NoNeedlessRework` |
| `DurableJobIsALedger` | `ImplementsLedger`, the refinement of `JobLedger` |
| `JobRunProofs!TypeCorrect`, `CompleteJobsAreWhole` | `[]TypeOK`, `[]CompleteMeansAllChunks`, commands overlapping freely |
| `NoLostUpdate`, `PauseIsRespected` | `GenerationAdvances`, `PauseHolds` |
| `CommandsImplementLedger`, `LoneCommandsImplementLedger` | `JobLedger!Spec` of the manifest file, under `[]~raced` and under `[]OneAtATime` |
| `RunIsNeverRefused`, `ReportsAreTrue`, `WorkIsNotRepeated` | `[]RunAloneNeverRaises`, `[]ReportedVideoIsTheJobs`, `FinishedWorkIsKept`, each under `[]OneAtATime` |
| `SessionsProofs!TypeCorrect`, `WorkIsOfTheSource`, `RecordsStayOfTheJob`, `AcceptedVideosAreTrue` | `[]TypeOK`, `[]SegmentsAreOfTheSource`, `[]RecordsDescribeJob`, `[]AcceptedVideoIsTheJobs` |
| `ArchivesKeepWork` | `[]ArchiveKeepsFinishedWork` |
| `SegmentPipeProofs!TypeCorrect` | `[]TypeInv` |
| `ExactSegmentsOnly`, `VideosAreWhole`, `NothingIsLeftBehind` | `OnlyExactSegments`, `[]VideoIsWhole`, `[]NothingLeftBehind` |
| `ReleaseProofs!RecipesRestOnReceipts`, `PlannedWeightsAreWhole`, `StartedJobsHaveRoom` | `[]RecipesAreQualified`, `[]WeightsAreWhole`, `[]StartedJobsFit` |
| `NotebookProofs!VerdictsAreOfTheJob`, `MediaStaysPrivate` | `[]VerdictIsOfThisJob`, `MediaIsPrivate` |
| `PlannerProofs!FramesCoveredOnce`, `CoresContiguous`, `LengthsBounded`, `ContextStaysInside` | the invariants of `ChunkPlan` for every request |
| `PlannedChunksHold` | `[](EveryFrameOnce /\ CoreLengthsBounded /\ CoresAreContiguous /\ ContextInside)` behind the scan |
| `NormalizedFollowsClock`, `DecodingFollowsPlan` | `[]TimelineFollowsClock`, `[]DecodedAsPlanned` |
| `RecordedCutsAreNear`, `PlansKeepScenes`, `SamplesAreWhole` | `[]CutsAreNear`, `[]ScenesAreKept`, `[]SamplesCover` |
| `TilesFit`, `SeamsAreFades` | `[]CalibratedTilesFit`, `[]PixelsAreBlended` |

**Assumptions.** The constants are assumed no more than the code fixes: there is a chunk
(`ChunkAssumption`), "no file" is no content (`PayloadAssumption`), bounds are natural
numbers, scene ends lie inside the output as `detect_scenes` produces them
(`RequestAssumption`), a frame has blocks and pipes have room (`PipeAssumption`), there is
a source, an environment, a mount and an output root (`SourceAssumption`,
`HostAssumption`), the matrix of
cases and the tensors of a header are finite (`MatrixAssumption`, `OfferAssumption`), a
request has natural sizes (`PlanAssumption`), a source is a sequence of timed frames,
rates, cadences and window lengths are positive and interpolation does not lower the rate,
as the code checks, and a video begins no earlier than its container (`PlannerAssumption`),
a picture does not score against itself (`PictureAssumption`), and the sizes of a tiling
are positive (`SettingAssumption`).

### The arguments

`CoordinatorProofs`. `TypeInv` is inductive once it knows that a call at `"sidecar"`
belongs to a worker. The safety properties are not inductive: whether a replacement
keeps them depends on what the call in progress has prepared. `SafetyInv` therefore adds
`OpShape` (a call is under way only in a live process, and staging prepares no
manifest), `OpDerives` (before the replacement, the prepared manifest is the successor
of `current` by the named operation), and `Replaced` (at `"sync"` the file is the
prepared manifest). A stale memory is harmless because the comparison refuses it: in
`ReplaceDerives` the guard `disk = current` turns "derived from memory" into "derived
from the file". Crash and `Start` re-establish it because memory is the file again. The
refinement uses the same invariant: `ReplaceManifest` is the only step that changes the
file, and each kind of call is one ledger step (`LeaseGrants`, `ExpiryReclaims`,
`CommitFinishes`, `PausesAndResumes`, `RecoveryRecovers`); every other action stutters.
That the file of a chunk with a single lease stays what was validated is a statement
about who can still write it, which no call in the code asks. `Undisputed` relates the
holders of a chunk to all that is claimed of its file, by a worker that has published, a
sidecar, a manifest or a call under way: there is one holder at most, and as soon as
anything is claimed, the file is what the claim says and no holder is left that has yet
to write it. Every step repeats earlier claims (`NoNewClaim`), except that hashing makes
the first one. `RecoveryKeeps` carries this from the moment `recover` reads the segments
to the moment its manifest replaces the file.

`JobRunProofs`, commands that overlap. No command may trust the file to stay, so the
invariant says of each command by itself that what it holds and what it is about to
write satisfy the schema and are complete only with all their chunks (`Consistent`), that
what it is about to write is one operation away from what it holds (`Derived`), and, as
long as nothing `raced`, that each pair of accesses saw one file (`PairsSawOneFile`).
Whoever replaces the file then replaces it by the successor of what is there.

`JobRunProofs`, the ledger. `AllOperate` says which operation that successor is: a command
that is about to write applied one of lease, expiry, commit, pause, resume or recover to
the manifest it holds, and `PairsSawOneFile` makes this the manifest in the file. So
several commands together implement `JobLedger` (`CommandsImplementLedger`). The ledger
numbers grants in the order in which they are recorded, while a lease of `JobRun` is
numbered when it is made and its command may be refused before it is recorded. The history
variable `recorded` counts the recorded ones; it decides no step. It counts each lease
once, since no file or command names a lease that has not been made (`MadeInv`). The
hypothesis `[]~raced` is needed: a `pause` that starts around the replacement of a lease
can read the manifest before it and the hash after it, and its own replacement then takes
the lease back. For commands one after the other it always holds.

`JobRunProofs`, commands one after the other. What the operator does is a hypothesis of
the theorem, `[]OneAtATime` (at most one process is not idle); a model of one process
always meets it, and `jobrun_sequential` is such a model. `AloneInv` says at each point of
a command what it knows of the files (`AllInOrder`): its memory is the file until it
writes, and a commit finds the segment that was hashed.

`SessionsProofs`. `Inv` has a part per process. `Entries`: each file, in the directory, in
the archive and in what the archiver and the restorer hold, satisfies its schema, and a
completion in a manifest or sidecar was made from the source of the identity it was
recorded for. `Agrees` and `Whole`: timeline and video stand beside a manifest and are of
its job. `RunFits`: what a command knows at each point, above all that the manifest it
holds is the one on disk. An archive of a moving job is a mixture of files of different
times; `ReadOfJob` says why it does not matter: within a session a manifest is never
removed and keeps its identity, so all that was read is of the identity that is still
there. The exceptions of the properties are in it as `swapped` and `stray`, and are
inherited by archives. Preparing this proof showed two faults of an earlier version of the
model, which the bounds of the run did not reach: the restorer read an archive that could
be replaced under it, and an archive of an unfinished restore was not counted as one.

`SessionsProofs`, the archive. `RecoveredRecord` and `FinishedIsEvident` reduce what a
recovery does to evidence in the files: the manifest records the chunk as complete for the
segment that is there (`Stands`), or the sidecar completes it (`Vouches`). Three invariants
follow. `FreshInv`: no sidecar names a lease that has not been made, so none vouches under
a new one before its command has written it. `SettledInv`: what recovery puts right stays
right; past it, a chunk in memory is complete for the segment that is there, and a leased
one has no evidence until its own sidecar is written. So a command replaces no segment that
counts (`DoneIsUnhanded`). `KeptInv`: for each chunk promised to an archive, the mixture of
what was read and what is still to be read is evidence. A manifest not read yet may be
replaced, but by one that records the chunk as complete and needs no sidecar; one that was
read needs the sidecar that the listing found, which nobody replaces. TLC found the
property false, for two output roots and three sessions, in an earlier form that did not
except what the command had given up: a session under another root leases the chunk anew
and ends; back under the first root a command recovers before that lease has lapsed, and
expires it later; the older sidecar is then worth something again, until the chunk is
leased once more.

`SegmentPipeProofs`. The invariant counts: what the decoder made is what the pipe holds
and the worker has read (`Reading`), what the worker wrote is what the encoder has taken
and its pipe holds (`Writing`), point by point of the generator. `Quiet` says which child
and file may exist at which point, `Recorded` and `Assembled` what a completion and a
published video are.

`ReleaseProofs`. `Qualified` follows a judged receipt from the script's result to the
record and the frozen recipe; `Resolved` an artifact from its hash and header to the plan;
`Admitted` the comparison of a plan with the resources at that moment. That each byte of a
weight file is in one tensor is shown for any finite set of tensors: of those that end
behind the byte the first begins at or before it, since it begins where the ones before it
end (`BytesAreTaken`).

`NotebookProofs`. Cells communicate through globals only, so `Established` says what each
global means once the cell that assigns it has been run for the present parameters.

`PlannerProofs`, the chunks. `BoundaryFacts` bounds the boundary through the choice of the
closest candidate (`ClosestIsCandidate`), and `CoveringGrows` adds exactly the frames of
one core. The same steps serve `FramePlan`: scene bounds lie inside the timeline
(`BoundsAreInside`), so `BeginChunks` makes a valid request of them.

`PlannerProofs`, the timeline. All of it is arithmetic over one time base: `Timed` says
that the output is what `plan_timeline` computes from a usable source, and the properties
follow from that state alone. For a CFR source `NearbySlot` rounds: a frame whose place is
within a tick of a whole number of frames behind the lead lands at most one slot from the
one that the lead rounds to, and in that one when the rest of the lead and the tick stay
below half a frame (`SlotOfFrame`). `DecodedFacts` says which frame fills a slot, and
`DecodingFollowsPlan` reads off the frame from both. For a normalized one
`NormalizedHasBegun` and the bounds of the rounding (`NearestFacts`) give the two sides of
what is decoded, and `ShownIs` says that the frame planned at a position is the only one
that has begun and whose successor has not, because places rise.

`PlannerProofs`, the scan. `ScanInv` carries, while rows are collected, what each row is
compared with (`Linked`): the sample before it, not more than a cadence back, so that rows
lie densely. A row keeps that (`RowKeepsLinked`), since every multiple of the cadence and
the last frame are sampled (`CadenceStep`). A row that scores compares different pictures,
hence a picture changes between the two; and where two held pictures meet, the first row
at or behind the change shows the one and its predecessor the other, so the row scores. `SceneInv` says that the scenes closed so far
partition the timeline and begin at the rows that scored; a new scene cuts the last one in
two (`PartitionCut`). Windows, ticks and samples then need the partition only: a frame has
one scene (`SceneOfIs`) and one multiple of the core length below it (`MultipleBelow`), a
tick rounded up to a frame falls on it (`TickOfFrame`), and as long as fewer frames are
chosen than asked for, `FillBin` finds one more, so that nothing is left for the top-up
(`SamplesFill`).

`PlannerProofs`, the tiles. `TileInv` has the candidates tried (`Tried`), the one selected
(`Selected`) and the positions so far (`Placed`: rising, inside, without a gap). Where two
tiles alone hold a pixel they are neighbours, and their weights are the two ends of one
ramp (`Seam`).

Where a proof needs induction over data it takes a least element instead: of the
candidates of a boundary, of the names that the archiver has still to read
(`FirstIsChosen`), of the chunks of a list.

### What is only model-checked

- All liveness (`JobCompletes`, `CommandEnds`, `JobSurvivesSessions`, `PassEnds`): fairness
  and `ENABLED` are beyond the prover.

No module uses RECURSIVE operators.

## 5. Not modelled, and the plan

Not modelled: pixel arithmetic, neural networks (`models/dni.py`, adapters), FFmpeg
command lines but for the fps filter, what that filter does at the end of the stream,
deinterlacing and telecine, parsing of probe output and color and
geometry decisions (`media/probe.py`, `media/color.py`, `media/geometry.py`), remuxing
(called by nothing), the capture of the environment and the verification of wheels,
HTML previews, the disk estimate, the benchmark record and the encoder probe, fidelity
metrics and `quality/decision.py` (a pure rule over numbers that nothing chains to the
job), and `orchestration/worker.py`, which is called by nothing. They keep no state of
a job, or are numeric, or are inputs of the modules above. A power loss that tears
files apart is a damaged segment (`Damage`); torn manifests are not modelled, as this
would be a model of the file system.

Where a property says less than its name may suggest:

- `DecodedAsPlanned` compares neither a timeline for rife, whose interpolated frames no
  filter makes, nor a normalized one of a video that begins late.
- `CommandEnds` and `RunAloneNeverRaises` are about a command that runs alone; under other
  commands that write the manifest meanwhile, whether the loop of a run ends is not checked.
- `OnlyExactCompletions` takes it as given whether a completion fits the chunk; that the
  file which was hashed is another worker's is the concern of `IntactUnlessContended` and of
  `coordinator_contended`.
- `RecipesAreQualified` follows the receipt that was parsed. The hash that the report gives
  for it is of another reading, and no code compares the two.
- `WeightsAreWhole` excepts a file that was replaced between its hash and its header.
- `MediaIsPrivate` and `VerdictIsOfThisJob` are about cells run in the order of the runbook:
  no cell behind Section 3 is run when that raised or was overtaken by an edit. The cells
  themselves check none of this. In other orders two things are seen in the code: Section 4
  resets `prepared` and not `result`, so Section 7 can compare the video of one job with
  the plan of another, and Section 8 names the archive by the present `JOB_ID`.

Every safety invariant and every action property of the passing runs is proved. Left is
a model of the notebook's cells in any order.

## 6. Where documents and code disagree

| Run | Says | Does |
|---|---|---|
| `coordinator_contended` | "Workers never write shared state." (implementation plan, line 20) | `pipeline.py:160` gives every worker of a chunk one path: a late worker replaces a committed segment. `recover` detects it and the chunk is encoded again. |
| `jobrun_pause` | "`pause_requested -> paused` at the next committed segment" (line 510) | the pause changes the manifest under the running command, whose commit is refused; the run raises and the job stays `pause_requested` until a recovery. The work is found then (`FinishedWorkIsKept`). |
| `sessions_moved` | identities "exclude timestamps, host paths" (line 333); the same object "hashes identically across runs/path roots" (line 347) | `kaggle.py:294` hashes `canonical_path`: where the dataset is mounted elsewhere, a restored job of the same video in the same environment is refused as another job. (The environment is hashed too, and a changed one is to be refused: line 505, `docs/operations.md:11` and `:41`. The run leaves it as it is.) |

More was seen while modelling and is not among the runs. Compare and replace
(`atomic.py:55`) are separate, so two commands can both pass the comparison and one
update is lost, where the plan asks that simultaneous workers "fail without lost
updates" (line 517): this is what `raced` records. A run restarted before the lease of
a killed one has expired ends with a running job, where the docstring says "until
complete or explicitly paused" (`pipeline.py:81`). The context of a chunk is clipped to
the output only (`orchestration/chunks.py:88`), where the design says that no decoder
context crosses a scene cut (line 267); the notebook plans without scenes, so only
callers that pass scenes see it.

Three more are about frames. A video that begins later than its container is decoded with
its first frame repeated and its last ones cut off, since `media/filters.py:149` counts from
the container's start and the `start_pts` of the probe is used by nothing (`Delay` in
`DecodedAsPlanned`); the implementation plan has fixtures with a non-zero start match a
reference at every boundary (line 452). The plan of a normalized timeline takes the last source
frame at or before a position (`media/timeline.py:104`) where the filter rounds to the
nearest. And a shot that comes and goes between two samples of the scan has no scene bound
(`analysis/proxy_scan.py:48`), so windows and interpolated pairs can mix it with its
neighbours.
