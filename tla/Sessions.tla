------------------------------ MODULE Sessions ------------------------------
(***************************************************************************)
(* One job over several Kaggle sessions: prepare_phase0 and the run that   *)
(* follows it (kaggle.py), engvit persist, which packs the job directory   *)
(* into an archive while a run may be at work in it (cli.py,               *)
(* persistence.py), and resume_continuation, which rebuilds the directory  *)
(* in a later session.                                                     *)
(*                                                                         *)
(* The job directory is a function from the names of the files that exist  *)
(* to their contents, and so is an archive.  A session ends at any moment: *)
(* its directory is lost, the archive is not.  Three processes work on the *)
(* directory: a command (run), the archiver (pack) and the restorer        *)
(* (unpack); one action is one file that one of them reads or writes.      *)
(*                                                                         *)
(* A video is a member of Payloads, and so is what is made from it: the    *)
(* content of a segment is the video its frames were read from.  The       *)
(* identity of a job names the video that was hashed, the video the        *)
(* timeline was read from, and the host: the path of the selection, which  *)
(* says where the dataset is mounted, and the EnvironmentLock.             *)
(*                                                                         *)
(* What several commands do to one manifest at once is in JobRun.          *)
(***************************************************************************)
EXTENDS ManifestOps

CONSTANTS
  Environments,     \* what a session can run in (EnvironmentLock)
  Paths,            \* where the dataset can be mounted (canonical_path)
  Roots,            \* output roots a session can use
  NoArchive, NoHost,
  PauseEach,        \* commands are given max_new_chunks = 1 rather than no limit
  MaxArchives,      \* bound on the archives made, before the last session
  MaxSessions,      \* bound on the sessions
  MaxDisturbances   \* bound on kills and replaced videos together

ASSUME SourceAssumption == Payloads # {}
ASSUME HostAssumption == Environments # {} /\ Paths # {} /\ Roots # {}
ASSUME PauseAssumption == PauseEach \in BOOLEAN
ASSUME BoundAssumption == MaxArchives \in Nat /\ MaxSessions \in Nat /\ MaxDisturbances \in Nat

VARIABLES
  video,         \* the file at the path of the source: [serial, content]
  session,       \* [host, root] of the session that runs
  laidOut,       \* the directories of the job exist (create_job_paths)
  tree,          \* the files in them
  archive,       \* the archive kept outside the session
  run,           \* the command at work
  pack,          \* engvit persist
  unpack,        \* resume_continuation
  issued,        \* leases made so far (uuid4)
  lapsed,        \* the newest lease whose deadline has passed
  archives,      \* archives made
  sessions,      \* sessions so far
  disturbances,  \* counts against MaxDisturbances
  swapped,       \* history: the video was replaced under a command that had hashed it
  stray          \* history: the directory is what an unfinished restore left

vars == <<video, session, laidOut, tree, archive, run, pack, unpack, issued, lapsed,
          archives, sessions, disturbances, swapped, stray>>

world == <<video, session, sessions, disturbances, swapped, stray>>
others == <<world, archive, pack, unpack, archives, lapsed>>

Hosts == [environment : Environments, path : Paths]

\* What tells two identities apart: of the fields that canonical_sha256 does
\* not exclude, those that can differ between two commands for one job.
Identity == [source : Payloads, timing : Payloads, host : Hosts]

\* A CompletionRecord as it is stored.  The chunk identity in it is derived
\* from the job's.
Stored == [sha : Payloads, root : Roots, identity : Identity]

File_(kind, c) == [kind |-> kind, chunk |-> c]
Artifact(kind) == File_(kind, 0)
Partial(c) == File_("partial", c)
Segment(c) == File_("segment", c)
SidecarOf(c) == File_("sidecar", c)

Artifacts == {Artifact(k) : k \in {"enhanced-video", "manifest", "selection", "timeline"}}
SegmentFiles == {File_(k, c) : k \in {"partial", "segment", "sidecar"}, c \in Chunks}
Names == Artifacts \union SegmentFiles

\* The order of sorted(): artifacts/ before segments/, where the hidden .partial
\* files come first, and each segment before its completion sidecar.
Position(name) ==
  CASE name.kind = "enhanced-video" -> 1
    [] name.kind = "manifest" -> 2
    [] name.kind = "selection" -> 3
    [] name.kind = "timeline" -> 4
    [] name.kind = "partial" -> 4 + name.chunk
    [] name.kind = "segment" -> 3 + NChunks + 2 * name.chunk
    [] name.kind = "sidecar" -> 4 + NChunks + 2 * name.chunk
FirstOf(names) == CHOOSE n \in names : \A m \in names : Position(n) <= Position(m)

Has(files, name) == name \in DOMAIN files
With(files, name, content) ==
  [n \in DOMAIN files \union {name} |-> IF n = name THEN content ELSE files[n]]
Without(files, name) == [n \in DOMAIN files \ {name} |-> files[n]]
Empty == [n \in {} |-> {}]

Content(files, name) == IF Has(files, name) THEN files[name] ELSE NoFile

-----------------------------------------------------------------------------
(***************************************************************************)
(* The manifest as a coordinator under an output root reads and writes it: *)
(* a completion fits only where its absolute path lies inside the segments *)
(* directory, and only for the job it was made for.                        *)
(***************************************************************************)
AsRead(stored, root, identity) ==
  IF stored = NoCompletion THEN NoCompletion
  ELSE [sha |-> stored.sha, fits |-> stored.root = root /\ stored.identity = identity]

ReadManifest(files, root, identity) ==
  LET m == files[Artifact("manifest")].body
  IN [m EXCEPT !.chunks =
        [c \in Chunks |-> [m.chunks[c] EXCEPT
                             !.completion = AsRead(m.chunks[c].completion, root, identity)]]]

AsStored(k, root, identity) ==
  IF k = NoCompletion THEN NoCompletion
  ELSE [sha |-> k.sha, root |-> root, identity |-> identity]

\* The identity of an existing manifest is carried from one generation to the
\* next.  A coordinator writes completions only after recover reset those that
\* do not fit, so those it writes are of its own root and identity.
WriteManifest(files, m, root, identity) ==
  With(files, Artifact("manifest"),
       [identity |-> IF Has(files, Artifact("manifest"))
                       THEN files[Artifact("manifest")].identity ELSE identity,
        body |-> [m EXCEPT !.chunks =
          [c \in Chunks |-> [m.chunks[c] EXCEPT
                               !.completion = AsStored(m.chunks[c].completion, root, identity)]]]])

\* What recover, in a command of this identity under this root, makes of the
\* records in a directory.
Recovered(files, root, identity, newest) ==
  RecoveredChunks(
    ReadManifest(files, root, identity).chunks,
    [c \in Chunks |-> newest],
    [c \in Chunks |-> Content(files, Segment(c))],
    [c \in Chunks |-> IF Has(files, SidecarOf(c))
       THEN [files[SidecarOf(c)] EXCEPT !.completion = AsRead(@, root, identity)]
       ELSE NoSidecar])

\* The chunks whose work a command under this root would find done, deadlines
\* aside.
Finished(files, root) ==
  IF ~Has(files, Artifact("manifest")) THEN {}
  ELSE LET identity == files[Artifact("manifest")].identity
       IN {c \in Chunks : Recovered(files, root, identity, 0)[c].status = "complete"}

-----------------------------------------------------------------------------
RunPoints == {"idle", "stat", "hash", "selection", "probe", "construct", "timeline",
              "recover", "reopen", "lease", "encode",
              "publish", "sidecar", "commit", "committed", "finish", "concat"}

\* Where a command has been through recover.
PastRecovery == {"reopen", "lease", "encode", "publish", "sidecar", "commit", "committed",
                 "finish", "concat"}

Outcomes == JobStates \union {"none", "accepted", "refused", "error"}

AnyIdentity == [source : File, timing : File, host : Hosts \union {NoHost}]
NoIdentity == [source |-> NoFile, timing |-> NoFile, host |-> NoHost]

Ended(outcome) ==
  [at |-> "idle", seen |-> 0, identity |-> NoIdentity,
   mem |-> FirstManifest, chunk |-> 1, lease |-> 0, outcome |-> outcome]

\* Which of them comes first is arbitrary.
FirstVideo == CHOOSE v \in Payloads : TRUE
FirstSession == CHOOSE s \in [host : Hosts, root : Roots] : TRUE

NoPack == [at |-> "idle", todo |-> {}, read |-> Empty, finished |-> {}, stray |-> FALSE]

NoUnpack == [at |-> "idle", todo |-> {}, files |-> Empty]

Init ==
  /\ video = [serial |-> 0, content |-> FirstVideo]
  /\ session = FirstSession
  /\ laidOut = FALSE
  /\ tree = Empty
  /\ archive = NoArchive
  /\ run = Ended("none")
  /\ pack = NoPack
  /\ unpack = NoUnpack
  /\ issued = 0
  /\ lapsed = 0
  /\ archives = 0
  /\ sessions = 1
  /\ disturbances = 0
  /\ swapped = FALSE
  /\ stray = FALSE

-----------------------------------------------------------------------------
(***************************************************************************)
(* prepare_phase0                                                          *)
(***************************************************************************)
Goto(point) == run' = [run EXCEPT !.at = point]

\* The operator starts engvit resume or engvit qa, which prepare alike; where
\* there is an archive, not before its restore was begun.
StartRun ==
  /\ run.at = "idle"
  /\ unpack.at = "idle" /\ pack.at = "idle"
  /\ laidOut \/ archive = NoArchive
  /\ run' = [Ended("none") EXCEPT !.at = "stat"]
  /\ UNCHANGED <<others, laidOut, tree, issued>>

\* resolve_safe_media: one stat call of the source.
StatSource ==
  /\ run.at = "stat"
  /\ run' = [run EXCEPT !.at = "hash", !.seen = video.serial]
  /\ UNCHANGED <<others, laidOut, tree, issued>>

\* _sha256_verified: the file hashed is the one that was stat'ed, before and
\* after the hashing.
HashSource ==
  /\ run.at = "hash"
  /\ run' = IF run.seen = video.serial
              THEN [run EXCEPT !.at = "selection", !.identity.source = video.content]
              ELSE Ended("error")
  /\ UNCHANGED <<others, laidOut, tree, issued>>

\* The directories are laid out and selection.json is replaced.
WriteSelection ==
  /\ run.at = "selection"
  /\ laidOut' = TRUE
  /\ tree' = With(tree, Artifact("selection"), run.identity.source)
  /\ Goto("probe")
  /\ UNCHANGED <<others, issued>>

\* Slip: the timeline is recorded as soon as it is known.
ProbeAndRecord ==
  /\ run.at = "probe"
  /\ tree' = With(tree, Artifact("timeline"),
                  [run.identity EXCEPT !.timing = video.content, !.host = session.host])
  /\ run' = [run EXCEPT !.at = "construct", !.identity.timing = video.content,
                        !.identity.host = session.host]
  /\ UNCHANGED <<others, laidOut, issued>>

\* The source is read again for its streams and frame times, and the
\* environment is captured.
Probe ==
  /\ run.at = "probe"
  /\ run' = [run EXCEPT !.at = "construct", !.identity.timing = video.content,
                        !.identity.host = session.host]
  /\ UNCHANGED <<others, laidOut, tree, issued>>

\* Slip: whatever manifest is found is taken for the job's.
ConstructAnyIdentity ==
  /\ run.at = "construct"
  /\ IF Has(tree, Artifact("manifest"))
       THEN /\ run' = [run EXCEPT !.at = "timeline",
                         !.mem = ReadManifest(tree, session.root, run.identity)]
            /\ UNCHANGED tree
       ELSE /\ tree' = WriteManifest(tree, FirstManifest, session.root, run.identity)
            /\ run' = [run EXCEPT !.at = "timeline", !.mem = FirstManifest]
  /\ UNCHANGED <<others, laidOut, issued>>

\* Coordinator.__init__: a manifest of another job is refused.
Construct ==
  /\ run.at = "construct"
  /\ IF ~Has(tree, Artifact("manifest"))
       THEN /\ tree' = WriteManifest(tree, FirstManifest, session.root, run.identity)
            /\ run' = [run EXCEPT !.at = "timeline", !.mem = FirstManifest]
     ELSE /\ UNCHANGED tree
          /\ run' = IF tree[Artifact("manifest")].identity = run.identity
                      THEN [run EXCEPT !.at = "timeline",
                              !.mem = ReadManifest(tree, session.root, run.identity)]
                      ELSE Ended("refused")
  /\ UNCHANGED <<others, laidOut, issued>>

\* timeline.json, geometry.json and environment.json, one for the three: what
\* the identity was derived from.
WriteRecords ==
  /\ run.at = "timeline"
  /\ tree' = With(tree, Artifact("timeline"), run.identity)
  /\ Goto("recover")
  /\ UNCHANGED <<others, laidOut, issued>>

-----------------------------------------------------------------------------
(***************************************************************************)
(* run_prepared_phase0 and qa                                              *)
(***************************************************************************)
\* A generation of the manifest is written and becomes the memory.
Persisted(m, next) ==
  /\ tree' = WriteManifest(tree, m, session.root, run.identity)
  /\ run' = [run EXCEPT !.at = next, !.mem = m]

RecoverJob ==
  LET mem == ReadManifest(tree, session.root, run.identity)
      records == Recovered(tree, session.root, run.identity, lapsed)
      state == StateAfterRecover(mem.state, records)
  IN /\ run.at = "recover"
     /\ IF records # mem.chunks \/ state # mem.state
          THEN Persisted(NextManifest(mem, records, state), "reopen")
          ELSE /\ run' = [run EXCEPT !.at = "reopen", !.mem = mem]
               /\ UNCHANGED tree
     /\ UNCHANGED <<others, laidOut, issued>>

\* Slip: a job is reopened by the command that paused it only.
ReopenOwnPause ==
  /\ run.at = "reopen"
  /\ Goto("lease")
  /\ UNCHANGED <<others, tree, laidOut, issued>>

\* engvit resume makes a paused job run again (resume_paused).
Reopen ==
  /\ run.at = "reopen"
  /\ IF run.mem.state = "paused"
       THEN Persisted(NextManifest(run.mem, run.mem.chunks, "running"), "lease")
       ELSE Goto("lease") /\ UNCHANGED tree
  /\ UNCHANGED <<others, laidOut, issued>>

Lease ==
  LET records == Expire(run.mem.chunks, [c \in Chunks |-> lapsed])
      next == {c \in Chunks : IsFirstPending(records, c)}
  IN /\ run.at = "lease"
     /\ IF run.mem.state # "running" \/ next = {}
          THEN Goto("finish") /\ UNCHANGED <<tree, issued>>
          ELSE \E c \in next :
            LET m == NextManifest(run.mem, [records EXCEPT ![c] = LeasedRecord(issued')],
                                  "running")
            IN /\ issued' = issued + 1
               /\ tree' = WriteManifest(tree, m, session.root, run.identity)
               /\ run' = [run EXCEPT !.at = "encode", !.mem = m, !.chunk = c,
                                     !.lease = issued']
     /\ UNCHANGED <<others, laidOut>>

\* The source is decoded once more, into a temporary file ...
Encode ==
  /\ run.at = "encode"
  /\ tree' = With(tree, Partial(run.chunk), video.content)
  /\ Goto("publish")
  /\ UNCHANGED <<others, laidOut, issued>>

\* ... which is renamed to the segment.
Publish ==
  /\ run.at = "publish"
  /\ tree' = With(Without(tree, Partial(run.chunk)), Segment(run.chunk),
                  tree[Partial(run.chunk)])
  /\ Goto("sidecar")
  /\ UNCHANGED <<others, laidOut, issued>>

WriteSidecar ==
  /\ run.at = "sidecar"
  /\ tree' = With(tree, SidecarOf(run.chunk),
                  [lease |-> run.lease,
                   completion |-> [sha |-> tree[Segment(run.chunk)], root |-> session.root,
                                   identity |-> run.identity]])
  /\ Goto("commit")
  /\ UNCHANGED <<others, laidOut, issued>>

Commit ==
  LET records == [run.mem.chunks EXCEPT ![run.chunk] =
                    CompleteRecord(run.lease, [sha |-> tree[Segment(run.chunk)], fits |-> TRUE])]
  IN /\ run.at = "commit"
     /\ Persisted(NextManifest(run.mem, records, StateAfterCommit(run.mem.state, records)),
                  "committed")
     /\ UNCHANGED <<others, laidOut, issued>>

\* max_new_chunks = 1 asks for a pause after each chunk, as in JobRun.
Committed ==
  /\ run.at = "committed"
  /\ IF PauseEach /\ run.mem.state = "running"
       THEN Persisted(NextManifest(run.mem, run.mem.chunks, StateAfterPause(run.mem.chunks)),
                      "finish")
       ELSE Goto("lease") /\ UNCHANGED tree
  /\ UNCHANGED <<others, laidOut, issued>>

\* The state is reported, or the segments of a complete job are checked ...
Finish ==
  /\ run.at = "finish"
  /\ IF run.mem.state # "complete" THEN run' = Ended(run.mem.state)
     ELSE IF \A c \in Chunks : Content(tree, Segment(c)) = run.mem.chunks[c].completion.sha
       THEN Goto("concat")
       ELSE run' = Ended("error")
  /\ UNCHANGED <<others, laidOut, tree, issued>>

\* ... and assembled.
Concat ==
  /\ run.at = "concat"
  /\ tree' = With(tree, Artifact("enhanced-video"), [c \in Chunks |-> tree[Segment(c)]])
  /\ run' = Ended("complete")
  /\ UNCHANGED <<others, laidOut, issued>>

\* Slip: any video that is there is accepted.
QaAnyVideo ==
  /\ run.at = "recover"
  /\ Has(tree, Artifact("enhanced-video"))
  /\ run' = Ended("accepted")
  /\ UNCHANGED <<others, laidOut, tree, issued>>

\* engvit qa goes on here instead, from the manifest that the constructor read:
\* it says complete, and there is a video.  A qa that is refused changes nothing
\* and is left out.
Qa ==
  /\ run.at = "recover"
  /\ run.mem.state = "complete" /\ Has(tree, Artifact("enhanced-video"))
  /\ run' = Ended("accepted")
  /\ UNCHANGED <<others, laidOut, tree, issued>>

-----------------------------------------------------------------------------
(***************************************************************************)
(* engvit persist                                                          *)
(***************************************************************************)
Present(names) == names \intersect DOMAIN tree

\* A command is not started while an archive is made, nor an archive while a
\* command still prepares.
Preparing == run.at \in {"stat", "hash", "selection", "probe", "construct", "timeline"}

\* What a recovery would find done, but for what the command at work, past its
\* own recovery, takes for pending: it has expired the lease of an earlier one,
\* and lease looks at no sidecar.
DoneSoFar ==
  {c \in Finished(tree, session.root) :
     run.at \in PastRecovery => run.mem.chunks[c].status # "pending"}

\* The job directories are laid out and artifacts/ is listed.  Bound: no archive
\* is made where no session is left that could restore it.
BeginPack ==
  /\ pack.at = "idle"
  /\ ~Preparing
  /\ archives < MaxArchives /\ sessions < MaxSessions
  /\ archives' = archives + 1
  /\ laidOut' = TRUE
  /\ pack' = [at |-> "list", todo |-> Present(Artifacts), read |-> Empty,
              finished |-> DoneSoFar,
              stray |-> stray \/ unpack.at # "idle"]
  /\ UNCHANGED <<world, tree, archive, run, unpack, issued, lapsed>>

\* Slip: the sidecars are taken for temporary files.
ListWithoutSidecars ==
  LET names == pack.todo \union {n \in Present(SegmentFiles) : n.kind # "sidecar"}
  IN /\ pack.at = "list"
     /\ pack' = IF names = {} THEN NoPack ELSE [pack EXCEPT !.at = "read", !.todo = names]
     /\ UNCHANGED <<world, laidOut, tree, archive, run, unpack, issued, lapsed, archives>>

\* segments/ is listed; an empty list is refused.
ListSegments ==
  LET names == pack.todo \union Present(SegmentFiles)
  IN /\ pack.at = "list"
     /\ pack' = IF names = {} THEN NoPack ELSE [pack EXCEPT !.at = "read", !.todo = names]
     /\ UNCHANGED <<world, laidOut, tree, archive, run, unpack, issued, lapsed, archives>>

\* The files listed are read one by one; one that is gone ends the command and
\* the temporary archive is removed.
ReadMember ==
  /\ pack.at = "read"
  /\ pack.todo # {}
  /\ LET name == FirstOf(pack.todo)
     IN pack' = IF Has(tree, name)
                  THEN [pack EXCEPT !.todo = @ \ {name}, !.read = With(@, name, tree[name])]
                  ELSE NoPack
  /\ UNCHANGED <<world, laidOut, tree, archive, run, unpack, issued, lapsed, archives>>

\* The archive replaces the one before it.
PublishArchive ==
  /\ pack.at = "read"
  /\ pack.todo = {}
  /\ archive' = [files |-> pack.read, finished |-> pack.finished,
                 root |-> session.root, stray |-> pack.stray]
  /\ pack' = NoPack
  /\ UNCHANGED <<world, laidOut, tree, run, unpack, issued, lapsed, archives>>

-----------------------------------------------------------------------------
(***************************************************************************)
(* resume_continuation                                                     *)
(***************************************************************************)
\* The archive is verified.  Any entry under the destination, a directory
\* included, refuses it.
BeginUnpack ==
  /\ unpack.at = "idle" /\ run.at = "idle"
  /\ archive # NoArchive
  /\ ~laidOut
  /\ laidOut' = TRUE
  /\ unpack' = [at |-> "write", todo |-> DOMAIN archive.files, files |-> archive.files]
  /\ stray' = archive.stray
  /\ UNCHANGED <<video, session, sessions, disturbances, swapped, tree, archive, run, pack,
                 issued, lapsed, archives>>

\* Each member is verified and written.
WriteMember ==
  LET name == FirstOf(unpack.todo)
  IN /\ unpack.at = "write"
     /\ tree' = With(tree, name, unpack.files[name])
     /\ unpack' = IF unpack.todo = {name} THEN NoUnpack ELSE [unpack EXCEPT !.todo = @ \ {name}]
     /\ UNCHANGED <<world, laidOut, archive, run, pack, issued, lapsed, archives>>

-----------------------------------------------------------------------------
(***************************************************************************)
(* The world.                                                              *)
(***************************************************************************)
Disturb ==
  /\ disturbances < MaxDisturbances
  /\ disturbances' = disturbances + 1

\* The session is over; the next one runs elsewhere with an empty directory.
EndSession ==
  /\ sessions < MaxSessions
  /\ sessions' = sessions + 1
  /\ session' \in [host : Hosts, root : Roots]
  /\ laidOut' = FALSE
  /\ tree' = Empty
  /\ run' = Ended("none")
  /\ pack' = NoPack
  /\ unpack' = NoUnpack
  /\ stray' = FALSE
  /\ UNCHANGED <<video, archive, issued, lapsed, archives, disturbances, swapped>>

\* A process is killed: the files it wrote stay.
Kill ==
  /\ Disturb
  /\ \/ run.at # "idle" /\ run' = Ended("error") /\ UNCHANGED <<pack, unpack, stray>>
     \/ pack.at # "idle" /\ pack' = NoPack /\ UNCHANGED <<run, unpack, stray>>
     \/ unpack.at # "idle" /\ unpack' = NoUnpack /\ stray' = TRUE /\ UNCHANGED <<run, pack>>
  /\ UNCHANGED <<video, session, sessions, laidOut, tree, archive, issued, lapsed, archives,
                 swapped>>

\* Another video is put in the place of the source.
SwapVideo ==
  /\ Disturb
  /\ \E v \in Payloads \ {video.content} :
       video' = [serial |-> video.serial + 1, content |-> v]
  /\ swapped' = (swapped \/ run.at \notin {"idle", "stat", "hash"})
  /\ UNCHANGED <<session, sessions, laidOut, tree, archive, run, pack, unpack, issued, lapsed,
                 archives, stray>>

\* The deadlines of the leases made so far pass.  Where no command is about to
\* look at them it makes no difference when.
Lapse ==
  /\ lapsed < issued
  /\ run.at \in {"recover", "lease"}
  /\ lapsed' = issued
  /\ UNCHANGED <<world, laidOut, tree, archive, run, pack, unpack, issued, archives>>

RunStep ==
  \/ StatSource \/ HashSource \/ WriteSelection \/ Probe \/ Construct
  \/ WriteRecords
  \/ RecoverJob \/ Reopen \/ Lease \/ Encode \/ Publish \/ WriteSidecar
  \/ Commit \/ Committed \/ Finish \/ Concat \/ Qa

PackStep == ListSegments \/ ReadMember \/ PublishArchive

Next ==
  \/ StartRun \/ RunStep \/ BeginPack \/ PackStep \/ BeginUnpack \/ WriteMember
  \/ EndSession \/ Kill \/ SwapVideo \/ Lapse

Spec == Init /\ [][Next]_vars

\* Processes that run are scheduled, the operator starts commands and restores
\* again and again (a start is enabled only where nothing runs, so it shares a
\* condition with the steps that follow, each of which changes its process), and
\* time passes (strongly fair because Lapse is enabled only where a command
\* looks at the clock).
FairSpec ==
  /\ Spec
  /\ WF_run(StartRun \/ RunStep) /\ WF_pack(PackStep)
  /\ WF_unpack(BeginUnpack \/ WriteMember) /\ SF_lapsed(Lapse)

-----------------------------------------------------------------------------
(***************************************************************************)
(* Properties.                                                             *)
(***************************************************************************)
StoredManifest ==
  [identity : Identity,
   body : [gen : Nat, state : JobStates,
           chunks : [Chunks -> [status : {"pending", "leased", "complete"}, lease : Nat,
                                completion : Stored \union {NoCompletion}]]]]

ContentOf(kind) ==
  CASE kind = "enhanced-video" -> [Chunks -> Payloads]
    [] kind = "timeline" -> Identity
    [] kind = "manifest" -> StoredManifest
    [] kind = "sidecar" -> [lease : Nat, completion : Stored]
    [] OTHER -> Payloads

IsTree(files) == \A n \in DOMAIN files : files[n] \in ContentOf(n.kind)

\* Every variable has its type; the manifest in memory and the one on disk
\* hold only records that the schema admits.
TypeOK ==
  /\ video.content \in Payloads /\ video.serial \in Nat
  /\ session \in [host : Hosts, root : Roots]
  /\ laidOut \in BOOLEAN /\ (tree # Empty => laidOut)
  /\ IsTree(tree)
  /\ archive # NoArchive => IsTree(archive.files)
  /\ run.at \in RunPoints /\ run.outcome \in Outcomes /\ run.identity \in AnyIdentity
  /\ run.mem \in Manifest /\ \A c \in Chunks : WellFormed(run.mem.chunks[c])
  /\ unpack.at \in {"idle", "write"}
  /\ lapsed \in 0..issued

\* A chunk that a manifest records as complete was made from the video that
\* the identity of the job names, through kills, restores, other videos in the
\* place of the source and archives made of a job at work.  The code hashes
\* the source once per command and does not look at it again, so a video that
\* is replaced under a command is the exception.
HoldsItsSource(files) ==
  Has(files, Artifact("manifest")) =>
    LET m == files[Artifact("manifest")]
    IN \A c \in Chunks :
         m.body.chunks[c].status = "complete" =>
           m.body.chunks[c].completion.sha = m.identity.source
SegmentsAreOfTheSource ==
  swapped \/ /\ HoldsItsSource(tree)
             /\ archive # NoArchive => HoldsItsSource(archive.files)

\* An archive made while a run is at work misses at most what was finished
\* after it was begun: every chunk that a recovery would have found done when
\* the listing started is found done in the archive, whatever the run and the
\* clock do in between and in whatever order files are read.  What the run at
\* work has already given up (DoneSoFar) is the exception.
ArchiveKeepsFinishedWork ==
  archive # NoArchive => archive.finished \subseteq Finished(archive.files, archive.root)

\* The timeline, geometry and environment records next to a manifest are those
\* of its job: a command that is refused for its identity leaves them alone,
\* and an archive holds them together.  What an unfinished restore left is the
\* exception, and an archive of it.
Describes(files) ==
  Has(files, Artifact("manifest")) /\ Has(files, Artifact("timeline")) =>
    files[Artifact("timeline")] = files[Artifact("manifest")].identity
RecordsDescribeJob ==
  /\ stray \/ Describes(tree)
  /\ archive # NoArchive => archive.stray \/ Describes(archive.files)

\* A video that run reports is assembled from the segments that the manifest
\* records, and so is one that qa accepts, in the session that made it or a
\* later one.  qa looks at the state of the manifest and at the video, not at
\* the segments: what an unfinished restore left, or a job made anew under
\* another root from a video that was replaced meanwhile, is the exception.
AcceptedVideoIsTheJobs ==
  run.outcome = "complete" \/ (run.outcome = "accepted" /\ ~stray /\ ~swapped) =>
    \A c \in Chunks :
      tree[Artifact("enhanced-video")][c]
        = tree[Artifact("manifest")].body.chunks[c].completion.sha

\* A command over a directory of the same video in the same environment is not
\* refused: identities exclude host paths, and the same object hashes
\* identically across path roots (implementation plan, lines 333 and 347).
\* Another environment is to be refused (line 505).
SameVideoIsNotRefused ==
  run.outcome = "refused" =>
    LET found == tree[Artifact("manifest")].identity
    IN \/ {found.source, found.timing} # {video.content}
       \/ found.host.environment # session.host.environment

\* Whatever sessions end and processes are killed, the job is completed in the
\* end, unless its directory belongs to another video, environment or mount.
Done == /\ Has(tree, Artifact("manifest"))
        /\ tree[Artifact("manifest")].body.state = "complete"
Foreign ==
  /\ Has(tree, Artifact("manifest"))
  /\ tree[Artifact("manifest")].identity
       # [source |-> video.content, timing |-> video.content, host |-> session.host]
JobSurvivesSessions == <>[](Done \/ Foreign)
=============================================================================
