------------------------------- MODULE JobRun -------------------------------
(***************************************************************************)
(* The operator's commands on one job (cli.py, kaggle.py, pipeline.py):    *)
(* engvit run, resume, pause and qa.  Every command is a process that      *)
(* builds its own Coordinator over the same manifest.json, so commands     *)
(* that are alive together share the files and nothing else: the RLock of  *)
(* one Coordinator does not keep another one out, and _persist's "expected *)
(* previous SHA-256" is a comparison followed by a replacement.            *)
(*                                                                         *)
(* One action is one access to the shared files.  mem is _current, basis   *)
(* the manifest whose hash _manifest_sha256 holds; the two are read one    *)
(* after the other, so they can differ, and a write of another process can *)
(* fall between the accesses of such a pair (look and create, read and     *)
(* hash, compare and replace).  raced remembers that one did: what the     *)
(* comparison achieves is stated for the behaviours in which none has.     *)
(*                                                                         *)
(* An exception ends a command, and so does a kill: the files stay.  The   *)
(* steps inside _persist and the other calls of the API are in Coordinator.*)
(***************************************************************************)
EXTENDS ManifestOps

CONSTANTS
  Procs,        \* processes that run commands
  Limits,       \* values of --max-new-chunks, 0 for none
  MaxCommands,  \* bound on the commands started
  MaxKills      \* bound on the commands killed

ASSUME LimitAssumption == Limits \subseteq Nat
ASSUME BoundAssumption == MaxCommands \in Nat /\ MaxKills \in Nat

VARIABLES
  exists,    \* manifest.json exists
  disk,      \* its content
  segment,   \* the segment files
  sidecar,   \* the completion sidecars
  artifact,  \* enhanced-video.mkv: the segments it was assembled from
  proc,      \* proc[p]: the command process p executes
  issued,    \* issued[c]: leases of c made so far (uuid4)
  lapsed,    \* as in ManifestOps
  raced,     \* a write has fallen between the accesses of another's pair
  commands,  \* commands started
  kills      \* commands killed

vars == <<exists, disk, segment, sidecar, artifact, proc, issued, lapsed, raced,
          commands, kills>>

clock == <<issued, lapsed>>
budget == <<commands, kills>>
rest == <<raced, commands, kills>>

NoArtifact == [c \in Chunks |-> NoFile]

CommandNames == {"none", "run", "pause", "qa"}

\* What a command ended with: the job state it reports, an accepted artifact,
\* an exception, a kill, or nothing yet.
Outcomes == JobStates \union {"none", "accepted", "error", "killed"}

Points == {"idle", "open", "create", "identify", "reload", "decide", "resume", "lease",
           "encode", "hash", "commit", "sidecar", "committed", "pause", "compare",
           "replace", "finish", "concat", "qa"}

\* then is where a command continues after _persist wrote new.
Proc == [at : Points, command : CommandNames, resume : BOOLEAN, limit : Nat,
         mem : Manifest, basis : Manifest, new : Manifest, then : Points,
         chunk : Chunks, lease : Nat, completion : Completion \union {NoCompletion},
         count : Nat, outcome : Outcomes]

Ended(name, outcome) ==
  [at |-> "idle", command |-> name, resume |-> FALSE, limit |-> 0,
   mem |-> FirstManifest, basis |-> FirstManifest, new |-> FirstManifest, then |-> "idle",
   chunk |-> 1, lease |-> 0, completion |-> NoCompletion, count |-> 0, outcome |-> outcome]

Init ==
  /\ exists = FALSE
  /\ disk = FirstManifest
  /\ segment = [c \in Chunks |-> NoFile]
  /\ sidecar = [c \in Chunks |-> NoSidecar]
  /\ artifact = NoArtifact
  /\ proc = [p \in Procs |-> Ended("none", "none")]
  /\ issued = [c \in Chunks |-> 0]
  /\ lapsed = [c \in Chunks |-> 0]
  /\ raced = FALSE
  /\ commands = 0
  /\ kills = 0

-----------------------------------------------------------------------------
\* Between the two accesses of a pair.
MidPair(q) == proc[q].at \in {"create", "identify", "decide", "replace"}

\* Process p writes the manifest.
Written(p) == raced' = (raced \/ \E q \in Procs \ {p} : MidPair(q))

At(p, point) == proc[p].at = point

Goto(p, point) == proc' = [proc EXCEPT ![p].at = point]

Exit(p, outcome) == proc' = [proc EXCEPT ![p] = Ended(@.command, outcome)]

Fail(p) == Exit(p, "error")

\* _persist: the next generation is to be written, then the command goes on.
Persisting(r, new, then) == [r EXCEPT !.at = "compare", !.new = new, !.then = then]

Persist(p, new, then) == proc' = [proc EXCEPT ![p] = Persisting(@, new, then)]

\* _dispatch, once there is a coordinator.
FirstPoint(name) ==
  CASE name = "run" -> "reload" [] name = "pause" -> "pause" [] OTHER -> "qa"

\* The operator starts a command in process p.
Begin(p) ==
  /\ proc[p].at = "idle"
  /\ commands < MaxCommands
  /\ commands' = commands + 1
  /\ \E name \in CommandNames \ {"none"}, resume \in BOOLEAN, limit \in Limits :
       /\ name # "run" => ~resume /\ limit = 0
       /\ proc' = [proc EXCEPT ![p] = [Ended(name, "none") EXCEPT
                                         !.at = "open", !.resume = resume, !.limit = limit]]
  /\ UNCHANGED <<exists, disk, segment, sidecar, artifact, clock, raced, kills>>

\* Coordinator.__init__: is there a manifest, and if so what does it say.
Open(p) ==
  /\ At(p, "open")
  /\ proc' = [proc EXCEPT ![p].at = IF exists THEN "identify" ELSE "create",
                          ![p].mem = IF exists THEN disk ELSE @]
  /\ UNCHANGED <<exists, disk, segment, sidecar, artifact, clock, rest>>

\* Coordinator.__init__: the hash of the manifest, from a second reading.
Identify(p) ==
  /\ At(p, "identify")
  /\ proc' = [proc EXCEPT ![p].at = FirstPoint(proc[p].command), ![p].basis = disk]
  /\ UNCHANGED <<exists, disk, segment, sidecar, artifact, clock, rest>>

\* Coordinator.__init__: the first manifest is written without a comparison.
Create(p) ==
  /\ At(p, "create")
  /\ exists' = TRUE
  /\ disk' = FirstManifest
  /\ Written(p)
  /\ proc' = [proc EXCEPT ![p].at = FirstPoint(proc[p].command),
                          ![p].mem = FirstManifest, ![p].basis = FirstManifest]
  /\ UNCHANGED <<segment, sidecar, artifact, clock, budget>>

-----------------------------------------------------------------------------
(***************************************************************************)
(* _execute_spatial_job                                                    *)
(***************************************************************************)

\* recover: the manifest is read again ...
Reload(p) ==
  /\ At(p, "reload")
  /\ proc' = [proc EXCEPT ![p].at = "decide", ![p].mem = disk]
  /\ UNCHANGED <<exists, disk, segment, sidecar, artifact, clock, rest>>

\* ... and hashed, and the records and the state it should have are derived.
Decide(p) ==
  LET mem == proc[p].mem
      records == RecoveredChunks(mem.chunks, lapsed, segment, sidecar)
      state == StateAfterRecover(mem.state, records)
      hashed == [proc[p] EXCEPT !.basis = disk]
  IN /\ At(p, "decide")
     /\ proc' = [proc EXCEPT ![p] =
                   IF records # mem.chunks \/ state # mem.state
                     THEN Persisting(hashed, NextManifest(mem, records, state), "resume")
                     ELSE [hashed EXCEPT !.at = "resume"]]
     /\ UNCHANGED <<exists, disk, segment, sidecar, artifact, clock, rest>>

\* A paused job is reopened if the command was told to.
TryResume(p) ==
  LET mem == proc[p].mem
  IN /\ At(p, "resume")
     /\ IF mem.state = "paused" /\ proc[p].resume
          THEN Persist(p, NextManifest(mem, mem.chunks, "running"), "lease")
          ELSE Goto(p, "lease")
     /\ UNCHANGED <<exists, disk, segment, sidecar, artifact, clock, rest>>

\* Slip: the state of the job does not stop the leasing.
TakeLeaseInAnyState(p) ==
  LET mem == proc[p].mem
      records == Expire(mem.chunks, lapsed)
  IN /\ At(p, "lease")
     /\ \E c \in Chunks :
          /\ IsFirstPending(records, c)
          /\ issued' = [issued EXCEPT ![c] = @ + 1]
          /\ proc' = [proc EXCEPT ![p] =
               [Persisting(@, NextManifest(mem, [records EXCEPT ![c] = LeasedRecord(issued'[c])],
                                           mem.state), "encode")
                  EXCEPT !.chunk = c, !.lease = issued'[c], !.completion = NoCompletion]]
     /\ UNCHANGED <<exists, disk, segment, sidecar, artifact, lapsed, rest>>

\* lease returns a lease.
TakeLease(p) ==
  LET mem == proc[p].mem
      records == Expire(mem.chunks, lapsed)
  IN /\ At(p, "lease")
     /\ mem.state = "running"
     /\ \E c \in Chunks :
          /\ IsFirstPending(records, c)
          /\ issued' = [issued EXCEPT ![c] = @ + 1]
          /\ proc' = [proc EXCEPT ![p] =
               [Persisting(@, NextManifest(mem, [records EXCEPT ![c] = LeasedRecord(issued'[c])],
                                           "running"), "encode")
                  EXCEPT !.chunk = c, !.lease = issued'[c], !.completion = NoCompletion]]
     /\ UNCHANGED <<exists, disk, segment, sidecar, artifact, lapsed, rest>>

\* Slip: run polls until a chunk becomes available.
WaitForLease(p) ==
  LET mem == proc[p].mem
      records == Expire(mem.chunks, lapsed)
  IN /\ At(p, "lease")
     /\ mem.state = "running" => ~\E c \in Chunks : IsFirstPending(records, c)
     /\ Goto(p, IF mem.state = "running" THEN "lease" ELSE "finish")
     /\ UNCHANGED <<exists, disk, segment, sidecar, artifact, clock, rest>>

\* lease returns None: nothing is pending, or the job does not run.  In the
\* second case expired leases are reopened on the way.
NoLease(p) ==
  LET mem == proc[p].mem
      records == Expire(mem.chunks, lapsed)
  IN /\ At(p, "lease")
     /\ mem.state = "running" => ~\E c \in Chunks : IsFirstPending(records, c)
     /\ IF mem.state # "running" /\ records # mem.chunks
          THEN Persist(p, NextManifest(mem, records, mem.state), "finish")
          ELSE Goto(p, "finish")
     /\ UNCHANGED <<exists, disk, segment, sidecar, artifact, clock, rest>>

\* encode_segment publishes the file under the chunk's name ...
Encode(p) ==
  /\ At(p, "encode")
  /\ \E e \in Payloads : segment' = [segment EXCEPT ![proc[p].chunk] = e]
  /\ Goto(p, "hash")
  /\ UNCHANGED <<exists, disk, sidecar, artifact, clock, rest>>

\* ... and hashes it.
Hash(p) ==
  /\ At(p, "hash")
  /\ proc' = [proc EXCEPT ![p].at = "commit",
                          ![p].completion = [sha |-> segment[proc[p].chunk], fits |-> TRUE]]
  /\ UNCHANGED <<exists, disk, segment, sidecar, artifact, clock, rest>>

\* commit checks the completion against this process's memory.
Commit(p) ==
  LET r == proc[p]
  IN /\ At(p, "commit")
     /\ IF /\ HoldsLease(r.mem.chunks[r.chunk], r.lease)
           /\ SegmentMatches(segment[r.chunk], r.completion)
          THEN Goto(p, "sidecar")
          ELSE Fail(p)
     /\ UNCHANGED <<exists, disk, segment, sidecar, artifact, clock, rest>>

WriteSidecar(p) ==
  LET r == proc[p]
      records == [r.mem.chunks EXCEPT ![r.chunk] = CompleteRecord(r.lease, r.completion)]
  IN /\ At(p, "sidecar")
     /\ sidecar' = [sidecar EXCEPT ![r.chunk] = [lease |-> r.lease, completion |-> r.completion]]
     /\ Persist(p, NextManifest(r.mem, records, StateAfterCommit(r.mem.state, records)),
                "committed")
     /\ UNCHANGED <<exists, disk, segment, artifact, clock, rest>>

\* Slip: the pause is requested of a complete job as well.
CommittedAlwaysPauses(p) ==
  LET r == proc[p]
      reached == r.limit # 0 /\ r.count + 1 >= r.limit
  IN /\ At(p, "committed")
     /\ proc' = [proc EXCEPT ![p] =
          IF ~reached THEN [r EXCEPT !.at = "lease", !.count = @ + 1]
          ELSE IF r.mem.state # "running" THEN Ended(r.command, "error")
          ELSE Persisting(r, NextManifest(r.mem, r.mem.chunks, StateAfterPause(r.mem.chunks)),
                          "finish")]
     /\ UNCHANGED <<exists, disk, segment, sidecar, artifact, clock, rest>>

\* After a commit the limit on new chunks may ask for a pause, which
\* request_pause refuses unless the job runs.
Committed(p) ==
  LET r == proc[p]
      reached == r.limit # 0 /\ r.count + 1 >= r.limit /\ r.mem.state # "complete"
  IN /\ At(p, "committed")
     /\ proc' = [proc EXCEPT ![p] =
          IF ~reached THEN [r EXCEPT !.at = "lease", !.count = @ + 1]
          ELSE IF r.mem.state # "running" THEN Ended(r.command, "error")
          ELSE Persisting(r, NextManifest(r.mem, r.mem.chunks, StateAfterPause(r.mem.chunks)),
                          "finish")]
     /\ UNCHANGED <<exists, disk, segment, sidecar, artifact, clock, rest>>

\* Slip: a job with nothing left to lease is taken for a complete one.
FinishWhenIdle(p) ==
  /\ At(p, "finish")
  /\ IF proc[p].mem.state \in {"pause_requested", "paused"}
       THEN Exit(p, proc[p].mem.state) ELSE Goto(p, "concat")
  /\ UNCHANGED <<exists, disk, segment, sidecar, artifact, clock, rest>>

\* The job state is reported, or the segments of a complete job are checked ...
Finish(p) ==
  LET mem == proc[p].mem
  IN /\ At(p, "finish")
     /\ IF mem.state # "complete" THEN Exit(p, mem.state)
        ELSE IF \A c \in Chunks : /\ mem.chunks[c].status = "complete"
                                  /\ segment[c] = mem.chunks[c].completion.sha
          THEN Goto(p, "concat")
          ELSE Fail(p)
     /\ UNCHANGED <<exists, disk, segment, sidecar, artifact, clock, rest>>

\* ... and then assembled by FFmpeg, which reads the files again.
Concat(p) ==
  /\ At(p, "concat")
  /\ artifact' = segment
  /\ Exit(p, "complete")
  /\ UNCHANGED <<exists, disk, segment, sidecar, clock, rest>>

-----------------------------------------------------------------------------
\* engvit pause.
Pause(p) ==
  LET mem == proc[p].mem
  IN /\ At(p, "pause")
     /\ IF mem.state = "running"
          THEN Persist(p, NextManifest(mem, mem.chunks, StateAfterPause(mem.chunks)), "finish")
          ELSE Fail(p)
     /\ UNCHANGED <<exists, disk, segment, sidecar, artifact, clock, rest>>

\* engvit qa: the job is complete and an artifact exists.
Qa(p) ==
  /\ At(p, "qa")
  /\ IF proc[p].mem.state = "complete" /\ artifact # NoArtifact
       THEN Exit(p, "accepted") ELSE Fail(p)
  /\ UNCHANGED <<exists, disk, segment, sidecar, artifact, clock, rest>>

\* Slip: nothing is compared.
CompareNothing(p) ==
  /\ At(p, "compare")
  /\ Goto(p, "replace")
  /\ UNCHANGED <<exists, disk, segment, sidecar, artifact, clock, rest>>

\* AtomicArtifactWriter.write: the destination is what it was expected to be ...
Compare(p) ==
  /\ At(p, "compare")
  /\ IF disk = proc[p].basis THEN Goto(p, "replace") ELSE Fail(p)
  /\ UNCHANGED <<exists, disk, segment, sidecar, artifact, clock, rest>>

\* ... and is replaced.
Replace(p) ==
  LET r == proc[p]
  IN /\ At(p, "replace")
     /\ disk' = r.new
     /\ Written(p)
     /\ proc' = [proc EXCEPT ![p] = [r EXCEPT !.at = r.then, !.mem = r.new, !.basis = r.new]]
     /\ UNCHANGED <<exists, segment, sidecar, artifact, clock, budget>>

-----------------------------------------------------------------------------
\* The process is killed, or a write or an FFmpeg process fails.
Kill(p) ==
  /\ proc[p].at # "idle"
  /\ kills < MaxKills
  /\ kills' = kills + 1
  /\ Exit(p, "killed")
  /\ UNCHANGED <<exists, disk, segment, sidecar, artifact, clock, raced, commands>>

\* The deadlines of all leases of c made so far pass.
Lapse(c) ==
  /\ lapsed[c] < issued[c]
  /\ lapsed' = [lapsed EXCEPT ![c] = issued[c]]
  /\ UNCHANGED <<exists, disk, segment, sidecar, artifact, proc, issued, rest>>

Step(p) ==
  \/ Open(p) \/ Identify(p) \/ Create(p)
  \/ Reload(p) \/ Decide(p) \/ TryResume(p) \/ TakeLease(p) \/ NoLease(p)
  \/ Encode(p) \/ Hash(p) \/ Commit(p) \/ WriteSidecar(p) \/ Committed(p)
  \/ Finish(p) \/ Concat(p) \/ Pause(p) \/ Qa(p)
  \/ Compare(p) \/ Replace(p)

Next ==
  \/ \E p \in Procs : Begin(p) \/ Step(p) \/ Kill(p)
  \/ \E c \in Chunks : Lapse(c)

Spec == Init /\ [][Next]_vars

\* A process that runs is scheduled.  Nobody has to start another command.
FairSpec == Spec /\ \A p \in Procs : WF_vars(Step(p))

-----------------------------------------------------------------------------
(***************************************************************************)
(* Properties.                                                             *)
(***************************************************************************)

\* Every variable has its type, and every manifest that a process reads,
\* holds or is about to write passes ChunkRecord.state_fields_match.
TypeOK ==
  /\ exists \in BOOLEAN
  /\ disk \in Manifest
  /\ segment \in [Chunks -> File]
  /\ sidecar \in [Chunks -> Sidecar]
  /\ artifact \in [Chunks -> File]
  /\ proc \in [Procs -> Proc]
  /\ issued \in [Chunks -> Nat] /\ lapsed \in [Chunks -> Nat]
  /\ raced \in BOOLEAN /\ commands \in Nat /\ kills \in Nat
  /\ \A c \in Chunks :
       /\ WellFormed(disk.chunks[c])
       /\ \A p \in Procs : WellFormed(proc[p].mem.chunks[c]) /\ WellFormed(proc[p].new.chunks[c])

\* The manifest advances by one generation at a time, each derived from the
\* one it replaces: as long as no write has fallen between the comparison and
\* the replacement of another command, no command undoes what another recorded.
GenerationAdvances == [][raced \/ disk' = disk \/ disk'.gen = disk.gen + 1]_vars

NewlyLeased(c) ==
  /\ disk'.chunks[c].status = "leased"
  /\ disk'.chunks[c].lease # disk.chunks[c].lease

\* A recorded pause holds against every command that is alive, as long as no
\* write has fallen into the pair of accesses of another one: no chunk is
\* handed out and the job does not run again until a command that was told to
\* resume reopens the job from the paused state.
PauseHolds ==
  [][~raced /\ disk.state \in {"pause_requested", "paused"} =>
       /\ \A c \in Chunks : ~NewlyLeased(c)
       /\ disk'.state = "running" =>
            /\ disk.state = "paused"
            /\ \E p \in Procs : proc[p].at = "replace" /\ proc[p].resume]_vars

\* A job marked complete has every chunk complete, even when commands
\* overwrite each other's generations: run reports and assembles, and qa
\* accepts, on the strength of that mark.
CompleteMeansAllChunks == disk.state = "complete" => AllComplete(disk.chunks)

\* A chunk whose segment and sidecar are in place is never leased again: the
\* work of a command that was killed before it recorded it is found by the
\* next one.
FinishedWorkIsKept ==
  [][\A c \in Chunks :
       NewlyLeased(c) => ~SegmentMatches(segment[c], sidecar[c].completion)]_vars

\* A run that is alone is never refused by the manifest it wrote itself, by
\* its own pause or by its own segments: it ends in a job state or is killed.
RunAloneNeverRaises ==
  \A p \in Procs : proc[p].command = "run" => proc[p].outcome # "error"

\* The video that run reports or qa accepts is the assembly of the segments
\* that the manifest records.
ReportedVideoIsTheJobs ==
  \A p \in Procs :
    proc[p].outcome \in {"complete", "accepted"} =>
      \A c \in Chunks : /\ disk.chunks[c].status = "complete"
                        /\ artifact[c] = disk.chunks[c].completion.sha

\* Every command comes to an end: the loop of run commits a chunk in each
\* round or leaves.
CommandEnds == \A p \in Procs : proc[p].at # "idle" ~> proc[p].at = "idle"

\* A pause that was requested takes effect once the chunk in work is committed,
\* even if no write ever falls into the pair of accesses of another command.
PauseTakesEffect ==
  []~raced => (disk.state = "pause_requested" ~> disk.state = "paused")
=============================================================================
