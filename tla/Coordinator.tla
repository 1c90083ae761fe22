----------------------------- MODULE Coordinator -----------------------------
(***************************************************************************)
(* orchestration/coordinator.py: one Coordinator object, the only writer   *)
(* of the job manifest, with the worker threads that call it and the files *)
(* they share.                                                             *)
(*                                                                         *)
(* Every public method holds one RLock from its first to its last line, so *)
(* methods do not interleave with each other.  They do interleave with     *)
(* what does not take the lock: workers that publish segment files,        *)
(* deadlines that pass, files that are damaged, and the end of the         *)
(* process.  A call is therefore a sequence of steps, one per file it      *)
(* writes:                                                                 *)
(*   sidecar   the completion sidecar is about to be written;              *)
(*   manifest  _persist is about to compare the file with the manifest it  *)
(*             derives from, and to replace it (one step: no other process *)
(*             writes the manifest here; JobRun drops this assumption);    *)
(*   sync      the manifest is replaced and the directory is about to be   *)
(*             fsynced; only after that does _persist update the memory.   *)
(* A call can raise at each of them, and the process can die at each.      *)
(*                                                                         *)
(* _manifest_sha256 is the hash of the manifest in _current (the process   *)
(* is alone, so both were read from the same file): comparing the file     *)
(* with it is comparing disk with current.                                 *)
(***************************************************************************)
EXTENDS ManifestOps

CONSTANTS
  Workers,         \* worker threads
  NoWorker,        \* a call that no worker waits for
  Fragile,         \* chunks whose segment file may be damaged from outside
  MaxDisturbances  \* bound on failures, expiries, pauses and crashes

ASSUME WorkerAssumption == NoWorker \notin Workers
ASSUME FragileAssumption == Fragile \subseteq Chunks
ASSUME DisturbanceAssumption == MaxDisturbances \in Nat

VARIABLES
  disk,       \* manifest.json
  segment,    \* segment[c]: the file segments_root/<chunk>.mkv
  sidecar,    \* sidecar[c]: the file <segment>.completion.json
  up,         \* the process that holds the Coordinator is alive
  current,    \* Coordinator._current
  op,         \* the call that holds the lock
  worker,     \* worker[w]: what thread w is doing
  issued,     \* issued[c]: number of leases of c that reached the manifest
  lapsed,     \* lapsed[c]: leases of c up to this one have expired
  disturbed   \* disturbances so far

vars == <<disk, segment, sidecar, up, current, op, worker, issued, lapsed, disturbed>>

files == <<segment, sidecar>>
clock == <<issued, lapsed>>

CallNames == {"none", "lease", "expire", "stage", "commit", "pause", "resume", "recover"}

NoCall ==
  [name |-> "none", at |-> "none", by |-> NoWorker, chunk |-> 1, new |-> FirstManifest]

Call(name, at, w, c, new) ==
  [name |-> name, at |-> at, by |-> w, chunk |-> c, new |-> new]

Phases == {"idle", "encoding", "written", "published"}

Task == [phase : Phases, chunk : Chunks, lease : Nat,
         completion : Completion \union {NoCompletion}]

NoTask == [phase |-> "idle", chunk |-> 1, lease |-> 0, completion |-> NoCompletion]

\* The manifest is created by the constructor when the job has none yet.
Init ==
  /\ disk = FirstManifest
  /\ segment = [c \in Chunks |-> NoFile]
  /\ sidecar = [c \in Chunks |-> NoSidecar]
  /\ up = TRUE
  /\ current = FirstManifest
  /\ op = NoCall
  /\ worker = [w \in Workers |-> NoTask]
  /\ issued = [c \in Chunks |-> 0]
  /\ lapsed = [c \in Chunks |-> 0]
  /\ disturbed = 0

Disturb ==
  /\ disturbed < MaxDisturbances
  /\ disturbed' = disturbed + 1

Unlocked == up /\ op.name = "none"

Idle(w) == worker[w].phase = "idle" /\ op.by # w

-----------------------------------------------------------------------------
(***************************************************************************)
(* The calls: what a method decides before it writes anything.             *)
(***************************************************************************)

\* lease, when the job runs: expired leases are reopened and the first
\* pending chunk is leased under a fresh id, in one new generation.
Lease(w) ==
  /\ Unlocked /\ Idle(w)
  /\ current.state = "running"
  /\ LET records == Expire(current.chunks, lapsed) IN
     \E c \in Chunks :
       /\ IsFirstPending(records, c)
       /\ op' = Call("lease", "manifest", w, c,
                     NextManifest(current,
                       [records EXCEPT ![c] = LeasedRecord(issued[c] + 1)], "running"))
  /\ UNCHANGED <<disk, files, up, current, worker, clock, disturbed>>

\* lease, when the job does not run: only the expiry is recorded.
ExpireOnly(w) ==
  /\ Unlocked /\ Idle(w)
  /\ current.state # "running"
  /\ LET records == Expire(current.chunks, lapsed) IN
       /\ records # current.chunks
       /\ op' = Call("expire", "manifest", NoWorker, 1,
                     NextManifest(current, records, current.state))
  /\ UNCHANGED <<disk, files, up, current, worker, clock, disturbed>>

\* Slip: any lease of the chunk is good enough.
ValidUnderAnyLease(w) ==
  LET t == worker[w] IN
    /\ current.chunks[t.chunk].status = "leased"
    /\ SegmentMatches(segment[t.chunk], t.completion)

\* _validate_completion(require_lease=True) on the task of worker w.  Whether
\* the lease has expired is not asked.
ValidCompletion(w) ==
  LET t == worker[w] IN
    /\ HoldsLease(current.chunks[t.chunk], t.lease)
    /\ SegmentMatches(segment[t.chunk], t.completion)

StageCompletion(w) ==
  /\ Unlocked
  /\ worker[w].phase = "published"
  /\ ValidCompletion(w)
  /\ op' = Call("stage", "sidecar", w, worker[w].chunk, current)
  /\ UNCHANGED <<disk, files, up, current, worker, clock, disturbed>>

Commit(w) ==
  /\ Unlocked
  /\ worker[w].phase = "published"
  /\ ValidCompletion(w)
  /\ LET t == worker[w]
         records == [current.chunks EXCEPT ![t.chunk] = CompleteRecord(t.lease, t.completion)]
     IN op' = Call("commit", "sidecar", w, t.chunk,
                   NextManifest(current, records, StateAfterCommit(current.state, records)))
  /\ UNCHANGED <<disk, files, up, current, worker, clock, disturbed>>

\* commit raises: nothing is written and the worker's run ends.
RejectCompletion(w) ==
  /\ Unlocked
  /\ worker[w].phase = "published"
  /\ ~ValidCompletion(w)
  /\ worker' = [worker EXCEPT ![w] = NoTask]
  /\ UNCHANGED <<disk, files, up, current, op, clock, disturbed>>

RequestPause ==
  /\ Unlocked
  /\ current.state = "running"
  /\ op' = Call("pause", "manifest", NoWorker, 1,
                NextManifest(current, current.chunks, StateAfterPause(current.chunks)))
  /\ Disturb
  /\ UNCHANGED <<disk, files, up, current, worker, clock>>

Resume ==
  /\ Unlocked
  /\ current.state = "paused"
  /\ op' = Call("resume", "manifest", NoWorker, 1,
                NextManifest(current, current.chunks, "running"))
  /\ UNCHANGED <<disk, files, up, current, worker, clock, disturbed>>

\* recover: the memory is replaced by the file before anything is decided,
\* and a new generation is written only if something changed.
Recover ==
  /\ Unlocked
  /\ current' = disk
  /\ LET records == RecoveredChunks(disk.chunks, lapsed, segment, sidecar)
         state == StateAfterRecover(disk.state, records)
     IN op' = IF records # disk.chunks \/ state # disk.state
                THEN Call("recover", "manifest", NoWorker, 1,
                          NextManifest(disk, records, state))
                ELSE NoCall
  /\ UNCHANGED <<disk, files, up, worker, clock, disturbed>>

-----------------------------------------------------------------------------
(***************************************************************************)
(* The steps of the call that holds the lock.                              *)
(***************************************************************************)

SidecarWritten ==
  [sidecar EXCEPT ![op.chunk] =
     [lease |-> worker[op.by].lease, completion |-> worker[op.by].completion]]

WriteSidecar ==
  /\ op.at = "sidecar"
  /\ sidecar' = SidecarWritten
  /\ op' = IF op.name = "stage" THEN NoCall ELSE [op EXCEPT !.at = "manifest"]
  /\ UNCHANGED <<disk, segment, up, current, worker, clock, disturbed>>

\* The caller of a call that raises gives up; calls without one just end.
CallerGivesUp ==
  worker' = IF op.by \in Workers THEN [worker EXCEPT ![op.by] = NoTask] ELSE worker

\* Slip: the file is replaced without comparing it first.
ReplaceUnchecked ==
  /\ op.at = "manifest"
  /\ disk' = op.new
  /\ issued' = IF op.name = "lease" THEN [issued EXCEPT ![op.chunk] = @ + 1] ELSE issued
  /\ op' = [op EXCEPT !.at = "sync"]
  /\ UNCHANGED <<files, up, current, worker, lapsed, disturbed>>

\* _persist: the file still is what the memory derives from, and is replaced.
ReplaceManifest ==
  /\ op.at = "manifest"
  /\ disk = current
  /\ disk' = op.new
  /\ issued' = IF op.name = "lease" THEN [issued EXCEPT ![op.chunk] = @ + 1] ELSE issued
  /\ op' = [op EXCEPT !.at = "sync"]
  /\ UNCHANGED <<files, up, current, worker, lapsed, disturbed>>

\* _persist: "destination changed since the previous generation".
RefuseReplace ==
  /\ op.at = "manifest"
  /\ disk # current
  /\ op' = NoCall
  /\ CallerGivesUp
  /\ UNCHANGED <<disk, files, up, current, clock, disturbed>>

\* Slip: the worker encodes again the chunk it has just committed.
ReturnAndRetry ==
  /\ op.at = "sync"
  /\ current' = op.new
  /\ op' = NoCall
  /\ worker' =
       IF op.name \in {"lease", "commit"}
         THEN [worker EXCEPT ![op.by] =
                [phase |-> "encoding", chunk |-> op.chunk,
                 lease |-> op.new.chunks[op.chunk].lease, completion |-> NoCompletion]]
         ELSE worker
  /\ UNCHANGED <<disk, files, up, clock, disturbed>>

\* The write is durable: the memory follows and the caller gets its answer.
Return ==
  /\ op.at = "sync"
  /\ current' = op.new
  /\ op' = NoCall
  /\ worker' =
       CASE op.name = "lease" ->
              [worker EXCEPT ![op.by] =
                 [phase |-> "encoding", chunk |-> op.chunk,
                  lease |-> op.new.chunks[op.chunk].lease, completion |-> NoCompletion]]
         [] op.name = "commit" -> [worker EXCEPT ![op.by] = NoTask]
         [] OTHER -> worker
  /\ UNCHANGED <<disk, files, up, clock, disturbed>>

\* AtomicArtifactWriter.write raises, before or after it replaced the file.
WriteFails ==
  /\ op.at # "none"
  /\ sidecar' \in {sidecar, IF op.at = "sidecar" THEN SidecarWritten ELSE sidecar}
  /\ op' = NoCall
  /\ CallerGivesUp
  /\ Disturb
  /\ UNCHANGED <<disk, segment, up, current, clock>>

-----------------------------------------------------------------------------
(***************************************************************************)
(* What happens outside the lock.                                          *)
(***************************************************************************)

\* encode_segment: the encoded file replaces the chunk's segment file, whose
\* name is the same for every lease of the chunk (pipeline.py).
WriteSegment(w) ==
  /\ up
  /\ worker[w].phase = "encoding"
  /\ \E p \in Payloads :
       segment' = [segment EXCEPT ![worker[w].chunk] = p]
  /\ worker' = [worker EXCEPT ![w].phase = "written"]
  /\ UNCHANGED <<disk, sidecar, up, current, op, clock, disturbed>>

\* encode_segment: size and hash of the completion are then read from that
\* file, whatever it has become.  commit does not rely on the completion to fit
\* its chunk: one that does not is a disturbance.
HashSegment(w) ==
  LET content == segment[worker[w].chunk] IN
    /\ up
    /\ worker[w].phase = "written"
    /\ content # NoFile
    /\ \E fits \in BOOLEAN :
         /\ worker' = [worker EXCEPT ![w].phase = "published",
                                     ![w].completion = [sha |-> content, fits |-> fits]]
         /\ IF fits THEN UNCHANGED disturbed ELSE Disturb
    /\ UNCHANGED <<disk, files, up, current, op, clock>>

\* The file is gone when it is to be hashed: encode_segment raises.
SegmentVanished(w) ==
  /\ up
  /\ worker[w].phase = "written"
  /\ segment[worker[w].chunk] = NoFile
  /\ worker' = [worker EXCEPT ![w] = NoTask]
  /\ UNCHANGED <<disk, files, up, current, op, clock, disturbed>>

\* Decoding or encoding raises, and the lease stays behind.
WorkerFails(w) ==
  /\ up
  /\ worker[w].phase = "encoding"
  /\ worker' = [worker EXCEPT ![w] = NoTask]
  /\ Disturb
  /\ UNCHANGED <<disk, files, up, current, op, clock>>

Held(c) ==
  \/ \E w \in Workers : worker[w].phase # "idle" /\ worker[w].chunk = c
  \/ op.name = "lease" /\ op.chunk = c

\* The deadline of a recorded lease passes.  It disturbs only if a worker is
\* still busy with the chunk.
Lapse(c) ==
  /\ \E m \in {disk, current} :
       m.chunks[c].status = "leased" /\ lapsed[c] < m.chunks[c].lease
  /\ lapsed' = [lapsed EXCEPT ![c] = issued[c]]
  /\ IF Held(c) THEN Disturb ELSE UNCHANGED disturbed
  /\ UNCHANGED <<disk, files, up, current, op, worker, issued>>

Damage(c) ==
  /\ c \in Fragile
  /\ \E f \in File \ {segment[c]} : segment' = [segment EXCEPT ![c] = f]
  /\ Disturb
  /\ UNCHANGED <<disk, sidecar, up, current, op, worker, clock>>

\* The process ends and its memory is gone; the files are as they are.
Crash ==
  /\ up
  /\ up' = FALSE
  /\ op' = NoCall
  /\ current' = FirstManifest
  /\ worker' = [w \in Workers |-> NoTask]
  /\ Disturb
  /\ UNCHANGED <<disk, files, clock>>

\* The constructor over an existing manifest.
Start ==
  /\ ~up
  /\ up' = TRUE
  /\ current' = disk
  /\ UNCHANGED <<disk, files, op, worker, clock, disturbed>>

-----------------------------------------------------------------------------
OpStep == WriteSidecar \/ ReplaceManifest \/ RefuseReplace \/ Return

WorkerStep(w) ==
  \/ Lease(w) \/ ExpireOnly(w) \/ StageCompletion(w) \/ Commit(w) \/ RejectCompletion(w)
  \/ WriteSegment(w) \/ HashSegment(w) \/ SegmentVanished(w) \/ WorkerFails(w)

Environment == WriteFails \/ Crash \/ Start \/ \E c \in Chunks : Lapse(c) \/ Damage(c)

Next ==
  \/ \E w \in Workers : WorkerStep(w)
  \/ RequestPause \/ Resume \/ Recover
  \/ OpStep
  \/ Environment

Spec == Init /\ [][Next]_vars

-----------------------------------------------------------------------------
(***************************************************************************)
(* Fairness.  Threads that run are scheduled, a call that holds the lock   *)
(* comes to its end, and time passes.  Starting, recovering and resuming   *)
(* are what the operator's next `engvit resume` does: assumed to happen    *)
(* again and again as long as the job is not complete.                     *)
(***************************************************************************)
Fairness ==
  /\ WF_vars(OpStep)
  /\ \A w \in Workers :
       /\ WF_vars(Lease(w))
       /\ WF_vars(WriteSegment(w))
       /\ WF_vars(HashSegment(w) \/ SegmentVanished(w))
       /\ SF_vars(Commit(w) \/ RejectCompletion(w))
  /\ \A c \in Chunks : WF_vars(Lapse(c))
  /\ WF_vars(Start)
  /\ WF_vars(Resume)
  /\ SF_vars(Recover)

FairSpec == Spec /\ Fairness

-----------------------------------------------------------------------------
(***************************************************************************)
(* Properties.                                                             *)
(***************************************************************************)

Op == [name : CallNames, at : {"none", "sidecar", "manifest", "sync"},
       by : Workers \union {NoWorker}, chunk : Chunks, new : Manifest]

\* Every variable has its type, and no manifest in memory, on disk or about
\* to be written holds a record that ChunkRecord.state_fields_match refuses
\* (such a manifest would raise while it is built, or make the file unreadable).
TypeOK ==
  /\ disk \in Manifest /\ RecordsWellFormed(disk)
  /\ segment \in [Chunks -> File]
  /\ sidecar \in [Chunks -> Sidecar]
  /\ up \in BOOLEAN
  /\ current \in Manifest /\ RecordsWellFormed(current)
  /\ op \in Op /\ RecordsWellFormed(op.new)
  /\ worker \in [Workers -> Task]
  /\ issued \in [Chunks -> Nat]
  /\ lapsed \in [Chunks -> Nat]
  /\ disturbed \in Nat

\* While the process lives, its memory is the manifest file, or exactly the
\* generation before it (the directory fsync of _persist has not returned, or
\* it raised).  In particular the memory never holds what is not on disk.
MemoryIsDiskOrPredecessor ==
  up => \/ disk = current
        \/ disk.gen = current.gen + 1

\* A job is marked complete only while each of its chunks is complete: the
\* invariant run and qa rely on before they assemble or accept the video.
CompleteMeansAllChunks == disk.state = "complete" => AllComplete(disk.chunks)

\* The lease that the manifest records for a chunk is the newest lease of the
\* chunk ever recorded, although expiry, failed calls and restarts forget and
\* reissue leases.
HolderIsNewest ==
  \A c \in Chunks :
    disk.chunks[c].status = "leased" => disk.chunks[c].lease = issued[c]

\* A completion recorded on disk was checked against the chunk specification,
\* whether a commit or a recovery recorded it.
OnlyExactCompletions ==
  \A c \in Chunks : disk.chunks[c].status = "complete" => disk.chunks[c].completion \in Exact

\* A commit never records the work of a worker whose chunk was leased again,
\* even when the newer lease is known to the disk only: its call raised after
\* the manifest was replaced.
CommitIsByNewestLease ==
  [][\A c \in Chunks :
       /\ op.name = "commit"
       /\ disk.chunks[c].status # "complete"
       /\ disk'.chunks[c].status = "complete"
       => disk'.chunks[c].lease = issued[c]]_vars

\* The file of a completed chunk is the one that was validated, unless it was
\* damaged or more than one worker held the chunk in its life.
IntactUnlessContended ==
  \A c \in Chunks \ Fragile :
    /\ disk.chunks[c].status = "complete"
    /\ issued[c] = 1
    => segment[c] = disk.chunks[c].completion.sha

\* Completed work is taken back by recovery only, and never for a chunk whose
\* file only its single lease holder could touch.
NoNeedlessRework ==
  [][\A c \in Chunks :
       /\ disk.chunks[c].status = "complete"
       /\ disk'.chunks[c].status # "complete"
       => op.name = "recover" /\ (c \in Fragile \/ issued[c] > 1)]_vars

\* The file of a completed chunk is the one that was validated, no matter how
\* many workers held the chunk.
CommittedSegmentIntact ==
  \A c \in Chunks \ Fragile :
    disk.chunks[c].status = "complete" => segment[c] = disk.chunks[c].completion.sha

\* The durable job is a JobLedger: it moves by whole operations, each applied
\* to what the previous one made durable.
Holder == [c \in Chunks |->
             IF disk.chunks[c].status = "leased" THEN disk.chunks[c].lease ELSE 0]

Done == {c \in Chunks : disk.chunks[c].status = "complete"}

Ledger == INSTANCE JobLedger
            WITH state <- disk.state, holder <- Holder, granted <- issued, done <- Done

ImplementsLedger == Ledger!Spec

\* After the last failure, expiry, pause and crash the job is completed, for
\* good.
JobCompletes == <>[](disk.state = "complete")
=============================================================================
