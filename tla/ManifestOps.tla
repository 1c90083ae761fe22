---------------------------- MODULE ManifestOps ----------------------------
(***************************************************************************)
(* The job manifest of EngVit (orchestration/manifest.py) and the pure     *)
(* part of the coordinator's operations on it: what a chunk record holds,  *)
(* which leases have expired, what a completion must satisfy, and which    *)
(* job state each operation writes.  The modules that run the operations   *)
(* (Coordinator, JobRun) differ in who calls them and in how the disk is   *)
(* reached; both take the operations from here.                            *)
(*                                                                         *)
(* Data abstraction.                                                       *)
(*  - Chunks are numbered in manifest order: lease() takes the first       *)
(*    pending one, so the order matters and the identifiers do not.        *)
(*  - A lease id (uuid4().hex) of chunk c is the serial number of the      *)
(*    lease among all the leases of c; 0 stands for None.                  *)
(*  - A segment file is its content, a member of Payloads.  Size and       *)
(*    SHA-256 of a file stand for its content.                             *)
(*  - A completion holds the hash its worker read and whether it carries   *)
(*    the chunk's own identity, frame count and PTS range; its lease id is *)
(*    kept beside it.  The file path is the chunk's segment path.          *)
(*  - A deadline is represented by what the code asks of it: lapsed[c] is  *)
(*    the serial of the newest lease of c whose lease_expires_at is not    *)
(*    later than the clock (leases of one chunk are issued one after the   *)
(*    other for the same duration, so older ones have lapsed as well).     *)
(*  - worker_id is stored by the code and compared nowhere: left out.      *)
(***************************************************************************)
EXTENDS Integers

CONSTANTS
  NChunks,   \* number of chunks of the job
  Payloads,  \* contents a segment file can have
  NoFile     \* a segment or sidecar path where no file is

ASSUME ChunkAssumption == NChunks \in Nat \ {0}
ASSUME PayloadAssumption == NoFile \notin Payloads

Chunks == 1..NChunks

JobStates == {"running", "pause_requested", "paused", "complete", "failed"}

File == Payloads \union {NoFile}

\* CompletionRecord, and its absence.
Completion == [sha : Payloads, fits : BOOLEAN]

NoCompletion == [sha |-> NoFile, fits |-> FALSE]

Exact == {k \in Completion : k.fits}

Record == [status : {"pending", "leased", "complete"}, lease : Nat,
           completion : Completion \union {NoCompletion}]

Manifest == [gen : Nat, state : JobStates, chunks : [Chunks -> Record]]

PendingRecord == [status |-> "pending", lease |-> 0, completion |-> NoCompletion]

LeasedRecord(n) == [status |-> "leased", lease |-> n, completion |-> NoCompletion]

CompleteRecord(n, k) == [status |-> "complete", lease |-> n, completion |-> k]

\* ChunkRecord.state_fields_match: which fields each status may carry.
WellFormed(r) ==
  /\ r.status = "pending" => r.lease = 0 /\ r.completion = NoCompletion
  /\ r.status = "leased" => r.lease # 0 /\ r.completion = NoCompletion
  /\ r.status = "complete" => r.completion # NoCompletion

RecordsWellFormed(m) == \A c \in Chunks : WellFormed(m.chunks[c])

\* The sidecar <segment>.completion.json: a CompletionRecord.
Sidecar == [lease : Nat, completion : Completion \union {NoCompletion}]

NoSidecar == [lease |-> 0, completion |-> NoCompletion]

\* The manifest that the constructor writes when none exists.
FirstManifest ==
  [gen |-> 0, state |-> "running", chunks |-> [c \in Chunks |-> PendingRecord]]

\* Slip: the generation is not advanced.
SameGeneration(m, chunks, state) ==
  [gen |-> m.gen, state |-> state, chunks |-> chunks]

\* _persist: the next generation.
NextManifest(m, chunks, state) ==
  [gen |-> m.gen + 1, state |-> state, chunks |-> chunks]

AllComplete(chunks) == \A c \in Chunks : chunks[c].status = "complete"

HasLease(chunks) == \E c \in Chunks : chunks[c].status = "leased"

\* Slips: the lease id survives the expiry; a completed record expires as well.
ExpireKeepsLease(chunks, lapsed) ==
  [c \in Chunks |->
     IF chunks[c].status = "leased" /\ chunks[c].lease <= lapsed[c]
       THEN [chunks[c] EXCEPT !.status = "pending"] ELSE chunks[c]]

ExpireAnyStatus(chunks, lapsed) ==
  [c \in Chunks |->
     IF chunks[c].lease # 0 /\ chunks[c].lease <= lapsed[c]
       THEN PendingRecord ELSE chunks[c]]

\* _expire: leases whose deadline has passed are pending again.
Expire(chunks, lapsed) ==
  [c \in Chunks |->
     IF chunks[c].status = "leased" /\ chunks[c].lease <= lapsed[c]
       THEN PendingRecord ELSE chunks[c]]

\* lease: the pending record that comes first in the manifest.
IsFirstPending(chunks, c) ==
  /\ chunks[c].status = "pending"
  /\ \A d \in 1..(c - 1) : chunks[d].status # "pending"

\* Slip: frame count, PTS range and identity are not compared.
HashMatches(content, k) == k # NoCompletion /\ content = k.sha

\* _validate_completion, the part about the file and the specification.
SegmentMatches(content, k) == k \in Exact /\ content = k.sha

\* _validate_completion, the part about the lease (require_lease).
HoldsLease(r, n) == r.status = "leased" /\ r.lease = n

\* Slip: the last chunk of the manifest is taken for the last one to be finished.
CompleteAfterLast(state, chunks) ==
  IF state \in {"pause_requested", "paused"} THEN "paused"
  ELSE IF chunks[NChunks].status = "complete" THEN "complete" ELSE "running"

\* commit: a pause that was requested takes effect, or the job may be finished.
StateAfterCommit(state, chunks) ==
  IF state \in {"pause_requested", "paused"} THEN "paused"
  ELSE IF AllComplete(chunks) THEN "complete" ELSE "running"

StateAfterPause(chunks) ==
  IF HasLease(chunks) THEN "pause_requested" ELSE "paused"

\* recover, first loop: a completion is kept only if its file still matches.
Revalidate(r, content) ==
  IF r.status = "complete" /\ ~SegmentMatches(content, r.completion)
    THEN PendingRecord ELSE r

\* Slip: only records that nobody holds are repaired.
RepairPendingOnly(r, content, side) ==
  IF /\ r.status = "pending"
     /\ side.completion # NoCompletion
     /\ SegmentMatches(content, side.completion)
    THEN CompleteRecord(side.lease, side.completion) ELSE r

\* recover, second loop: a sidecar completes a record that is not complete.
Repair(r, content, side) ==
  IF /\ r.status # "complete"
     /\ side.completion # NoCompletion
     /\ r.status = "leased" => HoldsLease(r, side.lease)
     /\ SegmentMatches(content, side.completion)
    THEN CompleteRecord(side.lease, side.completion) ELSE r

RecoveredChunks(chunks, lapsed, segment, sidecar) ==
  [c \in Chunks |->
     Repair(Revalidate(Expire(chunks, lapsed)[c], segment[c]), segment[c], sidecar[c])]

\* Slips: a complete job stays complete although a chunk was reset; a pending
\* pause outlives the process that was to honour it.
StaysComplete(state, chunks) ==
  IF state = "pause_requested" THEN "paused"
  ELSE IF AllComplete(chunks) THEN "complete"
  ELSE IF state \in {"paused", "failed", "complete"} THEN state ELSE "running"

KeepsPauseRequested(state, chunks) ==
  IF state = "pause_requested" THEN "pause_requested"
  ELSE IF AllComplete(chunks) THEN "complete"
  ELSE IF state \in {"paused", "failed"} THEN state ELSE "running"

\* recover: the job state that follows from the records it found.
StateAfterRecover(state, chunks) ==
  IF state = "pause_requested" THEN "paused"
  ELSE IF AllComplete(chunks) THEN "complete"
  ELSE IF state \in {"paused", "failed"} THEN state ELSE "running"
=============================================================================
