-------------------------- MODULE CoordinatorProofs --------------------------
(***************************************************************************)
(* Theorems about Coordinator, for every number of chunks and workers,     *)
(* every set of segment contents and every bound on disturbances.          *)
(***************************************************************************)
EXTENDS Coordinator, ManifestProofs

-----------------------------------------------------------------------------
(***************************************************************************)
(* Type correctness.  A call that writes a sidecar was made by a worker.   *)
(***************************************************************************)

SidecarCallHasWorker == op.at = "sidecar" => op.by \in Workers

TypeInv == TypeOK /\ SidecarCallHasWorker

\* A call under way that holds an accepted manifest is a call, with the fields
\* it was built from.
LEMMA CallType ==
  ASSUME NEW name \in CallNames, NEW at \in {"none", "sidecar", "manifest", "sync"},
         NEW w \in Workers \union {NoWorker}, NEW c \in Chunks,
         NEW m, GoodManifest(m)
  PROVE  /\ Call(name, at, w, c, m) \in Op
         /\ RecordsWellFormed(Call(name, at, w, c, m).new)
         /\ Call(name, at, w, c, m).at = at
         /\ Call(name, at, w, c, m).by = w
         /\ Call(name, at, w, c, m).name = name
         /\ Call(name, at, w, c, m).chunk = c
         /\ Call(name, at, w, c, m).new = m
  BY DEF Call, Op, GoodManifest

\* The operation that a step puts under way has these fields.
LEMMA NewCall ==
  ASSUME NEW name \in CallNames, NEW at \in {"none", "sidecar", "manifest", "sync"},
         NEW w \in Workers \union {NoWorker}, NEW c \in Chunks,
         NEW m, GoodManifest(m),
         op' = Call(name, at, w, c, m)
  PROVE  op' \in Op /\ RecordsWellFormed(op.new)' /\ op'.at = at /\ op'.by = w
  <1>1. op'.new = m
    BY DEF Call
  <1>2. RecordsWellFormed(op.new)' <=> RecordsWellFormed(m)
    BY <1>1 DEF RecordsWellFormed
  <1>3. QED
    BY <1>2, CallType

\* No call is under way.
LEMMA NoCallType ==
  /\ NoCall \in Op
  /\ RecordsWellFormed(NoCall.new)
  /\ NoCall.at = "none"
  /\ NoCall.name = "none"
  <1>1. 1 \in Chunks
    BY ChunkAssumption DEF Chunks
  <1>2. QED
    BY <1>1, GoodFirstManifest DEF NoCall, Op, CallNames, GoodManifest

\* A worker that holds no lease.
LEMMA NoTaskType == NoTask \in Task
  BY ChunkAssumption DEF NoTask, Task, Phases, File, Chunks

\* The constructor starts with typed files and an accepted manifest.
LEMMA TypeInit == Init => TypeInv
  BY GoodFirstManifest, NoCallType, NoTaskType, PayloadAssumption
     DEF Init, TypeInv, TypeOK, SidecarCallHasWorker, GoodManifest, File, Sidecar, NoSidecar

\* Each operation keeps every variable typed and every manifest accepted.
LEMMA TypeNext == TypeInv /\ [Next]_vars => TypeInv'
  <1> SUFFICES ASSUME TypeInv, [Next]_vars PROVE TypeInv'
    OBVIOUS
  <1> USE DEF TypeInv, SidecarCallHasWorker
  <1>0. /\ GoodManifest(disk) /\ GoodManifest(current) /\ GoodManifest(op.new)
        /\ op.new \in Manifest /\ op.by \in Workers \union {NoWorker} /\ op.chunk \in Chunks
        /\ op.name \in CallNames /\ op.at \in {"none", "sidecar", "manifest", "sync"}
    BY DEF TypeOK, GoodManifest, Op
  <1>a. GoodChunks(disk.chunks) /\ GoodChunks(current.chunks) /\ GoodChunks(op.new.chunks)
        /\ disk.state \in JobStates /\ current.state \in JobStates /\ op.new.state \in JobStates
    BY <1>0, GoodManifestFields
  <1>1. ASSUME NEW w \in Workers, Lease(w) PROVE TypeInv'
    <2>1. PICK c \in Chunks :
            /\ IsFirstPending(Expire(current.chunks, lapsed), c)
            /\ op' = Call("lease", "manifest", w, c,
                       NextManifest(current,
                         [Expire(current.chunks, lapsed) EXCEPT ![c] = LeasedRecord(issued[c] + 1)],
                         "running"))
      BY <1>1 DEF Lease
    <2>2. LeasedRecord(issued[c] + 1) \in Record /\ WellFormed(LeasedRecord(issued[c] + 1))
      BY RecordTypes DEF TypeOK
    <2>3. GoodChunks([Expire(current.chunks, lapsed) EXCEPT ![c] = LeasedRecord(issued[c] + 1)])
      BY <1>a, <2>2, GoodExpire, GoodUpdate
    <2>4. "running" \in JobStates /\ "lease" \in CallNames
      BY DEF JobStates, CallNames
    <2>5. op' \in Op /\ RecordsWellFormed(op.new)' /\ op'.at = "manifest"
      <3> DEFINE N == NextManifest(current,
                        [Expire(current.chunks, lapsed) EXCEPT ![c] = LeasedRecord(issued[c] + 1)],
                        "running")
      <3>1. GoodManifest(N)
        BY <1>0, <2>3, <2>4, GoodNextManifest
      <3>2. op' = Call("lease", "manifest", w, c, N)
        BY <2>1
      <3> HIDE DEF N
      <3>3. QED
        BY <2>4, <3>1, <3>2, NewCall
    <2>6. QED
      BY <1>1, <2>5 DEF Lease, TypeOK, files, clock, RecordsWellFormed
  <1>2. ASSUME NEW w \in Workers, ExpireOnly(w) PROVE TypeInv'
    <2>1. op' = Call("expire", "manifest", NoWorker, 1,
                   NextManifest(current, Expire(current.chunks, lapsed), current.state))
      BY <1>2 DEF ExpireOnly
    <2>2. "expire" \in CallNames /\ 1 \in Chunks
      BY ChunkAssumption DEF CallNames, Chunks
    <2>3. op' \in Op /\ RecordsWellFormed(op.new)' /\ op'.at = "manifest"
      <3> DEFINE N == NextManifest(current, Expire(current.chunks, lapsed), current.state)
      <3>1. GoodManifest(N)
        BY <1>0, <1>a, GoodExpire, GoodNextManifest
      <3> HIDE DEF N
      <3>2. op' = Call("expire", "manifest", NoWorker, 1, N)
        BY <2>1 DEF N
      <3>3. QED
        BY <2>2, <3>1, <3>2, NewCall
    <2>4. QED
      BY <1>2, <2>3 DEF ExpireOnly, TypeOK, files, clock, RecordsWellFormed
  <1>3. ASSUME NEW w \in Workers, StageCompletion(w) PROVE TypeInv'
    <2>1. "stage" \in CallNames /\ worker[w].chunk \in Chunks
      BY DEF CallNames, TypeOK, Task
    <2>2. op' \in Op /\ RecordsWellFormed(op.new)' /\ op'.at = "sidecar" /\ op'.by = w
      BY <1>0, <1>3, <2>1, CallType DEF StageCompletion, RecordsWellFormed
    <2>3. QED
      BY <1>3, <2>2 DEF StageCompletion, TypeOK, files, clock, RecordsWellFormed
  <1>4. ASSUME NEW w \in Workers, Commit(w) PROVE TypeInv'
    <2> DEFINE t == worker[w]
               R == [current.chunks EXCEPT ![t.chunk] = CompleteRecord(t.lease, t.completion)]
    <2>1. t.chunk \in Chunks /\ t.lease \in Nat /\ t.completion \in Exact /\ "commit" \in CallNames
      BY <1>4 DEF TypeOK, Task, Commit, ValidCompletion, SegmentMatches, CallNames
    <2>2. GoodChunks(R)
      BY <1>a, <2>1, RecordTypes, GoodUpdate
    <2>3. op' = Call("commit", "sidecar", w, t.chunk,
                   NextManifest(current, R, StateAfterCommit(current.state, R)))
      BY <1>4 DEF Commit
    <2>4. op' \in Op /\ RecordsWellFormed(op.new)' /\ op'.at = "sidecar" /\ op'.by = w
      <3> DEFINE N == NextManifest(current, R, StateAfterCommit(current.state, R))
      <3>1. GoodManifest(N)
        <4> HIDE DEF R
        <4> QED
          BY <1>0, <1>a, <2>2, StateTypes, GoodNextManifest
      <3> HIDE DEF N
      <3>2. op' = Call("commit", "sidecar", w, t.chunk, N)
        BY <2>3 DEF N
      <3>3. QED
        BY <2>1, <3>1, <3>2, NewCall
    <2>5. QED
      BY <1>4, <2>4 DEF Commit, TypeOK, files, clock, RecordsWellFormed
  <1>5. ASSUME NEW w \in Workers, RejectCompletion(w) PROVE TypeInv'
    BY <1>5, NoTaskType DEF RejectCompletion, TypeOK, files, clock, RecordsWellFormed
  <1>6. ASSUME NEW w \in Workers, WriteSegment(w) PROVE TypeInv'
    <2>1. worker' \in [Workers -> Task]
      BY <1>6 DEF WriteSegment, TypeOK, Task, Phases
    <2>2. segment' \in [Chunks -> File]
      <3>1. PICK p \in Payloads : segment' = [segment EXCEPT ![worker[w].chunk] = p]
        BY <1>6 DEF WriteSegment
      <3>2. QED
        BY <3>1 DEF TypeOK, File
    <2>3. QED
      BY <1>6, <2>1, <2>2 DEF WriteSegment, TypeOK, clock, RecordsWellFormed
  <1>7. ASSUME NEW w \in Workers, HashSegment(w) PROVE TypeInv'
    <2> DEFINE content == segment[worker[w].chunk]
    <2>1. content \in Payloads
      BY <1>7 DEF HashSegment, TypeOK, Task, File
    <2>2. PICK fits \in BOOLEAN :
            /\ worker' = [worker EXCEPT ![w].phase = "published",
                                        ![w].completion = [sha |-> content, fits |-> fits]]
            /\ IF fits THEN UNCHANGED disturbed ELSE Disturb
      BY <1>7 DEF HashSegment
    <2>3. [sha |-> content, fits |-> fits] \in Completion
      BY <2>1 DEF Completion
    <2> HIDE DEF content
    <2>4. worker' \in [Workers -> Task]
      BY <1>7, <2>2, <2>3, ZenonT(60) DEF TypeOK, Task, Phases
    <2>5. disturbed' \in Nat
      BY <2>2 DEF TypeOK, Disturb
    <2>6. QED
      BY <1>7, <2>4, <2>5 DEF HashSegment, TypeOK, files, clock, RecordsWellFormed
  <1>20. ASSUME NEW w \in Workers, SegmentVanished(w) PROVE TypeInv'
    <2>1. worker' \in [Workers -> Task]
      BY <1>20, NoTaskType DEF SegmentVanished, TypeOK
    <2>2. QED
      BY <1>20, <2>1 DEF SegmentVanished, TypeOK, files, clock, RecordsWellFormed
  <1>8. ASSUME NEW w \in Workers, WorkerFails(w) PROVE TypeInv'
    BY <1>8, NoTaskType DEF WorkerFails, TypeOK, files, clock, RecordsWellFormed, Disturb
  <1>9. CASE RequestPause
    <2>1. "pause" \in CallNames /\ 1 \in Chunks
      BY ChunkAssumption DEF CallNames, Chunks
    <2>2. op' \in Op /\ RecordsWellFormed(op.new)' /\ op'.at = "manifest"
      <3> DEFINE N == NextManifest(current, current.chunks, StateAfterPause(current.chunks))
      <3>1. GoodManifest(N)
        BY <1>0, <1>a, StateTypes, GoodNextManifest
      <3> HIDE DEF N
      <3>2. op' = Call("pause", "manifest", NoWorker, 1, N)
        BY <1>9 DEF N, RequestPause
      <3>3. QED
        BY <2>1, <3>1, <3>2, NewCall
    <2>3. QED
      BY <1>9, <2>2 DEF RequestPause, TypeOK, files, clock, RecordsWellFormed, Disturb
  <1>10. CASE Resume
    <2>1. "resume" \in CallNames /\ 1 \in Chunks /\ "running" \in JobStates
      BY ChunkAssumption DEF CallNames, Chunks, JobStates
    <2>2. op' \in Op /\ RecordsWellFormed(op.new)' /\ op'.at = "manifest"
      <3> DEFINE N == NextManifest(current, current.chunks, "running")
      <3>1. GoodManifest(N)
        BY <1>0, <1>a, <2>1, GoodNextManifest
      <3> HIDE DEF N
      <3>2. op' = Call("resume", "manifest", NoWorker, 1, N)
        BY <1>10 DEF N, Resume
      <3>3. QED
        BY <2>1, <3>1, <3>2, NewCall
    <2>3. QED
      BY <1>10, <2>2 DEF Resume, TypeOK, files, clock, RecordsWellFormed
  <1>11. CASE Recover
    <2> DEFINE R == RecoveredChunks(disk.chunks, lapsed, segment, sidecar)
               s == StateAfterRecover(disk.state, R)
    <2>1. "recover" \in CallNames /\ 1 \in Chunks
      BY ChunkAssumption DEF CallNames, Chunks
    <2>2. GoodChunks(R)
      BY <1>a, GoodRecovered DEF TypeOK
    <2>3. s \in JobStates
      BY <1>a, StateTypes
    <2>4. \/ op' = Call("recover", "manifest", NoWorker, 1, NextManifest(disk, R, s))
          \/ op' = NoCall
      BY <1>11 DEF Recover
    <2>5. op' \in Op /\ RecordsWellFormed(op.new)' /\ op'.at # "sidecar"
      <3> DEFINE N == NextManifest(disk, R, s)
      <3>1. GoodManifest(N)
        <4> HIDE DEF R, s
        <4> QED
          BY <1>0, <2>2, <2>3, GoodNextManifest
      <3> HIDE DEF N
      <3>2. CASE op' = Call("recover", "manifest", NoWorker, 1, N)
        BY <2>1, <3>1, <3>2, NewCall
      <3>3. CASE op' = NoCall
        BY <3>3, NoCallType DEF RecordsWellFormed
      <3>4. QED
        BY <2>4, <3>2, <3>3 DEF N
    <2>6. QED
      BY <1>11, <2>5 DEF Recover, TypeOK, files, clock, RecordsWellFormed
  <1>12. CASE OpStep
    <2>1. CASE WriteSidecar
      <3>1. sidecar' \in [Chunks -> Sidecar]
        BY <1>0, <2>1 DEF WriteSidecar, SidecarWritten, TypeOK, Sidecar, Task
      <3>2. op' \in Op /\ RecordsWellFormed(op.new)' /\ op'.at # "sidecar"
        BY <1>0, <2>1, NoCallType DEF WriteSidecar, TypeOK, Op, RecordsWellFormed
      <3>3. QED
        BY <2>1, <3>1, <3>2 DEF WriteSidecar, TypeOK, clock, RecordsWellFormed
    <2>2. CASE ReplaceManifest
      <3>1. op' \in Op /\ RecordsWellFormed(op.new)' /\ op'.at = "sync"
        BY <1>0, <2>2 DEF ReplaceManifest, TypeOK, Op, RecordsWellFormed
      <3>2. issued' \in [Chunks -> Nat]
        BY <1>0, <2>2 DEF ReplaceManifest, TypeOK
      <3>3. QED
        BY <1>0, <2>2, <3>1, <3>2 DEF ReplaceManifest, TypeOK, files, RecordsWellFormed
    <2>3. CASE RefuseReplace
      BY <2>3, NoCallType, NoTaskType
         DEF RefuseReplace, CallerGivesUp, TypeOK, files, clock, RecordsWellFormed
    <2>4. CASE Return
      <3>1. op.new.chunks[op.chunk].lease \in Nat
        BY <1>0, <1>a DEF GoodChunks, Record
      <3>2. [phase |-> "encoding", chunk |-> op.chunk,
             lease |-> op.new.chunks[op.chunk].lease, completion |-> NoCompletion] \in Task
        BY <1>0, <3>1 DEF Task, Phases, File
      <3>3. worker' \in [Workers -> Task]
        BY <2>4, <3>2, NoTaskType DEF Return, TypeOK
      <3>4. QED
        BY <1>0, <2>4, <3>3, NoCallType DEF Return, TypeOK, files, clock, RecordsWellFormed
    <2>5. QED
      BY <1>12, <2>1, <2>2, <2>3, <2>4 DEF OpStep
  <1>13. CASE WriteFails
    <2>1. sidecar' \in [Chunks -> Sidecar]
      BY <1>0, <1>13 DEF WriteFails, SidecarWritten, TypeOK, Sidecar, Task
    <2>2. QED
      BY <1>13, <2>1, NoCallType, NoTaskType
         DEF WriteFails, CallerGivesUp, TypeOK, clock, RecordsWellFormed, Disturb
  <1>14. CASE Crash
    <2>1. current' \in Manifest /\ RecordsWellFormed(current)'
      BY <1>14, GoodFirstManifest DEF Crash, GoodManifest, RecordsWellFormed
    <2>2. op' \in Op /\ RecordsWellFormed(op.new)' /\ op'.at = "none"
      BY <1>14, NoCallType DEF Crash, RecordsWellFormed
    <2>3. worker' \in [Workers -> Task]
      BY <1>14, NoTaskType DEF Crash
    <2>4. disk' = disk /\ segment' = segment /\ sidecar' = sidecar
          /\ up' \in BOOLEAN /\ issued' = issued /\ lapsed' = lapsed /\ disturbed' = disturbed + 1
      BY <1>14 DEF Crash, files, clock, Disturb
    <2>5. RecordsWellFormed(disk)'
      BY <2>4 DEF TypeOK, RecordsWellFormed
    <2>6. QED
      BY <2>1, <2>2, <2>3, <2>4, <2>5 DEF TypeOK
  <1>15. CASE Start
    BY <1>15 DEF Start, TypeOK, files, clock, RecordsWellFormed
  <1>16. ASSUME NEW c \in Chunks, Lapse(c) PROVE TypeInv'
    BY <1>16 DEF Lapse, TypeOK, files, RecordsWellFormed, Disturb
  <1>17. ASSUME NEW c \in Chunks, Damage(c) PROVE TypeInv'
    BY <1>17 DEF Damage, TypeOK, clock, RecordsWellFormed, Disturb
  <1>18. CASE UNCHANGED vars
    BY <1>18 DEF vars, files, clock, TypeOK, RecordsWellFormed
  <1>19. QED
    BY <1>1, <1>2, <1>3, <1>4, <1>5, <1>6, <1>7, <1>8, <1>9, <1>10, <1>11, <1>12,
       <1>13, <1>14, <1>15, <1>16, <1>17, <1>18, <1>20 DEF Next, WorkerStep, Environment

\* Every variable has its type and no manifest holds a record that the schema
\* of manifest.py refuses, in every reachable state.
THEOREM TypeCorrect == Spec => []TypeOK
  <1>1. Init => TypeInv
    BY TypeInit
  <1>2. TypeInv /\ [Next]_vars => TypeInv'
    BY TypeNext
  <1>3. TypeInv => TypeOK
    BY DEF TypeInv
  <1>4. QED
    BY <1>1, <1>2, <1>3, PTL DEF Spec

-----------------------------------------------------------------------------
(***************************************************************************)
(* The inductive invariant.  Its heart is OpDerives: the manifest a call   *)
(* is about to write is one operation away from the manifest in memory.    *)
(* Since a manifest is replaced only when memory and disk agree, every     *)
(* change of the disk is then one operation as well.                       *)
(***************************************************************************)

\* A record is kept, or its lease has expired.
KeptOrExpired(old, new, c) ==
  \/ new.chunks[c] = old.chunks[c]
  \/ old.chunks[c].status = "leased" /\ new.chunks[c] = PendingRecord

Derived(name, c, old, new) ==
  /\ new.gen = old.gen + 1
  /\ \/ /\ name = "lease"
        /\ old.state = "running" /\ new.state = "running"
        /\ old.chunks[c].status # "complete"
        /\ new.chunks[c] = LeasedRecord(issued[c] + 1)
        /\ \A d \in Chunks \ {c} : KeptOrExpired(old, new, d)
     \/ /\ name = "expire"
        /\ old.state # "running" /\ new.state = old.state
        /\ \A d \in Chunks : KeptOrExpired(old, new, d)
     \/ /\ name = "commit"
        /\ old.chunks[c].status = "leased"
        /\ \E p \in Exact : new.chunks[c] = CompleteRecord(old.chunks[c].lease, p)
        /\ \A d \in Chunks \ {c} : new.chunks[d] = old.chunks[d]
        /\ new.state = StateAfterCommit(old.state, new.chunks)
     \/ /\ name = "pause"
        /\ old.state = "running" /\ new.state = StateAfterPause(old.chunks)
        /\ new.chunks = old.chunks
     \/ /\ name = "resume"
        /\ old.state = "paused" /\ new.state = "running"
        /\ new.chunks = old.chunks
     \/ /\ name = "recover"
        /\ \A d \in Chunks :
             \/ new.chunks[d] = old.chunks[d]
             \/ new.chunks[d] = PendingRecord
             \/ \E n \in Nat, p \in Exact : new.chunks[d] = CompleteRecord(n, p)
        /\ new.state = StateAfterRecover(old.state, new.chunks)

OpShape ==
  /\ op.name = "none" <=> op.at = "none"
  /\ op.name # "none" => up
  /\ op.name = "stage" => op.at = "sidecar"

OpDerives ==
  op.at \in {"sidecar", "manifest"} /\ op.name # "stage"
    => Derived(op.name, op.chunk, current, op.new)

Replaced == op.at = "sync" => disk = op.new

SafetyInv ==
  /\ OpShape
  /\ OpDerives
  /\ Replaced
  /\ MemoryIsDiskOrPredecessor
  /\ Sound(disk) /\ Sound(current)
  /\ HolderIsNewest

\* A manifest that a call derives from a sound one is sound.
LEMMA DerivedIsSound ==
  ASSUME NEW old, GoodManifest(old), Sound(old), NEW new, GoodManifest(new),
         NEW name, NEW c \in Chunks, Derived(name, c, old, new)
  PROVE  Sound(new)
  <1> USE DEF Sound
  <1>0. /\ GoodChunks(old.chunks) /\ GoodChunks(new.chunks)
        /\ PendingRecord.status = "pending"
        /\ \A n : LeasedRecord(n).status = "leased"
        /\ \A n, p : CompleteRecord(n, p).status = "complete" /\ CompleteRecord(n, p).completion = p
    BY GoodManifestFields DEF PendingRecord, LeasedRecord, CompleteRecord
  <1>1. CASE name = "lease"
    BY <1>0, <1>1 DEF Derived, KeptOrExpired
  <1>2. CASE name = "expire"
    BY <1>0, <1>2 DEF Derived, KeptOrExpired, AllComplete
  <1>3. CASE name = "commit"
    BY <1>0, <1>3 DEF Derived, StateAfterCommit
  <1>4. CASE name = "pause"
    BY <1>4 DEF Derived, StateAfterPause
  <1>5. CASE name = "resume"
    BY <1>5 DEF Derived
  <1>6. CASE name = "recover"
    BY <1>0, <1>6 DEF Derived, StateAfterRecover
  <1>7. QED
    BY <1>1, <1>2, <1>3, <1>4, <1>5, <1>6 DEF Derived

\* A call that starts with a manifest derived from the memory is safe.
LEMMA CallIsSafe ==
  ASSUME SafetyInv, up,
         NEW name, name \notin {"none", "stage"},
         NEW at \in {"sidecar", "manifest"}, NEW w, NEW c, NEW m,
         op' = Call(name, at, w, c, m),
         Derived(name, c, current', m),
         current' = current \/ current' = disk,
         disk' = disk, up' = up, issued' = issued
  PROVE  SafetyInv'
  <1>1. /\ op'.name = name /\ op'.at = at /\ op'.chunk = c /\ op'.new = m
    BY DEF Call
  <1>2. OpShape' /\ Replaced'
    BY <1>1 DEF OpShape, Replaced
  <1>3. OpDerives'
    BY <1>1 DEF OpDerives, Derived
  <1>4. MemoryIsDiskOrPredecessor'
    BY DEF SafetyInv, MemoryIsDiskOrPredecessor
  <1>5. Sound(disk)' /\ Sound(current)'
    BY DEF SafetyInv, Sound, AllComplete
  <1>6. HolderIsNewest'
    BY DEF SafetyInv, HolderIsNewest
  <1>7. QED
    BY <1>2, <1>3, <1>4, <1>5, <1>6 DEF SafetyInv

\* A step that ends or leaves alone the call, and neither disk nor memory.
LEMMA QuietIsSafe ==
  ASSUME SafetyInv,
         op' = op \/ op' = NoCall,
         disk' = disk, current' = current, up' = up, issued' = issued
  PROVE  SafetyInv'
  <1>1. OpShape'
    BY NoCallType DEF SafetyInv, OpShape
  <1>2. OpDerives' /\ Replaced'
    BY NoCallType DEF SafetyInv, OpDerives, Replaced, Derived
  <1>3. MemoryIsDiskOrPredecessor'
    BY DEF SafetyInv, MemoryIsDiskOrPredecessor
  <1>4. Sound(disk)' /\ Sound(current)' /\ HolderIsNewest'
    BY DEF SafetyInv, Sound, AllComplete, HolderIsNewest
  <1>5. QED
    BY <1>1, <1>2, <1>3, <1>4 DEF SafetyInv

\* The invariant holds when the first coordinator is constructed.
LEMMA SafetyInit == Init => SafetyInv
  <1> SUFFICES ASSUME Init PROVE SafetyInv
    OBVIOUS
  <1>1. Sound(FirstManifest) /\ \A c \in Chunks : FirstManifest.chunks[c].status = "pending"
    BY DEF Sound, FirstManifest, PendingRecord
  <1>2. QED
    BY <1>1, NoCallType
       DEF Init, SafetyInv, OpShape, OpDerives, Replaced, MemoryIsDiskOrPredecessor,
           HolderIsNewest

\* lease prepares a manifest in which a pending chunk is leased under the next
\* lease number.
LEMMA LeaseIsSafe ==
  ASSUME TypeInv, SafetyInv, NEW w \in Workers, Lease(w)
  PROVE  SafetyInv'
  <1> DEFINE E == Expire(current.chunks, lapsed)
  <1>1. PICK c \in Chunks :
          /\ IsFirstPending(E, c)
          /\ op' = Call("lease", "manifest", w, c,
                     NextManifest(current,
                       [E EXCEPT ![c] = LeasedRecord(issued[c] + 1)], "running"))
    BY DEF Lease
  <1> DEFINE L == LeasedRecord(issued[c] + 1)
             R == [E EXCEPT ![c] = L]
             N == NextManifest(current, R, "running")
  <1>2. GoodManifest(current) /\ GoodChunks(current.chunks)
    BY GoodManifestFields DEF TypeInv, TypeOK, GoodManifest
  <1>3. /\ GoodChunks(E)
        /\ \A d \in Chunks : \/ E[d] = current.chunks[d]
                             \/ /\ current.chunks[d].status = "leased"
                                /\ E[d] = PendingRecord
    BY <1>2, GoodExpire
  <1>4. current.chunks[c].status # "complete"
    BY <1>1, <1>3 DEF IsFirstPending
  <1>5. L \in Record /\ WellFormed(L)
    BY RecordTypes DEF TypeInv, TypeOK
  <1>6. GoodChunks(R) /\ R[c] = L /\ \A d \in Chunks \ {c} : R[d] = E[d]
    <2> HIDE DEF E, L
    <2> QED
      BY <1>3, <1>5, GoodUpdate
  <1>7. N.gen = current.gen + 1 /\ N.state = "running" /\ N.chunks = R
    BY DEF NextManifest
  <1>8. Derived("lease", c, current, N)
    <2> HIDE DEF E, R, N
    <2> QED
      BY <1>3, <1>4, <1>6, <1>7 DEF Derived, KeptOrExpired, Lease
  <1>9. current' = current /\ disk' = disk /\ up' = up /\ issued' = issued /\ up
    BY DEF Lease, clock, Unlocked
  <1>10. Derived("lease", c, current', N)
    BY <1>8, <1>9
  <1> HIDE DEF N
  <1>11. op' = Call("lease", "manifest", w, c, N)
    BY <1>1 DEF N
  <1>12. QED
    BY <1>9, <1>10, <1>11, CallIsSafe

\* lease of a job that does not run only drops lapsed leases.
LEMMA ExpireOnlyIsSafe ==
  ASSUME TypeInv, SafetyInv, NEW w \in Workers, ExpireOnly(w)
  PROVE  SafetyInv'
  <1> DEFINE E == Expire(current.chunks, lapsed)
             N == NextManifest(current, E, current.state)
  <1>1. GoodChunks(current.chunks)
    BY GoodManifestFields DEF TypeInv, TypeOK, GoodManifest
  <1>2. \A d \in Chunks : KeptOrExpired(current, N, d)
    BY <1>1, GoodExpire DEF KeptOrExpired, NextManifest
  <1>3. current' = current /\ disk' = disk /\ up' = up /\ issued' = issued /\ up
    BY DEF ExpireOnly, clock, Unlocked
  <1>4. Derived("expire", 1, current, N)
    BY <1>2 DEF Derived, NextManifest, ExpireOnly
  <1>5. Derived("expire", 1, current', N)
    BY <1>3, <1>4
  <1> HIDE DEF N
  <1>6. op' = Call("expire", "manifest", NoWorker, 1, N)
    BY DEF N, ExpireOnly
  <1>7. QED
    BY <1>3, <1>5, <1>6, CallIsSafe

\* commit prepares a manifest in which one leased chunk is complete.
LEMMA CommitIsSafe ==
  ASSUME TypeInv, SafetyInv, NEW w \in Workers, Commit(w)
  PROVE  SafetyInv'
  <1> DEFINE t == worker[w]
             c == t.chunk
             R == [current.chunks EXCEPT ![c] = CompleteRecord(t.lease, t.completion)]
             N == NextManifest(current, R, StateAfterCommit(current.state, R))
  <1>1. /\ c \in Chunks /\ t.completion \in Exact /\ t.lease \in Nat
        /\ current.chunks[c].status = "leased" /\ current.chunks[c].lease = t.lease
    BY DEF TypeInv, TypeOK, Task, Commit, ValidCompletion, HoldsLease, SegmentMatches
  <1>2. GoodChunks(current.chunks)
    BY GoodManifestFields DEF TypeInv, TypeOK, GoodManifest
  <1>3. /\ R[c] = CompleteRecord(t.lease, t.completion)
        /\ \A d \in Chunks \ {c} : R[d] = current.chunks[d]
    BY <1>1, <1>2 DEF GoodChunks
  <1>4. N.gen = current.gen + 1 /\ N.chunks = R /\ N.state = StateAfterCommit(current.state, R)
    BY DEF NextManifest
  <1>5. Derived("commit", c, current, N)
    <2> HIDE DEF R, N, c, t
    <2> QED
      BY <1>1, <1>3, <1>4 DEF Derived
  <1>6. current' = current /\ disk' = disk /\ up' = up /\ issued' = issued /\ up
    BY DEF Commit, clock, Unlocked
  <1>7. Derived("commit", c, current', N)
    BY <1>5, <1>6
  <1> HIDE DEF N
  <1>8. op' = Call("commit", "sidecar", w, c, N)
    BY DEF N, Commit
  <1> HIDE DEF c
  <1>9. QED
    BY <1>6, <1>7, <1>8, CallIsSafe

\* recover prepares a manifest from records, segments and sidecars.
LEMMA RecoverIsSafe ==
  ASSUME TypeInv, SafetyInv, Recover
  PROVE  SafetyInv'
  <1> DEFINE R == RecoveredChunks(disk.chunks, lapsed, segment, sidecar)
             s == StateAfterRecover(disk.state, R)
             N == NextManifest(disk, R, s)
  <1>1. GoodChunks(disk.chunks)
    BY GoodManifestFields DEF TypeInv, TypeOK, GoodManifest
  <1>2. \A d \in Chunks : \/ R[d] = disk.chunks[d]
                          \/ R[d] = PendingRecord
                          \/ \E n \in Nat, p \in Exact : R[d] = CompleteRecord(n, p)
    BY <1>1, GoodRecovered DEF TypeInv, TypeOK
  <1>3. N.gen = disk.gen + 1 /\ N.chunks = R /\ N.state = s
    BY DEF NextManifest
  <1>4. current' = disk /\ disk' = disk /\ up' = up /\ issued' = issued /\ up
    BY DEF Recover, clock, Unlocked
  <1>5. Derived("recover", 1, current', N)
    <2> HIDE DEF R, N
    <2> QED
      BY <1>2, <1>3, <1>4 DEF Derived
  <1>6. CASE op' = Call("recover", "manifest", NoWorker, 1, N)
    <2> HIDE DEF N
    <2> QED
      BY <1>4, <1>5, <1>6, CallIsSafe
  <1>7. CASE op' = NoCall
    BY <1>4, <1>7, NoCallType
       DEF SafetyInv, OpShape, OpDerives, Replaced, MemoryIsDiskOrPredecessor, Sound,
           AllComplete, HolderIsNewest
  <1>8. op' = Call("recover", "manifest", NoWorker, 1, N) \/ op' = NoCall
    BY DEF Recover
  <1>9. QED
    BY <1>6, <1>7, <1>8

\* request_pause and resume change the job state and no record.
LEMMA PauseAndResumeAreSafe ==
  ASSUME TypeInv, SafetyInv, RequestPause \/ Resume
  PROVE  SafetyInv'
  <1>1. current' = current /\ disk' = disk /\ up' = up /\ issued' = issued /\ up
    BY DEF RequestPause, Resume, clock, Unlocked
  <1>2. CASE RequestPause
    <2> DEFINE N == NextManifest(current, current.chunks, StateAfterPause(current.chunks))
    <2>1. Derived("pause", 1, current', N)
      BY <1>1, <1>2 DEF Derived, NextManifest, RequestPause
    <2> HIDE DEF N
    <2>2. op' = Call("pause", "manifest", NoWorker, 1, N)
      BY <1>2 DEF N, RequestPause
    <2>3. QED
      BY <1>1, <2>1, <2>2, CallIsSafe
  <1>3. CASE Resume
    <2> DEFINE N == NextManifest(current, current.chunks, "running")
    <2>1. Derived("resume", 1, current', N)
      BY <1>1, <1>3 DEF Derived, NextManifest, Resume
    <2> HIDE DEF N
    <2>2. op' = Call("resume", "manifest", NoWorker, 1, N)
      BY <1>3 DEF N, Resume
    <2>3. QED
      BY <1>1, <2>1, <2>2, CallIsSafe
  <1>4. QED
    BY <1>2, <1>3

\* stage_completion writes a sidecar and no manifest.
LEMMA StageIsSafe ==
  ASSUME SafetyInv, NEW w \in Workers, StageCompletion(w)
  PROVE  SafetyInv'
  <1>1. op'.name = "stage" /\ op'.at = "sidecar"
    BY DEF StageCompletion, Call
  <1>2. current' = current /\ disk' = disk /\ up' = up /\ issued' = issued /\ up
    BY DEF StageCompletion, clock, Unlocked
  <1>3. QED
    BY <1>1, <1>2
       DEF SafetyInv, OpShape, OpDerives, Replaced, MemoryIsDiskOrPredecessor, Sound,
           AllComplete, HolderIsNewest

\* commit writes the sidecar before the manifest.
LEMMA WriteSidecarIsSafe ==
  ASSUME TypeInv, SafetyInv, WriteSidecar
  PROVE  SafetyInv'
  <1>1. current' = current /\ disk' = disk /\ up' = up /\ issued' = issued
    BY DEF WriteSidecar, clock
  <1>2. CASE op.name = "stage"
    BY <1>1, <1>2, QuietIsSafe DEF WriteSidecar
  <1>3. CASE op.name # "stage"
    <2>1. op' = [op EXCEPT !.at = "manifest"]
      BY <1>3 DEF WriteSidecar
    <2>2. /\ op'.name = op.name /\ op'.at = "manifest"
          /\ op'.chunk = op.chunk /\ op'.new = op.new
      BY <2>1 DEF TypeInv, TypeOK, Op
    <2>3. op.at = "sidecar" /\ op.name # "none" /\ up
      BY DEF WriteSidecar, SafetyInv, OpShape
    <2>4. OpShape' /\ Replaced'
      BY <1>1, <1>3, <2>2, <2>3 DEF OpShape, Replaced
    <2>5. OpDerives'
      BY <1>1, <1>3, <2>2, <2>3 DEF SafetyInv, OpDerives, Derived
    <2>6. QED
      BY <1>1, <2>4, <2>5
         DEF SafetyInv, MemoryIsDiskOrPredecessor, Sound, AllComplete, HolderIsNewest
  <1>4. QED
    BY <1>2, <1>3

\* What replacing the manifest does to the disk: one operation.
LEMMA ReplaceDerives ==
  ASSUME TypeInv, SafetyInv, ReplaceManifest
  PROVE  /\ Derived(op.name, op.chunk, disk, disk')
         /\ op.name # "none" /\ op.name # "stage"
         /\ GoodManifest(disk) /\ GoodManifest(disk')
         /\ op.chunk \in Chunks
  <1>1. op.at = "manifest" /\ disk = current /\ disk' = op.new
    BY DEF ReplaceManifest
  <1>2. op.name # "none" /\ op.name # "stage"
    BY <1>1 DEF SafetyInv, OpShape
  <1>3. Derived(op.name, op.chunk, disk, disk')
    BY <1>1, <1>2 DEF SafetyInv, OpDerives
  <1>4. QED
    BY <1>1, <1>2, <1>3 DEF TypeInv, TypeOK, GoodManifest, Op

\* After an operation the lease recorded for a chunk is still the newest.
LEMMA NewestAfterReplace ==
  ASSUME TypeInv, SafetyInv, ReplaceManifest
  PROVE  HolderIsNewest'
  <1> SUFFICES ASSUME NEW d \in Chunks, disk'.chunks[d].status = "leased"
               PROVE  disk'.chunks[d].lease = issued'[d]
    BY DEF HolderIsNewest
  <1>1. /\ Derived(op.name, op.chunk, disk, disk')
        /\ op.chunk \in Chunks
    BY ReplaceDerives
  <1>2. /\ issued \in [Chunks -> Nat]
        /\ issued' = IF op.name = "lease" THEN [issued EXCEPT ![op.chunk] = @ + 1] ELSE issued
        /\ disk.chunks[d].status = "leased" => disk.chunks[d].lease = issued[d]
    BY DEF ReplaceManifest, TypeInv, TypeOK, SafetyInv, HolderIsNewest
  <1>3. /\ PendingRecord.status # "leased"
        /\ \A n, p : CompleteRecord(n, p).status # "leased"
        /\ \A n : LeasedRecord(n).lease = n
    BY DEF PendingRecord, CompleteRecord, LeasedRecord
  <1>4. CASE op.name = "lease"
    <2>1. CASE d = op.chunk
      BY <1>1, <1>2, <1>3, <1>4, <2>1 DEF Derived
    <2>2. CASE d # op.chunk
      BY <1>1, <1>2, <1>3, <1>4, <2>2 DEF Derived, KeptOrExpired
    <2>3. QED
      BY <2>1, <2>2
  <1>5. CASE op.name # "lease"
    <2>1. disk'.chunks[d] = disk.chunks[d]
      BY <1>1, <1>3, <1>5 DEF Derived, KeptOrExpired
    <2>2. QED
      BY <1>2, <1>5, <2>1
  <1>6. QED
    BY <1>4, <1>5

\* The replacement of the file makes the prepared manifest the current one.
LEMMA ReplaceIsSafe ==
  ASSUME TypeInv, SafetyInv, ReplaceManifest
  PROVE  SafetyInv'
  <1>1. /\ op' = [op EXCEPT !.at = "sync"] /\ disk = current /\ disk' = op.new
        /\ current' = current /\ up' = up
    BY DEF ReplaceManifest
  <1>2. op'.name = op.name /\ op'.at = "sync" /\ op'.new = op.new
    BY <1>1 DEF TypeInv, TypeOK, Op
  <1>3. Derived(op.name, op.chunk, disk, disk') /\ op.name \notin {"none", "stage"}
    BY ReplaceDerives
  <1>4. OpShape' /\ OpDerives' /\ Replaced'
    BY <1>1, <1>2, <1>3 DEF SafetyInv, OpShape, OpDerives, Replaced
  <1>5. MemoryIsDiskOrPredecessor'
    BY <1>1, <1>3 DEF Derived, MemoryIsDiskOrPredecessor
  <1>6. Sound(disk')
    BY ReplaceDerives, DerivedIsSound DEF SafetyInv
  <1>7. Sound(current)'
    BY <1>1 DEF SafetyInv, Sound, AllComplete
  <1>8. QED
    BY <1>4, <1>5, <1>6, <1>7, NewestAfterReplace DEF SafetyInv, Sound, AllComplete

\* _persist updates the memory of the coordinator after the file.
LEMMA ReturnIsSafe ==
  ASSUME SafetyInv, Return
  PROVE  SafetyInv'
  <1>1. op' = NoCall /\ current' = disk /\ disk' = disk /\ up' = up /\ issued' = issued
    BY DEF Return, SafetyInv, Replaced, clock
  <1>2. QED
    BY <1>1, NoCallType
       DEF SafetyInv, OpShape, OpDerives, Replaced, MemoryIsDiskOrPredecessor, Sound,
           AllComplete, HolderIsNewest

\* A crash loses the memory and keeps the files; a new coordinator reads them.
LEMMA CrashAndStartAreSafe ==
  ASSUME SafetyInv, Crash \/ Start
  PROVE  SafetyInv'
  <1>1. Sound(FirstManifest)
    BY DEF Sound, FirstManifest, PendingRecord
  <1>2. CASE Crash
    <2>1. /\ op' = NoCall /\ disk' = disk /\ current' = FirstManifest
          /\ issued' = issued /\ ~up'
      BY <1>2 DEF Crash, clock
    <2>2. QED
      BY <1>1, <2>1, NoCallType
         DEF SafetyInv, OpShape, OpDerives, Replaced, MemoryIsDiskOrPredecessor, Sound,
             AllComplete, HolderIsNewest
  <1>3. CASE Start
    <2>1. /\ op' = op /\ disk' = disk /\ current' = disk /\ issued' = issued /\ ~up
      BY <1>3 DEF Start, clock
    <2>2. op.name = "none" /\ op.at = "none"
      BY <2>1 DEF SafetyInv, OpShape
    <2>3. QED
      BY <2>1, <2>2
         DEF SafetyInv, OpShape, OpDerives, Replaced, MemoryIsDiskOrPredecessor, Sound,
             AllComplete, HolderIsNewest
  <1>4. QED
    BY <1>2, <1>3

\* Each step keeps the invariant.
LEMMA SafetyNext == TypeInv /\ SafetyInv /\ [Next]_vars => SafetyInv'
  <1> SUFFICES ASSUME TypeInv, SafetyInv, [Next]_vars PROVE SafetyInv'
    OBVIOUS
  <1>1. ASSUME NEW w \in Workers, WorkerStep(w) PROVE SafetyInv'
    <2>1. CASE \/ RejectCompletion(w) \/ WriteSegment(w) \/ HashSegment(w)
               \/ SegmentVanished(w) \/ WorkerFails(w)
      BY <2>1, QuietIsSafe
         DEF RejectCompletion, WriteSegment, HashSegment, SegmentVanished, WorkerFails, clock
    <2>2. QED
      BY <1>1, <2>1, LeaseIsSafe, ExpireOnlyIsSafe, StageIsSafe, CommitIsSafe DEF WorkerStep
  <1>2. CASE RequestPause \/ Resume \/ Recover
    BY <1>2, PauseAndResumeAreSafe, RecoverIsSafe
  <1>3. CASE OpStep
    <2>1. CASE RefuseReplace
      BY <2>1, QuietIsSafe DEF RefuseReplace, clock
    <2>2. QED
      BY <1>3, <2>1, WriteSidecarIsSafe, ReplaceIsSafe, ReturnIsSafe DEF OpStep
  <1>4. CASE Environment
    <2>1. CASE WriteFails
      BY <2>1, QuietIsSafe DEF WriteFails, clock
    <2>2. ASSUME NEW c \in Chunks, Lapse(c) \/ Damage(c) PROVE SafetyInv'
      BY <2>2, QuietIsSafe DEF Lapse, Damage, clock
    <2>3. QED
      BY <1>4, <2>1, <2>2, CrashAndStartAreSafe DEF Environment
  <1>5. CASE UNCHANGED vars
    BY <1>5, QuietIsSafe DEF vars
  <1>6. QED
    BY <1>1, <1>2, <1>3, <1>4, <1>5 DEF Next

Inv == TypeInv /\ SafetyInv

\* The inductive invariant: types, the call in progress derives from what the
\* memory holds, and the safety properties of the manifest.
THEOREM Invariance == Spec => []Inv
  <1>1. Init => Inv
    BY TypeInit, SafetyInit DEF Inv
  <1>2. Inv /\ [Next]_vars => Inv'
    BY TypeNext, SafetyNext DEF Inv
  <1>3. QED
    BY <1>1, <1>2, PTL DEF Spec

\* The memory of a live coordinator is the manifest file or the generation
\* before it, whatever calls fail and whenever the process is restarted.
THEOREM MemoryFollowsDisk == Spec => []MemoryIsDiskOrPredecessor
  <1>1. Inv => MemoryIsDiskOrPredecessor
    BY DEF Inv, SafetyInv
  <1>2. QED
    BY <1>1, Invariance, PTL

\* A manifest that says complete has every chunk complete.
THEOREM CompleteIsComplete == Spec => []CompleteMeansAllChunks
  <1>1. Inv => CompleteMeansAllChunks
    BY DEF Inv, SafetyInv, Sound, CompleteMeansAllChunks
  <1>2. QED
    BY <1>1, Invariance, PTL

\* Commit and recovery record checked completions only.
THEOREM CompletionsAreExact == Spec => []OnlyExactCompletions
  <1>1. Inv => OnlyExactCompletions
    BY DEF Inv, SafetyInv, Sound, OnlyExactCompletions
  <1>2. QED
    BY <1>1, Invariance, PTL

\* The lease on disk is the newest lease of its chunk.
THEOREM LeasesAreNewest == Spec => []HolderIsNewest
  <1>1. Inv => HolderIsNewest
    BY DEF Inv, SafetyInv
  <1>2. QED
    BY <1>1, Invariance, PTL

\* A commit is the work of the newest lease of its chunk.
THEOREM CommitsAreNewest == Spec => CommitIsByNewestLease
  <1> DEFINE Step == \A c \in Chunks :
                       /\ op.name = "commit"
                       /\ disk.chunks[c].status # "complete"
                       /\ disk'.chunks[c].status = "complete"
                       => disk'.chunks[c].lease = issued[c]
  <1>1. Inv /\ [Next]_vars => [Step]_vars
    <2> SUFFICES ASSUME Inv, [Next]_vars, NEW c \in Chunks,
                        op.name = "commit",
                        disk.chunks[c].status # "complete",
                        disk'.chunks[c].status = "complete"
                 PROVE  disk'.chunks[c].lease = issued[c]
      OBVIOUS
    <2>1. ReplaceManifest
      BY DEF Next, WorkerStep, OpStep, Environment, Lease, ExpireOnly, StageCompletion,
             Commit, RejectCompletion, WriteSegment, HashSegment, SegmentVanished, WorkerFails,
             RequestPause, Resume, Recover, WriteSidecar, RefuseReplace, Return,
             WriteFails, Crash, Start, Lapse, Damage, vars
    <2>2. Derived("commit", op.chunk, disk, disk') /\ op.chunk \in Chunks
      BY <2>1, ReplaceDerives DEF Inv
    <2>3. c = op.chunk
      BY <2>2 DEF Derived
    <2>4. disk.chunks[c].status = "leased" /\ disk'.chunks[c].lease = disk.chunks[c].lease
      <3>1. \A n, p : CompleteRecord(n, p).lease = n
        BY DEF CompleteRecord
      <3>2. QED
        BY <2>2, <2>3, <3>1 DEF Derived
    <2>5. QED
      BY <2>4 DEF Inv, SafetyInv, HolderIsNewest
  <1>2. QED
    BY <1>1, Invariance, PTL DEF Spec, CommitIsByNewestLease

-----------------------------------------------------------------------------
(***************************************************************************)
(* The coordinator implements the job ledger.  Only the replacement of the *)
(* manifest file changes what the ledger sees, and the inductive invariant *)
(* says that it applies exactly one operation to the manifest on disk;     *)
(* each operation is one action of JobLedger.                              *)
(***************************************************************************)

\* What the ledger sees of a manifest.
HolderIn(m) ==
  [c \in Chunks |-> IF m.chunks[c].status = "leased" THEN m.chunks[c].lease ELSE 0]

\* The ledger's variables, unprimed and primed, in terms of the two manifests.
LEMMA LedgerView ==
  /\ Holder = HolderIn(disk) /\ Done = DoneIn(disk)
  /\ Holder' = HolderIn(disk') /\ Done' = DoneIn(disk')
  BY DEF Holder, HolderIn, Done, DoneIn

\* A chunk has a holder exactly if its record is leased.
LEMMA HolderFacts ==
  ASSUME NEW m, GoodManifest(m)
  PROVE  /\ \A c \in Chunks : HolderIn(m)[c] # 0 <=> m.chunks[c].status = "leased"
         /\ (\E c \in Chunks : HolderIn(m)[c] # 0) <=> HasLease(m.chunks)
         /\ DoneIn(m) = Chunks <=> AllComplete(m.chunks)
  BY DEF GoodManifest, RecordsWellFormed, WellFormed, HolderIn, DoneIn, HasLease, AllComplete

\* The status and lease fields of the records the operations build.
LEMMA BuiltRecords ==
  /\ PendingRecord.status = "pending"
  /\ \A k : LeasedRecord(k).status = "leased" /\ LeasedRecord(k).lease = k
  /\ \A k, p : CompleteRecord(k, p).status = "complete"
  BY DEF PendingRecord, LeasedRecord, CompleteRecord

\* A replacement prepared by lease grants a chunk of the ledger.
LEMMA LeaseGrants ==
  ASSUME TypeInv, SafetyInv, ReplaceManifest, op.name = "lease"
  PROVE  Ledger!Grant(op.chunk)
  <1> DEFINE c == op.chunk
             R == {d \in Chunks : HolderIn(disk')[d] = 0 \/ d = c}
  <1>1. /\ Derived("lease", c, disk, disk') /\ c \in Chunks
        /\ GoodManifest(disk) /\ GoodManifest(disk')
    BY ReplaceDerives
  <1>2. issued' = [issued EXCEPT ![c] = @ + 1]
    BY DEF ReplaceManifest
  <1>3. /\ disk.state = "running" /\ disk'.state = "running"
        /\ disk.chunks[c].status # "complete"
        /\ disk'.chunks[c] = LeasedRecord(issued[c] + 1)
        /\ \A d \in Chunks \ {c} : KeptOrExpired(disk, disk', d)
    BY <1>1 DEF Derived
  <1>4. ASSUME NEW d \in Chunks, d # c
        PROVE  /\ HolderIn(disk')[d] \in {0, HolderIn(disk)[d]}
               /\ d \in DoneIn(disk') <=> d \in DoneIn(disk)
    BY <1>3, <1>4, BuiltRecords DEF KeptOrExpired, HolderIn, DoneIn
  <1>5. HolderIn(disk')[c] = issued[c] + 1 /\ c \notin DoneIn(disk) /\ c \notin DoneIn(disk')
    BY <1>1, <1>3, BuiltRecords DEF HolderIn, DoneIn
  <1>6. DoneIn(disk') = DoneIn(disk)
    BY <1>4, <1>5 DEF DoneIn
  <1>7. Ledger!Without(R) = [d \in Chunks |-> IF d \in R THEN 0 ELSE HolderIn(disk)[d]]
    BY LedgerView DEF Ledger!Without
  <1>8. HolderIn(disk') = [Ledger!Without(R) EXCEPT ![c] = issued[c] + 1]
    <2>1. [Ledger!Without(R) EXCEPT ![c] = issued[c] + 1]
            = [d \in Chunks |-> IF d = c THEN issued[c] + 1
                               ELSE IF d \in R THEN 0 ELSE HolderIn(disk)[d]]
      BY <1>7
    <2>2. \A d \in Chunks :
            HolderIn(disk')[d] = IF d = c THEN issued[c] + 1
                                 ELSE IF d \in R THEN 0 ELSE HolderIn(disk)[d]
      BY <1>4, <1>5
    <2>3. HolderIn(disk') = [d \in Chunks |-> HolderIn(disk')[d]]
      BY DEF HolderIn
    <2>4. QED
      BY <2>1, <2>2, <2>3
  <1>9. Ledger!Without(R)[c] = 0
    BY <1>1, <1>7
  <1>10. \E Q \in SUBSET Chunks : /\ Ledger!Without(Q)[c] = 0
                                 /\ HolderIn(disk') = [Ledger!Without(Q) EXCEPT ![c] = issued[c] + 1]
    BY <1>8, <1>9
  <1>11. QED
    BY <1>2, <1>3, <1>5, <1>6, <1>10, LedgerView DEF Ledger!Grant

\* A manifest in which no record is newly leased only drops holders.
LEMMA OnlyDrops ==
  ASSUME NEW m, NEW n,
         \A d \in Chunks : HolderIn(n)[d] \in {0, HolderIn(m)[d]}
  PROVE  \E R \in SUBSET Chunks :
           HolderIn(n) = [d \in Chunks |-> IF d \in R THEN 0 ELSE HolderIn(m)[d]]
  <1> DEFINE R == {d \in Chunks : HolderIn(n)[d] = 0}
  <1>1. HolderIn(n) = [d \in Chunks |-> IF d \in R THEN 0 ELSE HolderIn(m)[d]]
    BY DEF HolderIn
  <1>2. QED
    BY <1>1

\* A replacement that drops lapsed leases reclaims them in the ledger.
LEMMA ExpiryReclaims ==
  ASSUME TypeInv, SafetyInv, ReplaceManifest, op.name = "expire"
  PROVE  Ledger!Reclaim
  <1>1. Derived("expire", op.chunk, disk, disk')
    BY ReplaceDerives
  <1>2. issued' = issued
    BY DEF ReplaceManifest
  <1>3. /\ disk.state # "running" /\ disk'.state = disk.state
        /\ \A d \in Chunks : KeptOrExpired(disk, disk', d)
    BY <1>1 DEF Derived
  <1>4. \A d \in Chunks : HolderIn(disk')[d] \in {0, HolderIn(disk)[d]}
    BY <1>3, BuiltRecords DEF KeptOrExpired, HolderIn
  <1>5. DoneIn(disk') = DoneIn(disk)
    BY <1>3, BuiltRecords DEF KeptOrExpired, DoneIn
  <1>6. QED
    BY <1>2, <1>3, <1>4, <1>5, OnlyDrops, LedgerView DEF Ledger!Reclaim, Ledger!Without

\* A replacement prepared by commit finishes a chunk of the ledger.
LEMMA CommitFinishes ==
  ASSUME TypeInv, SafetyInv, ReplaceManifest, op.name = "commit"
  PROVE  Ledger!Finish(op.chunk)
  <1> DEFINE c == op.chunk
  <1>1. /\ Derived("commit", c, disk, disk') /\ c \in Chunks
        /\ GoodManifest(disk) /\ GoodManifest(disk')
    BY ReplaceDerives
  <1>2. issued' = issued
    BY DEF ReplaceManifest
  <1>3. /\ disk.chunks[c].status = "leased"
        /\ \E p \in Exact : disk'.chunks[c] = CompleteRecord(disk.chunks[c].lease, p)
        /\ \A d \in Chunks \ {c} : disk'.chunks[d] = disk.chunks[d]
        /\ disk'.state = StateAfterCommit(disk.state, disk'.chunks)
    BY <1>1 DEF Derived
  <1>4. disk'.chunks[c].status = "complete"
    BY <1>3, BuiltRecords
  <1>5. HolderIn(disk)[c] # 0 /\ c \notin DoneIn(disk)
    BY <1>1, <1>3, HolderFacts DEF DoneIn
  <1>6. DoneIn(disk') = DoneIn(disk) \union {c}
    BY <1>1, <1>3, <1>4 DEF DoneIn
  <1>7. HolderIn(disk') = [HolderIn(disk) EXCEPT ![c] = 0]
    BY <1>1, <1>3, <1>4 DEF HolderIn
  <1>8. DoneIn(disk') = Chunks <=> AllComplete(disk'.chunks)
    BY <1>1, HolderFacts
  <1>9. QED
    BY <1>2, <1>3, <1>5, <1>6, <1>7, <1>8, LedgerView DEF Ledger!Finish, StateAfterCommit

\* request_pause and resume stop and reopen the ledger.
LEMMA PausesAndResumes ==
  ASSUME TypeInv, SafetyInv, ReplaceManifest, op.name \in {"pause", "resume"}
  PROVE  Ledger!Pause \/ Ledger!Resume
  <1>1. Derived(op.name, op.chunk, disk, disk') /\ GoodManifest(disk)
    BY ReplaceDerives
  <1>2. issued' = issued
    BY DEF ReplaceManifest
  <1>3. disk'.chunks = disk.chunks
    BY <1>1 DEF Derived
  <1>4. HolderIn(disk') = HolderIn(disk) /\ DoneIn(disk') = DoneIn(disk)
    BY <1>3 DEF HolderIn, DoneIn
  <1>5. CASE op.name = "pause"
    <2>1. disk.state = "running" /\ disk'.state = StateAfterPause(disk.chunks)
      BY <1>1, <1>5 DEF Derived
    <2>2. (\E c \in Chunks : HolderIn(disk)[c] # 0) <=> HasLease(disk.chunks)
      BY <1>1, HolderFacts
    <2>3. QED
      BY <1>2, <1>4, <2>1, <2>2, LedgerView DEF Ledger!Pause, StateAfterPause
  <1>6. CASE op.name = "resume"
    <2>1. disk.state = "paused" /\ disk'.state = "running"
      BY <1>1, <1>6 DEF Derived
    <2>2. QED
      BY <1>2, <1>4, <2>1, LedgerView DEF Ledger!Resume
  <1>7. QED
    BY <1>5, <1>6

\* A replacement prepared by recover is a recovery of the ledger.
LEMMA RecoveryRecovers ==
  ASSUME TypeInv, SafetyInv, ReplaceManifest, op.name = "recover"
  PROVE  Ledger!Recover
  <1>1. /\ Derived("recover", op.chunk, disk, disk')
        /\ GoodManifest(disk) /\ GoodManifest(disk')
    BY ReplaceDerives
  <1>2. issued' = issued
    BY DEF ReplaceManifest
  <1>3. /\ \A d \in Chunks :
             \/ disk'.chunks[d] = disk.chunks[d]
             \/ disk'.chunks[d] = PendingRecord
             \/ \E n \in Nat, p \in Exact : disk'.chunks[d] = CompleteRecord(n, p)
        /\ disk'.state = StateAfterRecover(disk.state, disk'.chunks)
    BY <1>1 DEF Derived
  <1>4. \A d \in Chunks : HolderIn(disk')[d] \in {0, HolderIn(disk)[d]}
    BY <1>3, BuiltRecords DEF HolderIn
  <1>5. \A d \in DoneIn(disk') : HolderIn(disk')[d] = 0
    BY DEF HolderIn, DoneIn
  <1>6. DoneIn(disk') \in SUBSET {d \in Chunks : HolderIn(disk')[d] = 0}
    BY <1>5 DEF DoneIn
  <1>7. DoneIn(disk') = Chunks <=> AllComplete(disk'.chunks)
    BY <1>1, HolderFacts
  <1>8. disk.state # "failed"
    BY DEF SafetyInv, Sound
  <1>9. disk'.state = IF disk.state = "pause_requested" THEN "paused"
                      ELSE IF DoneIn(disk') = Chunks THEN "complete"
                      ELSE IF disk.state = "paused" THEN "paused" ELSE "running"
    BY <1>3, <1>7, <1>8 DEF StateAfterRecover
  <1>10. QED
    BY <1>2, <1>4, <1>6, <1>9, OnlyDrops, LedgerView DEF Ledger!Recover, Ledger!Without

-----------------------------------------------------------------------------
\* The first manifest is an empty ledger.
LEMMA LedgerInit == Init => Ledger!Init
  BY BuiltRecords DEF Init, Ledger!Init, FirstManifest, Holder, Done

\* No other step of the coordinator changes what the ledger sees.
LEMMA OthersStutter ==
  ASSUME [Next]_vars, ~ReplaceManifest
  PROVE  disk' = disk /\ issued' = issued
  BY DEF Next, WorkerStep, OpStep, Environment, Lease, ExpireOnly, StageCompletion,
         Commit, RejectCompletion, WriteSegment, HashSegment, SegmentVanished, WorkerFails,
         RequestPause, Resume, Recover, WriteSidecar, RefuseReplace, Return,
         WriteFails, Crash, Start, Lapse, Damage, vars, clock

\* The durable job moves by whole operations, each applied to what the
\* previous one made durable: _persist replaces the manifest only with the
\* outcome of one method of Coordinator on the manifest that is on disk,
\* whatever calls raised before and however often the process was restarted.
THEOREM DurableJobIsALedger == Spec => ImplementsLedger
  <1>1. Init => Ledger!Init
    BY LedgerInit
  <1>2. Inv /\ [Next]_vars => [Ledger!Next]_(Ledger!vars)
    <2> SUFFICES ASSUME Inv, [Next]_vars
                 PROVE  [Ledger!Next]_(Ledger!vars)
      OBVIOUS
    <2>1. CASE ReplaceManifest
      <3>1. op.name \in {"lease", "expire", "commit", "pause", "resume", "recover"}
        BY <2>1, ReplaceDerives DEF Inv, Derived
      <3>2. op.chunk \in Chunks
        BY <2>1, ReplaceDerives DEF Inv
      <3>3. QED
        BY <2>1, <3>1, <3>2, LeaseGrants, ExpiryReclaims, CommitFinishes,
           PausesAndResumes, RecoveryRecovers DEF Inv, Ledger!Next
    <2>2. CASE ~ReplaceManifest
      BY <2>2, OthersStutter, LedgerView DEF Ledger!vars, HolderIn, DoneIn
    <2>3. QED
      BY <2>1, <2>2
  <1>3. QED
    BY <1>1, <1>2, Invariance, PTL DEF Spec, ImplementsLedger, Ledger!Spec

-----------------------------------------------------------------------------
(***************************************************************************)
(* Chunks that one worker holds in their whole life.  What the manifest,   *)
(* a sidecar, a call under way or a worker that has published claims about *)
(* the segment file of such a chunk is true of the file, and nobody is     *)
(* left that could write the file again.                                   *)
(***************************************************************************)

\* The chunk was leased once at most, and nothing outside damages its file.
Lone(c) == c \notin Fragile /\ issued[c] <= 1

\* Worker w has the lease of chunk c, or is about to be given it.
Holds(w, c) ==
  \/ worker[w].phase # "idle" /\ worker[w].chunk = c
  \/ op.name = "lease" /\ op.at = "sync" /\ op.by = w /\ op.chunk = c

MayWrite(w, c) == Holds(w, c) /\ worker[w].phase # "published"

\* Completion k of chunk c is recorded, staged, published or about to be
\* recorded.
Claimed(c, k) ==
  \/ \E w \in Workers :
       worker[w].phase = "published" /\ worker[w].chunk = c /\ worker[w].completion = k
  \/ sidecar[c].completion = k /\ k # NoCompletion
  \/ \E m \in {disk, current, op.new} :
       m.chunks[c].status = "complete" /\ m.chunks[c].completion = k

Settled(c, k) ==
  issued[c] = 1 /\ segment[c] = k.sha /\ \A w \in Workers : ~MayWrite(w, c)

Undisputed(c) ==
  /\ \A v, w \in Workers : Holds(v, c) /\ Holds(w, c) => v = w
  /\ \A w \in Workers : Holds(w, c) => issued[c] = 1
  /\ \A k : Claimed(c, k) => Settled(c, k)

\* The worker that a call answers is where it was when it called.
CallerWaits ==
  /\ op.name = "lease" => op.by \in Workers /\ worker[op.by].phase = "idle"
  /\ op.at = "sidecar" => worker[op.by].phase = "published" /\ worker[op.by].chunk = op.chunk

\* The generation that recover is about to write keeps the finished chunks
\* whose file only one worker could touch.
RecoveryKeeps ==
  op.name = "recover" /\ op.at # "sync" =>
    \A c \in Chunks : Lone(c) /\ current.chunks[c].status = "complete"
                        => op.new.chunks[c].status = "complete"

LoneInv ==
  /\ CallerWaits
  /\ RecoveryKeeps
  /\ \A c \in Chunks : Lone(c) => Undisputed(c)

\* A step that adds no holder, no writer and no claim, and leaves the file.
LEMMA UndisputedStays ==
  ASSUME NEW c, Undisputed(c),
         segment'[c] = segment[c], issued'[c] = issued[c],
         \A w \in Workers : Holds(w, c)' => Holds(w, c),
         \A w \in Workers : MayWrite(w, c)' => MayWrite(w, c),
         \A k : Claimed(c, k)' => Claimed(c, k)
  PROVE  Undisputed(c)'
  BY DEF Undisputed, Settled

\* A step in which everything that claims something repeats an earlier claim.
LEMMA NoNewClaim ==
  ASSUME NEW c,
         \A w \in Workers : worker'[w] = worker[w] \/ worker'[w].phase # "published",
         sidecar'[c].completion = NoCompletion \/ Claimed(c, sidecar'[c].completion),
         disk'.chunks[c].status = "complete" => Claimed(c, disk'.chunks[c].completion),
         current'.chunks[c].status = "complete" => Claimed(c, current'.chunks[c].completion),
         op'.new.chunks[c].status = "complete" => Claimed(c, op'.new.chunks[c].completion)
  PROVE  \A k : Claimed(c, k)' => Claimed(c, k)
  <1> SUFFICES ASSUME NEW k, Claimed(c, k)' PROVE Claimed(c, k)
    OBVIOUS
  <1>1. CASE \E w \in Workers : /\ worker'[w].phase = "published"
                                /\ worker'[w].chunk = c /\ worker'[w].completion = k
    BY <1>1 DEF Claimed
  <1>2. CASE sidecar'[c].completion = k /\ k # NoCompletion
    BY <1>2
  <1>3. CASE \E m \in {disk', current', op'.new} :
               m.chunks[c].status = "complete" /\ m.chunks[c].completion = k
    BY <1>3
  <1>4. QED
    BY <1>1, <1>2, <1>3 DEF Claimed

\* The claims of the files and of the memory.
LEMMA Claims ==
  ASSUME NEW c
  PROVE  /\ disk.chunks[c].status = "complete" => Claimed(c, disk.chunks[c].completion)
         /\ current.chunks[c].status = "complete" => Claimed(c, current.chunks[c].completion)
         /\ op.new.chunks[c].status = "complete" => Claimed(c, op.new.chunks[c].completion)
         /\ sidecar[c].completion = NoCompletion \/ Claimed(c, sidecar[c].completion)
         /\ \A w \in Workers : worker[w].phase = "published" /\ worker[w].chunk = c
                                 => Claimed(c, worker[w].completion)
  BY DEF Claimed

\* A call that does not exist claims nothing.
LEMMA NoCallClaims ==
  /\ \A c \in Chunks : NoCall.new.chunks[c].status # "complete"
  /\ \A c \in Chunks : FirstManifest.chunks[c].status # "complete"
  /\ NoCall.name = "none" /\ NoCall.at = "none"
  BY BuiltRecords DEF NoCall, FirstManifest

\* At the start nobody holds or claims anything.
LEMMA LoneInit == Init => LoneInv
  <1> SUFFICES ASSUME Init PROVE LoneInv
    OBVIOUS
  <1>1. \A w \in Workers : worker[w].phase = "idle"
    BY DEF Init, NoTask
  <1>2. CallerWaits /\ RecoveryKeeps
    BY NoCallClaims DEF Init, CallerWaits, RecoveryKeeps
  <1>3. ASSUME NEW c \in Chunks PROVE Undisputed(c)
    <2>1. sidecar[c].completion = NoCompletion
      BY DEF Init, NoSidecar
    <2>2. \A k : ~Claimed(c, k)
      BY <1>1, <2>1, NoCallClaims DEF Init, Claimed
    <2>3. \A w \in Workers : ~Holds(w, c)
      BY <1>1, NoCallClaims DEF Init, Holds
    <2>4. QED
      BY <2>2, <2>3 DEF Undisputed
  <1>4. QED
    BY <1>2, <1>3 DEF LoneInv

\* A chunk with one lease in its life had no other before the step.
LEMMA LoneBefore ==
  ASSUME Inv, [Next]_vars, NEW c \in Chunks, Lone(c)'
  PROVE  Lone(c)
  <1>1. issued'[c] >= issued[c]
    <2>1. CASE ReplaceManifest
      BY <2>1 DEF ReplaceManifest, Inv, TypeInv, TypeOK
    <2>2. CASE ~ReplaceManifest
      BY <2>2, OthersStutter DEF Inv, TypeInv, TypeOK
    <2>3. QED
      BY <2>1, <2>2
  <1>2. issued[c] \in Nat /\ issued'[c] \in Nat
    BY TypeNext DEF Inv, TypeInv, TypeOK
  <1>3. QED
    BY <1>1, <1>2 DEF Lone

\* A step that adds no claim, and in which workers only give up and no lease
\* reaches the manifest.
LEMMA StepStays ==
  ASSUME CallerWaits, NEW c, Undisputed(c),
         segment'[c] = segment[c], issued'[c] = issued[c],
         \A w \in Workers : worker'[w] = worker[w] \/ worker'[w].phase = "idle",
         op' = op \/ op'.at # "sync" \/ op'.name # "lease",
         sidecar'[c].completion = NoCompletion \/ Claimed(c, sidecar'[c].completion),
         disk'.chunks[c].status = "complete" => Claimed(c, disk'.chunks[c].completion),
         current'.chunks[c].status = "complete" => Claimed(c, current'.chunks[c].completion),
         op'.new.chunks[c].status = "complete" => Claimed(c, op'.new.chunks[c].completion)
  PROVE  Undisputed(c)'
  <1>1. \A w \in Workers : Holds(w, c)' => Holds(w, c)
    BY DEF Holds
  <1>2. \A w \in Workers : MayWrite(w, c)' => MayWrite(w, c)
    <2> SUFFICES ASSUME NEW w \in Workers, MayWrite(w, c)' PROVE MayWrite(w, c)
      OBVIOUS
    <2>1. CASE worker'[w] = worker[w]
      BY <1>1, <2>1 DEF MayWrite
    <2>2. CASE worker'[w].phase = "idle"
      BY <2>2 DEF MayWrite, Holds, CallerWaits
    <2>3. QED
      BY <2>1, <2>2
  <1>3. \A w \in Workers : worker'[w] = worker[w] \/ worker'[w].phase # "published"
    OBVIOUS
  <1>4. \A k : Claimed(c, k)' => Claimed(c, k)
    BY <1>3, NoNewClaim
  <1>5. QED
    BY <1>1, <1>2, <1>4, UndisputedStays

\* What a call that only moves leases, or the job state, is about to write
\* claims nothing that the memory does not.
LEMMA MovesClaimNothing ==
  ASSUME NEW c \in Chunks, NEW d \in Chunks, NEW old, NEW new, NEW name,
         Derived(name, d, old, new), name \in {"lease", "expire", "pause", "resume"},
         new.chunks[c].status = "complete"
  PROVE  new.chunks[c] = old.chunks[c]
  BY BuiltRecords DEF Derived, KeptOrExpired

\* Recovery takes a completion from the manifest or from the sidecar.
LEMMA RecoveredClaims ==
  ASSUME NEW chunks, GoodChunks(chunks), NEW bound, NEW seg, NEW side, NEW c \in Chunks,
         RecoveredChunks(chunks, bound, seg, side)[c].status = "complete"
  PROVE  \/ RecoveredChunks(chunks, bound, seg, side)[c] = chunks[c]
         \/ /\ side[c].completion # NoCompletion
            /\ RecoveredChunks(chunks, bound, seg, side)[c].completion = side[c].completion
  <1> DEFINE e == Expire(chunks, bound)[c]
             v == Revalidate(e, seg[c])
             r == Repair(v, seg[c], side[c])
  <1>1. RecoveredChunks(chunks, bound, seg, side)[c] = r
    BY DEF RecoveredChunks
  <1>2. e = chunks[c] \/ e = PendingRecord
    BY GoodExpire
  <1>3. v = e \/ v = PendingRecord
    BY DEF Revalidate
  <1>4. \/ r = v
        \/ /\ side[c].completion # NoCompletion
           /\ r = CompleteRecord(side[c].lease, side[c].completion)
    BY DEF Repair
  <1> HIDE DEF e, v, r
  <1>5. QED
    BY <1>1, <1>2, <1>3, <1>4, BuiltFields

\* Recovery keeps a completion whose file matches.
LEMMA RecoveredKeeps ==
  ASSUME NEW chunks, GoodChunks(chunks), NEW bound, NEW seg, NEW side, NEW c \in Chunks,
         chunks[c].status = "complete", SegmentMatches(seg[c], chunks[c].completion)
  PROVE  RecoveredChunks(chunks, bound, seg, side)[c] = chunks[c]
  <1>1. Expire(chunks, bound)[c] = chunks[c]
    BY GoodExpire
  <1>2. Revalidate(chunks[c], seg[c]) = chunks[c]
    BY DEF Revalidate
  <1>3. Repair(chunks[c], seg[c], side[c]) = chunks[c]
    BY DEF Repair
  <1>4. QED
    BY <1>1, <1>2, <1>3 DEF RecoveredChunks

\* A completed chunk with one lease in its life has the file that was validated.
LEMMA LoneIsIntact ==
  ASSUME Inv, NEW c \in Chunks, Undisputed(c), disk.chunks[c].status = "complete"
  PROVE  SegmentMatches(segment[c], disk.chunks[c].completion)
  <1>1. Settled(c, disk.chunks[c].completion)
    BY Claims DEF Undisputed
  <1>2. disk.chunks[c].completion \in Exact
    BY DEF Inv, SafetyInv, Sound
  <1>3. QED
    BY <1>1, <1>2 DEF Settled, SegmentMatches

\* The calls that lease, expire, pause and resume prepare.
LEMMA MoveCallStays ==
  ASSUME Inv, CallerWaits, Inv', NEW c \in Chunks, Undisputed(c),
         \/ \E w \in Workers : Lease(w) \/ ExpireOnly(w)
         \/ RequestPause \/ Resume
  PROVE  Undisputed(c)'
  <1>1. /\ disk' = disk /\ segment' = segment /\ sidecar' = sidecar /\ current' = current
        /\ worker' = worker /\ issued' = issued
    BY DEF Lease, ExpireOnly, RequestPause, Resume, files, clock
  <1>2. op'.at = "manifest" /\ op'.name \in {"lease", "expire", "pause", "resume"}
    <2>1. ASSUME NEW w \in Workers, Lease(w) PROVE op'.at = "manifest" /\ op'.name = "lease"
      BY <2>1 DEF Lease, Call
    <2>2. ASSUME NEW w \in Workers, ExpireOnly(w)
          PROVE  op'.at = "manifest" /\ op'.name = "expire"
      BY <2>2 DEF ExpireOnly, Call
    <2>3. CASE RequestPause
      BY <2>3 DEF RequestPause, Call
    <2>4. CASE Resume
      BY <2>4 DEF Resume, Call
    <2>5. QED
      BY <2>1, <2>2, <2>3, <2>4
  <1>3. Derived(op.name, op.chunk, current, op.new)' /\ op'.chunk \in Chunks
    BY <1>2 DEF Inv, SafetyInv, OpDerives, TypeInv, TypeOK, Op
  <1>4. op'.new.chunks[c].status = "complete" => op'.new.chunks[c] = current'.chunks[c]
    <2>1. Derived(op'.name, op'.chunk, current', op'.new)
      BY <1>1, <1>3 DEF Derived
    <2>2. QED
      BY <1>2, <1>3, <2>1, MovesClaimNothing
  <1>5. QED
    BY <1>1, <1>2, <1>4, Claims, StepStays

\* What stage_completion and commit prepare was published.
LEMMA CompletionCallStays ==
  ASSUME Inv, CallerWaits, NEW c \in Chunks, Undisputed(c),
         NEW w \in Workers, StageCompletion(w) \/ Commit(w)
  PROVE  Undisputed(c)'
  <1>1. /\ disk' = disk /\ segment' = segment /\ sidecar' = sidecar /\ current' = current
        /\ worker' = worker /\ issued' = issued
    BY DEF StageCompletion, Commit, files, clock
  <1>2. op'.at = "sidecar"
    BY DEF StageCompletion, Commit, Call
  <1>3. op'.new.chunks[c].status = "complete" => Claimed(c, op'.new.chunks[c].completion)
    <2>1. CASE StageCompletion(w)
      BY <2>1, Claims DEF StageCompletion, Call
    <2>2. CASE Commit(w)
      <3> DEFINE t == worker[w]
                 R == [current.chunks EXCEPT ![t.chunk] = CompleteRecord(t.lease, t.completion)]
      <3>1. op'.new.chunks = R
        BY <2>2 DEF Commit, Call, NextManifest
      <3>2. GoodChunks(current.chunks)
        BY GoodManifestFields DEF Inv, TypeInv, TypeOK, GoodManifest
      <3>3. R[c] = IF c = t.chunk THEN CompleteRecord(t.lease, t.completion) ELSE current.chunks[c]
        BY <3>2 DEF GoodChunks
      <3>4. t.phase = "published"
        BY <2>2 DEF Commit
      <3>5. CASE c = t.chunk
        BY <3>1, <3>3, <3>4, <3>5, BuiltFields, Claims
      <3>6. CASE c # t.chunk
        BY <3>1, <3>3, <3>6, Claims
      <3>7. QED
        BY <3>5, <3>6
    <2>3. QED
      BY <2>1, <2>2
  <1>4. QED
    BY <1>1, <1>2, <1>3, Claims, StepStays

\* What recover prepares was recorded or staged.
LEMMA RecoverStays ==
  ASSUME Inv, CallerWaits, NEW c \in Chunks, Undisputed(c), Recover
  PROVE  Undisputed(c)'
  <1> DEFINE R == RecoveredChunks(disk.chunks, lapsed, segment, sidecar)
  <1>1. /\ disk' = disk /\ segment' = segment /\ sidecar' = sidecar /\ current' = disk
        /\ worker' = worker /\ issued' = issued
    BY DEF Recover, files, clock
  <1>2. op' = NoCall \/ (op'.at = "manifest" /\ op'.new.chunks = R)
    BY DEF Recover, Call, NextManifest
  <1>3. op'.at # "sync"
    BY <1>2, NoCallClaims
  <1>4. GoodChunks(disk.chunks)
    BY GoodManifestFields DEF Inv, TypeInv, TypeOK, GoodManifest
  <1>5. R[c].status = "complete" => Claimed(c, R[c].completion)
    <2> SUFFICES ASSUME R[c].status = "complete" PROVE Claimed(c, R[c].completion)
      OBVIOUS
    <2>1. \/ R[c] = disk.chunks[c]
          \/ sidecar[c].completion # NoCompletion /\ R[c].completion = sidecar[c].completion
      BY <1>4, RecoveredClaims
    <2> HIDE DEF R
    <2>2. QED
      BY <2>1, Claims
  <1> HIDE DEF R
  <1>6. op'.new.chunks[c].status = "complete" => Claimed(c, op'.new.chunks[c].completion)
    BY <1>2, <1>5, NoCallClaims
  <1>7. QED
    BY <1>1, <1>3, <1>6, Claims, StepStays

\* The step that gives chunk op.chunk its first lease: nothing claimed the
\* chunk before, and it has one holder now.
LEMMA FirstLeaseIsAlone ==
  ASSUME Inv, CallerWaits, NEW c \in Chunks, Undisputed(c), Lone(c)',
         ReplaceManifest, op.name = "lease", op.chunk = c
  PROVE  Undisputed(c)'
  <1>1. /\ issued \in [Chunks -> Nat] /\ issued' = [issued EXCEPT ![c] = @ + 1]
        /\ worker' = worker /\ sidecar' = sidecar /\ current' = current
        /\ disk' = op.new /\ op' = [op EXCEPT !.at = "sync"]
    BY DEF ReplaceManifest, files, Inv, TypeInv, TypeOK
  <1>2. issued[c] = 0 /\ issued'[c] = 1
    BY <1>1 DEF Lone
  <1>3. \A k : ~Claimed(c, k)
    BY <1>2 DEF Undisputed, Settled
  <1>4. \A w \in Workers : ~Holds(w, c)
    BY <1>2 DEF Undisputed
  <1>5. op'.new = op.new /\ op'.by = op.by
    BY <1>1 DEF Inv, TypeInv, TypeOK, Op
  <1>6. \A k : ~Claimed(c, k)'
    BY <1>1, <1>3, <1>5 DEF Claimed
  <1>7. \A w \in Workers : Holds(w, c)' => w = op.by
    BY <1>1, <1>4, <1>5 DEF Holds
  <1>8. QED
    BY <1>2, <1>6, <1>7 DEF Undisputed

\* The replacement of the manifest makes the claims of the call durable.
LEMMA ReplaceStays ==
  ASSUME Inv, CallerWaits, NEW c \in Chunks, Undisputed(c), Lone(c)', ReplaceManifest
  PROVE  Undisputed(c)'
  <1>1. /\ segment' = segment /\ worker' = worker /\ sidecar' = sidecar /\ current' = current
        /\ disk' = op.new /\ op' = [op EXCEPT !.at = "sync"]
    BY DEF ReplaceManifest, files
  <1>2. op'.new = op.new /\ op'.name = op.name /\ op'.by = op.by /\ op'.chunk = op.chunk
    BY <1>1 DEF Inv, TypeInv, TypeOK, Op
  <1>3. CASE op.name = "lease" /\ op.chunk = c
    BY <1>3, FirstLeaseIsAlone
  <1>4. CASE op.name # "lease"
    <2>1. issued'[c] = issued[c]
      BY <1>4 DEF ReplaceManifest
    <2>2. QED
      BY <1>1, <1>2, <1>4, <2>1, Claims, StepStays
  <1>5. CASE op.name = "lease" /\ op.chunk # c
    <2>1. issued'[c] = issued[c]
      BY <1>5 DEF ReplaceManifest, Inv, TypeInv, TypeOK, Op
    <2>2. \A w \in Workers : Holds(w, c)' => Holds(w, c)
      BY <1>1, <1>2, <1>5 DEF Holds
    <2>3. \A w \in Workers : MayWrite(w, c)' => MayWrite(w, c)
      BY <1>1, <2>2 DEF MayWrite
    <2>4. \A w \in Workers : worker'[w] = worker[w] \/ worker'[w].phase # "published"
      BY <1>1
    <2>5. \A k : Claimed(c, k)' => Claimed(c, k)
      BY <1>1, <1>2, <2>4, Claims, NoNewClaim
    <2>6. QED
      BY <1>1, <2>1, <2>2, <2>3, <2>5, UndisputedStays
  <1>6. QED
    BY <1>3, <1>4, <1>5

\* The answer of lease makes its caller the holder it was about to be.
LEMMA ReturnStays ==
  ASSUME Inv, CallerWaits, NEW c \in Chunks, Undisputed(c), Return
  PROVE  Undisputed(c)'
  <1>1. /\ disk' = disk /\ segment' = segment /\ sidecar' = sidecar /\ issued' = issued
        /\ current' = op.new /\ op' = NoCall /\ op.at = "sync"
    BY DEF Return, files, clock
  <1>2. worker \in [Workers -> Task]
    BY DEF Inv, TypeInv, TypeOK
  <1>3. op'.new.chunks[c].status # "complete" /\ op'.at # "sync" /\ op'.name # "lease"
    BY <1>1, NoCallClaims
  <1>4. CASE op.name # "lease"
    <2>1. \A w \in Workers : worker'[w] = worker[w] \/ worker'[w].phase = "idle"
      BY <1>2, <1>4 DEF Return, NoTask
    <2>2. QED
      BY <1>1, <1>3, <2>1, Claims, StepStays
  <1>5. CASE op.name = "lease"
    <2> DEFINE task == [phase |-> "encoding", chunk |-> op.chunk,
                        lease |-> op.new.chunks[op.chunk].lease, completion |-> NoCompletion]
    <2>1. worker' = [worker EXCEPT ![op.by] = task]
      BY <1>5 DEF Return
    <2>2. task.phase = "encoding" /\ task.chunk = op.chunk
      OBVIOUS
    <2> HIDE DEF task
    <2>3. op.by \in Workers /\ worker[op.by].phase = "idle"
      BY <1>5 DEF CallerWaits
    <2>4. worker'[op.by] = task /\ \A w \in Workers \ {op.by} : worker'[w] = worker[w]
      BY <1>2, <2>1, <2>3
    <2>5. \A w \in Workers : Holds(w, c)' => Holds(w, c)
      BY <1>1, <1>3, <1>5, <2>2, <2>4 DEF Holds
    <2>6. \A w \in Workers : MayWrite(w, c)' => MayWrite(w, c)
      BY <2>3, <2>4, <2>5 DEF MayWrite
    <2>7. \A w \in Workers : worker'[w] = worker[w] \/ worker'[w].phase # "published"
      BY <2>2, <2>4
    <2>8. \A k : Claimed(c, k)' => Claimed(c, k)
      BY <1>1, <1>3, <2>7, Claims, NoNewClaim
    <2>9. QED
      BY <1>1, <2>5, <2>6, <2>8, UndisputedStays
  <1>6. QED
    BY <1>4, <1>5

\* A worker writes the segment file of its own chunk, of which nothing has
\* been claimed yet.
LEMMA WriteSegmentStays ==
  ASSUME Inv, CallerWaits, NEW c \in Chunks, Undisputed(c),
         NEW w \in Workers, WriteSegment(w)
  PROVE  Undisputed(c)'
  <1>1. /\ disk' = disk /\ sidecar' = sidecar /\ issued' = issued
        /\ current' = current /\ op' = op /\ worker[w].phase = "encoding"
        /\ worker' = [worker EXCEPT ![w].phase = "written"]
        /\ \E p \in Payloads : segment' = [segment EXCEPT ![worker[w].chunk] = p]
    BY DEF WriteSegment, clock
  <1>2. worker \in [Workers -> Task] /\ segment \in [Chunks -> File]
    BY DEF Inv, TypeInv, TypeOK
  <1>3. /\ worker'[w].phase = "written" /\ worker'[w].chunk = worker[w].chunk
        /\ \A v \in Workers \ {w} : worker'[v] = worker[v]
    BY <1>1, <1>2 DEF Task
  <1>4. \A v \in Workers : Holds(v, c)' => Holds(v, c)
    BY <1>1, <1>3 DEF Holds
  <1>5. \A v \in Workers : MayWrite(v, c)' => MayWrite(v, c)
    BY <1>1, <1>3, <1>4 DEF MayWrite
  <1>6. \A v \in Workers : worker'[v] = worker[v] \/ worker'[v].phase # "published"
    BY <1>3
  <1>7. \A k : Claimed(c, k)' => Claimed(c, k)
    BY <1>1, <1>6, Claims, NoNewClaim
  <1>8. CASE worker[w].chunk # c
    <2>1. segment'[c] = segment[c]
      BY <1>1, <1>2, <1>8
    <2>2. QED
      BY <1>1, <1>4, <1>5, <1>7, <2>1, UndisputedStays
  <1>9. CASE worker[w].chunk = c
    <2>1. MayWrite(w, c)
      BY <1>1, <1>9 DEF MayWrite, Holds
    <2>2. \A k : ~Claimed(c, k)
      BY <2>1 DEF Undisputed, Settled
    <2>3. QED
      BY <1>1, <1>4, <1>7, <2>2 DEF Undisputed
  <1>10. QED
    BY <1>8, <1>9

\* A worker claims what it reads from the file, and writes it no more.
LEMMA HashSegmentStays ==
  ASSUME Inv, CallerWaits, NEW c \in Chunks, Undisputed(c),
         NEW w \in Workers, HashSegment(w)
  PROVE  Undisputed(c)'
  <1>1. /\ disk' = disk /\ segment' = segment /\ sidecar' = sidecar /\ issued' = issued
        /\ current' = current /\ op' = op /\ worker[w].phase = "written"
        /\ \E fits \in BOOLEAN :
             worker' = [worker EXCEPT ![w].phase = "published",
                                      ![w].completion = [sha |-> segment[worker[w].chunk],
                                                         fits |-> fits]]
    BY DEF HashSegment, files, clock
  <1>2. worker \in [Workers -> Task]
    BY DEF Inv, TypeInv, TypeOK
  <1>3. /\ worker'[w].phase = "published" /\ worker'[w].chunk = worker[w].chunk
        /\ worker'[w].completion.sha = segment[worker[w].chunk]
        /\ \A v \in Workers \ {w} : worker'[v] = worker[v]
    BY <1>1, <1>2 DEF Task
  <1>4. \A v \in Workers : Holds(v, c)' => Holds(v, c)
    BY <1>1, <1>3 DEF Holds
  <1>5. \A v \in Workers : MayWrite(v, c)' => MayWrite(v, c)
    BY <1>1, <1>3, <1>4 DEF MayWrite
  <1>6. CASE worker[w].chunk # c
    <2>1. \A k : Claimed(c, k)' => Claimed(c, k)
      BY <1>1, <1>3, <1>6 DEF Claimed
    <2>2. QED
      BY <1>1, <1>4, <1>5, <2>1, UndisputedStays
  <1>7. CASE worker[w].chunk = c
    <2>1. Holds(w, c) /\ issued[c] = 1
      BY <1>1, <1>7 DEF Holds, Undisputed
    <2>2. \A v \in Workers : Holds(v, c)' => v = w
      BY <1>4, <2>1 DEF Undisputed
    <2>3. \A v \in Workers : ~MayWrite(v, c)'
      BY <1>3, <2>2 DEF MayWrite
    <2>4. MayWrite(w, c)
      BY <1>1, <2>1 DEF MayWrite
    <2>5. \A k : ~Claimed(c, k)
      BY <2>4 DEF Undisputed, Settled
    <2>6. \A k : Claimed(c, k)' => k = worker'[w].completion
      <3> SUFFICES ASSUME NEW k, Claimed(c, k)' PROVE k = worker'[w].completion
        OBVIOUS
      <3>1. CASE \E v \in Workers : /\ worker'[v].phase = "published"
                                    /\ worker'[v].chunk = c /\ worker'[v].completion = k
        <4>1. PICK v \in Workers : /\ worker'[v].phase = "published"
                                   /\ worker'[v].chunk = c /\ worker'[v].completion = k
          BY <3>1
        <4>2. CASE v # w
          <5>1. worker[v] = worker'[v]
            BY <1>3, <4>2
          <5>2. Claimed(c, k)
            BY <4>1, <5>1 DEF Claimed
          <5>3. QED
            BY <2>5, <5>2
        <4>3. QED
          BY <4>1, <4>2
      <3>2. CASE sidecar'[c].completion = k /\ k # NoCompletion
        BY <1>1, <2>5, <3>2 DEF Claimed
      <3>3. CASE \E m \in {disk', current', op'.new} :
                   m.chunks[c].status = "complete" /\ m.chunks[c].completion = k
        BY <1>1, <2>5, <3>3 DEF Claimed
      <3>4. QED
        BY <3>1, <3>2, <3>3 DEF Claimed
    <2>7. \A k : Claimed(c, k)' => Settled(c, k)'
      BY <1>1, <1>3, <1>7, <2>1, <2>3, <2>6 DEF Settled
    <2>8. QED
      BY <1>1, <2>1, <2>2, <2>7 DEF Undisputed
  <1>8. QED
    BY <1>6, <1>7

\* A step in which the call ends, or nothing happens to it, and workers at
\* most give up.
LEMMA EndStays ==
  ASSUME CallerWaits, NEW c \in Chunks, Undisputed(c),
         segment'[c] = segment[c], issued'[c] = issued[c],
         \A w \in Workers : worker'[w] = worker[w] \/ worker'[w].phase = "idle",
         op' = op \/ op' = NoCall,
         sidecar'[c].completion = NoCompletion \/ Claimed(c, sidecar'[c].completion),
         disk' = disk,
         current' \in {current, disk, FirstManifest}
  PROVE  Undisputed(c)'
  <1>1. op' = op \/ op'.at # "sync" \/ op'.name # "lease"
    BY NoCallClaims
  <1>2. op'.new.chunks[c].status = "complete" => Claimed(c, op'.new.chunks[c].completion)
    BY NoCallClaims, Claims
  <1>3. current'.chunks[c].status = "complete" => Claimed(c, current'.chunks[c].completion)
    BY NoCallClaims, Claims
  <1>4. disk'.chunks[c].status = "complete" => Claimed(c, disk'.chunks[c].completion)
    BY Claims
  <1>5. QED
    BY <1>1, <1>2, <1>3, <1>4, StepStays

\* The sidecar that a call writes holds what its worker published.
LEMMA SidecarIsClaimed ==
  ASSUME Inv, CallerWaits, NEW c \in Chunks, op.at = "sidecar"
  PROVE  \/ SidecarWritten[c] = sidecar[c]
         \/ Claimed(c, SidecarWritten[c].completion)
  <1>1. op.by \in Workers /\ worker[op.by].phase = "published" /\ worker[op.by].chunk = op.chunk
    BY DEF Inv, TypeInv, SidecarCallHasWorker, CallerWaits
  <1>2. sidecar \in [Chunks -> Sidecar]
    BY DEF Inv, TypeInv, TypeOK
  <1>3. CASE c # op.chunk
    BY <1>2, <1>3 DEF SidecarWritten
  <1>4. CASE c = op.chunk
    <2>1. SidecarWritten[c].completion = worker[op.by].completion
      BY <1>2, <1>4 DEF SidecarWritten
    <2>2. QED
      BY <1>1, <1>4, <2>1, Claims
  <1>5. QED
    BY <1>3, <1>4

\* stage_completion and commit write the sidecar.
LEMMA WriteSidecarStays ==
  ASSUME Inv, CallerWaits, NEW c \in Chunks, Undisputed(c), WriteSidecar
  PROVE  Undisputed(c)'
  <1>1. /\ disk' = disk /\ segment' = segment /\ issued' = issued /\ worker' = worker
        /\ current' = current /\ op.at = "sidecar" /\ sidecar' = SidecarWritten
        /\ op' = IF op.name = "stage" THEN NoCall ELSE [op EXCEPT !.at = "manifest"]
    BY DEF WriteSidecar, clock
  <1>2. sidecar'[c].completion = NoCompletion \/ Claimed(c, sidecar'[c].completion)
    BY <1>1, SidecarIsClaimed, Claims
  <1>3. op' = NoCall \/ (op'.at = "manifest" /\ op'.new = op.new)
    BY <1>1 DEF Inv, TypeInv, TypeOK, Op
  <1>4. op'.at # "sync"
    BY <1>3, NoCallClaims
  <1>5. op'.new.chunks[c].status = "complete" => Claimed(c, op'.new.chunks[c].completion)
    BY <1>3, NoCallClaims, Claims
  <1>6. QED
    BY <1>1, <1>2, <1>4, <1>5, Claims, StepStays

\* A call that raises, after it wrote its sidecar or before.
LEMMA WriteFailsStays ==
  ASSUME Inv, CallerWaits, NEW c \in Chunks, Undisputed(c), WriteFails
  PROVE  Undisputed(c)'
  <1>1. /\ disk' = disk /\ segment' = segment /\ issued' = issued
        /\ current' = current /\ op' = NoCall
        /\ sidecar' \in {sidecar, IF op.at = "sidecar" THEN SidecarWritten ELSE sidecar}
    BY DEF WriteFails, clock
  <1>2. \A w \in Workers : worker'[w] = worker[w] \/ worker'[w].phase = "idle"
    BY DEF WriteFails, CallerGivesUp, NoTask, Inv, TypeInv, TypeOK
  <1>3. sidecar'[c].completion = NoCompletion \/ Claimed(c, sidecar'[c].completion)
    <2>1. CASE sidecar' = sidecar
      BY <2>1, Claims
    <2>2. CASE op.at = "sidecar" /\ sidecar' = SidecarWritten
      BY <2>2, SidecarIsClaimed, Claims
    <2>3. QED
      BY <1>1, <2>1, <2>2
  <1>4. QED
    BY <1>1, <1>2, <1>3, EndStays

\* The steps in which a worker or a call gives up, the process ends or
\* starts, a deadline passes, or the file of a fragile chunk is damaged.
LEMMA GivingUpStays ==
  ASSUME Inv, CallerWaits, NEW c \in Chunks, Undisputed(c), c \notin Fragile,
         \/ \E w \in Workers : RejectCompletion(w) \/ SegmentVanished(w) \/ WorkerFails(w)
         \/ RefuseReplace \/ Crash \/ Start
         \/ \E d \in Chunks : Lapse(d) \/ Damage(d)
         \/ UNCHANGED vars
  PROVE  Undisputed(c)'
  <1>1. worker \in [Workers -> Task] /\ segment \in [Chunks -> File]
    BY DEF Inv, TypeInv, TypeOK
  <1>2. disk' = disk /\ sidecar' = sidecar /\ issued' = issued
    BY DEF RejectCompletion, SegmentVanished, WorkerFails, RefuseReplace, Crash, Start,
           Lapse, Damage, vars, files, clock
  <1>3. op' = op \/ op' = NoCall
    BY DEF RejectCompletion, SegmentVanished, WorkerFails, RefuseReplace, Crash, Start,
           Lapse, Damage, vars
  <1>4. current' \in {current, disk, FirstManifest}
    BY DEF RejectCompletion, SegmentVanished, WorkerFails, RefuseReplace, Crash, Start,
           Lapse, Damage, vars
  <1>5. \A w \in Workers : worker'[w] = worker[w] \/ worker'[w].phase = "idle"
    BY <1>1 DEF RejectCompletion, SegmentVanished, WorkerFails, RefuseReplace, Crash, Start,
           Lapse, Damage, vars, CallerGivesUp, NoTask
  <1>6. segment'[c] = segment[c]
    BY <1>1 DEF RejectCompletion, SegmentVanished, WorkerFails, RefuseReplace, Crash, Start,
           Lapse, Damage, vars, files
  <1>7. QED
    BY <1>2, <1>3, <1>4, <1>5, <1>6, Claims, EndStays

\* Every step leaves a chunk undisputed that has one lease in its life.
LEMMA UndisputedNext ==
  ASSUME Inv, LoneInv, [Next]_vars, NEW c \in Chunks, Lone(c)'
  PROVE  Undisputed(c)'
  <1>1. Lone(c) /\ Undisputed(c) /\ CallerWaits /\ c \notin Fragile
    BY LoneBefore DEF LoneInv, Lone
  <1>2. Inv'
    BY TypeNext, SafetyNext DEF Inv
  <1>3. ASSUME NEW w \in Workers, WorkerStep(w) PROVE Undisputed(c)'
    BY <1>1, <1>2, <1>3, MoveCallStays, CompletionCallStays, WriteSegmentStays,
       HashSegmentStays, GivingUpStays DEF WorkerStep
  <1>4. CASE RequestPause \/ Resume \/ Recover
    BY <1>1, <1>2, <1>4, MoveCallStays, RecoverStays
  <1>5. CASE OpStep
    BY <1>1, <1>5, WriteSidecarStays, ReplaceStays, ReturnStays, GivingUpStays DEF OpStep
  <1>6. CASE Environment
    BY <1>1, <1>6, WriteFailsStays, GivingUpStays DEF Environment
  <1>7. CASE UNCHANGED vars
    BY <1>1, <1>7, GivingUpStays
  <1>8. QED
    BY <1>3, <1>4, <1>5, <1>6, <1>7 DEF Next

\* The worker that a call answers waits for it.
LEMMA CallerWaitsNext ==
  ASSUME Inv, LoneInv, [Next]_vars
  PROVE  CallerWaits'
  <1>1. /\ worker \in [Workers -> Task] /\ op \in Op
        /\ op.at = "sidecar" => op.by \in Workers
        /\ op.name = "none" <=> op.at = "none"
    BY DEF Inv, TypeInv, TypeOK, SidecarCallHasWorker, SafetyInv, OpShape
  <1>2. CallerWaits
    BY DEF LoneInv
  <1>3. ASSUME NEW w \in Workers, Lease(w) PROVE CallerWaits'
    <2>1. /\ op'.name = "lease" /\ op'.at = "manifest" /\ op'.by = w
          /\ worker' = worker /\ worker[w].phase = "idle"
      BY <1>3 DEF Lease, Call, Idle
    <2>2. QED
      BY <2>1 DEF CallerWaits
  <1>4. ASSUME NEW w \in Workers, ExpireOnly(w) PROVE CallerWaits'
    <2>1. op'.name = "expire" /\ op'.at = "manifest"
      BY <1>4 DEF ExpireOnly, Call
    <2>2. QED
      BY <2>1 DEF CallerWaits
  <1>5. ASSUME NEW w \in Workers, StageCompletion(w) \/ Commit(w) PROVE CallerWaits'
    <2>1. /\ op'.name # "lease" /\ op'.at = "sidecar" /\ op'.by = w
          /\ op'.chunk = worker[w].chunk /\ worker' = worker /\ worker[w].phase = "published"
      BY <1>5 DEF StageCompletion, Commit, Call
    <2>2. QED
      BY <2>1 DEF CallerWaits
  <1>6. CASE RequestPause \/ Resume
    <2>1. op'.name # "lease" /\ op'.at = "manifest"
      BY <1>6 DEF RequestPause, Resume, Call
    <2>2. QED
      BY <2>1 DEF CallerWaits
  <1>7. CASE Recover
    <2>1. op'.name # "lease" /\ op'.at # "sidecar"
      BY <1>7, NoCallClaims DEF Recover, Call
    <2>2. QED
      BY <2>1 DEF CallerWaits
  <1>8. CASE WriteSidecar
    <2>1. op' = NoCall \/ (op'.name = op.name /\ op'.by = op.by /\ op'.at = "manifest")
      BY <1>1, <1>8 DEF WriteSidecar, Op
    <2>2. worker' = worker
      BY <1>8 DEF WriteSidecar
    <2>3. QED
      BY <1>2, <2>1, <2>2, NoCallClaims DEF CallerWaits
  <1>9. CASE ReplaceManifest
    <2>1. op'.name = op.name /\ op'.by = op.by /\ op'.at = "sync" /\ worker' = worker
      BY <1>1, <1>9 DEF ReplaceManifest, Op
    <2>2. QED
      BY <1>2, <2>1 DEF CallerWaits
  <1>10. CASE RefuseReplace \/ Return \/ WriteFails \/ Crash
    <2>1. op' = NoCall
      BY <1>10 DEF RefuseReplace, Return, WriteFails, Crash
    <2>2. QED
      BY <2>1, NoCallClaims DEF CallerWaits
  <1>11. CASE \/ Start \/ (\E c \in Chunks : Lapse(c) \/ Damage(c)) \/ UNCHANGED vars
    <2>1. op' = op /\ worker' = worker
      BY <1>11 DEF Start, Lapse, Damage, vars
    <2>2. QED
      BY <1>2, <2>1 DEF CallerWaits
  <1>12. ASSUME NEW w \in Workers, RejectCompletion(w) PROVE CallerWaits'
    <2>1. op' = op /\ op.name = "none"
      BY <1>12 DEF RejectCompletion, Unlocked
    <2>2. QED
      BY <1>1, <2>1 DEF CallerWaits
  <1>13. ASSUME NEW w \in Workers,
                \/ WriteSegment(w) \/ HashSegment(w) \/ SegmentVanished(w) \/ WorkerFails(w)
         PROVE  CallerWaits'
    <2>1. /\ op' = op /\ worker[w].phase \in {"encoding", "written"}
          /\ \A v \in Workers \ {w} : worker'[v] = worker[v]
      BY <1>1, <1>13 DEF WriteSegment, HashSegment, SegmentVanished, WorkerFails
    <2>2. (op.name = "lease" \/ op.at = "sidecar") => op.by # w
      BY <1>2, <2>1 DEF CallerWaits
    <2>3. QED
      BY <1>1, <1>2, <2>1, <2>2 DEF CallerWaits
  <1>14. QED
    BY <1>3, <1>4, <1>5, <1>6, <1>7, <1>8, <1>9, <1>10, <1>11, <1>12, <1>13
       DEF Next, WorkerStep, OpStep, Environment

\* What recover is about to write keeps the finished chunks that have one
\* lease in their life.
LEMMA RecoveryKeepsNext ==
  ASSUME Inv, LoneInv, [Next]_vars
  PROVE  RecoveryKeeps'
  <1> SUFFICES ASSUME op'.name = "recover", op'.at # "sync",
                      NEW c \in Chunks, Lone(c)', current'.chunks[c].status = "complete"
               PROVE  op'.new.chunks[c].status = "complete"
    BY DEF RecoveryKeeps
  <1>1. Lone(c) /\ Undisputed(c)
    BY LoneBefore DEF LoneInv
  <1>2. CASE Recover
    <2> DEFINE R == RecoveredChunks(disk.chunks, lapsed, segment, sidecar)
    <2>1. current' = disk /\ op'.new.chunks = R
      BY <1>2, NoCallClaims DEF Recover, Call, NextManifest
    <2>2. GoodChunks(disk.chunks)
      BY GoodManifestFields DEF Inv, TypeInv, TypeOK, GoodManifest
    <2>3. disk.chunks[c].status = "complete"
      BY <2>1
    <2>4. SegmentMatches(segment[c], disk.chunks[c].completion)
      BY <1>1, <2>3, LoneIsIntact
    <2>5. R[c] = disk.chunks[c]
      BY <2>2, <2>3, <2>4, RecoveredKeeps
    <2> HIDE DEF R
    <2>6. QED
      BY <2>1, <2>3, <2>5
  <1>3. CASE ~Recover
    <2>1. op.name = "recover" /\ op.at # "sync" /\ current' = current /\ op'.new = op.new
      <3>1. op \in Op /\ (op.name # "none" => up)
        BY DEF Inv, TypeInv, TypeOK, SafetyInv, OpShape
      <3>2. op' # NoCall
        BY NoCallClaims
      <3>3. ASSUME NEW w \in Workers, WorkerStep(w) PROVE op' = op /\ current' = current
        <4>1. ~Lease(w) /\ ~ExpireOnly(w)
          <5>1. Lease(w) => op'.name = "lease"
            BY DEF Lease, Call
          <5>2. ExpireOnly(w) => op'.name = "expire"
            BY DEF ExpireOnly, Call
          <5>3. QED
            BY <5>1, <5>2
        <4>2. ~StageCompletion(w) /\ ~Commit(w)
          BY DEF StageCompletion, Commit, Call
        <4>3. QED
          BY <3>3, <4>1, <4>2
             DEF WorkerStep, RejectCompletion, WriteSegment, HashSegment, SegmentVanished,
                 WorkerFails
      <3>4. ~RequestPause /\ ~Resume
        BY DEF RequestPause, Resume, Call
      <3>5. CASE WriteSidecar
        BY <3>1, <3>2, <3>5 DEF WriteSidecar, Op
      <3>6. ~ReplaceManifest
        BY <3>1 DEF ReplaceManifest, Op
      <3>7. ~RefuseReplace /\ ~Return /\ ~WriteFails /\ ~Crash
        BY <3>2 DEF RefuseReplace, Return, WriteFails, Crash
      <3>8. ~Start
        BY <3>1 DEF Start
      <3>9. CASE (\E d \in Chunks : Lapse(d) \/ Damage(d)) \/ UNCHANGED vars
        BY <3>9 DEF Lapse, Damage, vars
      <3>10. QED
        BY <1>3, <3>3, <3>4, <3>5, <3>6, <3>7, <3>8, <3>9 DEF Next, OpStep, Environment
    <2>2. QED
      BY <1>1, <2>1 DEF LoneInv, RecoveryKeeps
  <1>4. QED
    BY <1>2, <1>3

\* The invariant of chunks with one lease in their life.
THEOREM LoneInvariance == Spec => []LoneInv
  <1>1. Init => LoneInv
    BY LoneInit
  <1>2. Inv /\ LoneInv /\ [Next]_vars => LoneInv'
    <2> SUFFICES ASSUME Inv, LoneInv, [Next]_vars PROVE LoneInv'
      OBVIOUS
    <2>1. \A c \in Chunks : Lone(c)' => Undisputed(c)'
      BY UndisputedNext
    <2>2. QED
      BY <2>1, CallerWaitsNext, RecoveryKeepsNext DEF LoneInv
  <1>3. QED
    BY <1>1, <1>2, Invariance, PTL DEF Spec

\* The file of a completed chunk is the one that was validated, if only one
\* worker ever held the chunk: whatever calls raise, processes die, deadlines
\* pass or damage other files meanwhile.
THEOREM LoneWorkIsIntact == Spec => []IntactUnlessContended
  <1>1. Inv /\ LoneInv => IntactUnlessContended
    <2> SUFFICES ASSUME Inv, LoneInv, NEW c \in Chunks \ Fragile,
                        disk.chunks[c].status = "complete", issued[c] = 1
                 PROVE  segment[c] = disk.chunks[c].completion.sha
      BY DEF IntactUnlessContended
    <2>1. Undisputed(c)
      BY DEF LoneInv, Lone
    <2>2. QED
      BY <2>1, LoneIsIntact DEF SegmentMatches
  <1>2. QED
    BY <1>1, Invariance, LoneInvariance, PTL

\* Finished work is taken back by recovery only, and never if only one worker
\* ever held the chunk and nothing else touches its file.
THEOREM LoneWorkIsKept == Spec => NoNeedlessRework
  <1> DEFINE Step == \A c \in Chunks :
                       /\ disk.chunks[c].status = "complete"
                       /\ disk'.chunks[c].status # "complete"
                       => op.name = "recover" /\ (c \in Fragile \/ issued[c] > 1)
  <1>1. Inv /\ LoneInv /\ [Next]_vars => [Step]_vars
    <2> SUFFICES ASSUME Inv, LoneInv, [Next]_vars, NEW c \in Chunks,
                        disk.chunks[c].status = "complete",
                        disk'.chunks[c].status # "complete"
                 PROVE  op.name = "recover" /\ (c \in Fragile \/ issued[c] > 1)
      OBVIOUS
    <2>1. ReplaceManifest
      BY OthersStutter
    <2>2. Derived(op.name, op.chunk, disk, disk')
      BY <2>1, ReplaceDerives DEF Inv
    <2>3. op.name = "recover"
      BY <2>2, BuiltRecords DEF Derived, KeptOrExpired
    <2>4. op.at = "manifest" /\ disk = current /\ disk' = op.new
      BY <2>1 DEF ReplaceManifest
    <2>5. ~Lone(c)
      BY <2>3, <2>4 DEF LoneInv, RecoveryKeeps
    <2>6. issued[c] \in Nat
      BY DEF Inv, TypeInv, TypeOK
    <2>7. QED
      BY <2>3, <2>5, <2>6 DEF Lone
  <1>2. QED
    BY <1>1, Invariance, LoneInvariance, PTL DEF Spec, NoNeedlessRework
=============================================================================
