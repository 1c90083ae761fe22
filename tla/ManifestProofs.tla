--------------------------- MODULE ManifestProofs ---------------------------
(***************************************************************************)
(* Lemmas about the operations on manifests: what they build is a manifest *)
(* again, holds only records that ChunkRecord.state_fields_match accepts,  *)
(* and is complete only if each of its chunks is.  The proofs about the    *)
(* modules that run the operations (Coordinator, JobRun, Sessions) rest on *)
(* them.                                                                   *)
(***************************************************************************)
EXTENDS ManifestOps, TLAPS

\* A collection of records, or a manifest, that the schema accepts.
GoodChunks(chunks) ==
  /\ chunks \in [Chunks -> Record]
  /\ \A c \in Chunks : WellFormed(chunks[c])

GoodManifest(m) == m \in Manifest /\ RecordsWellFormed(m)

\* The records the operations build are records that state_fields_match accepts.
LEMMA RecordTypes ==
  /\ PendingRecord \in Record /\ WellFormed(PendingRecord)
  /\ \A n \in Nat \ {0} : LeasedRecord(n) \in Record /\ WellFormed(LeasedRecord(n))
  /\ \A n \in Nat, p \in Exact : CompleteRecord(n, p) \in Record /\ WellFormed(CompleteRecord(n, p))
  BY PayloadAssumption
     DEF PendingRecord, LeasedRecord, CompleteRecord, Record, Completion,
         NoCompletion, Exact, WellFormed

\* The fields of an accepted manifest.
LEMMA GoodManifestFields ==
  ASSUME NEW m, GoodManifest(m)
  PROVE  /\ GoodChunks(m.chunks)
         /\ m.state \in JobStates
         /\ m.gen \in Nat
  BY DEF GoodManifest, GoodChunks, Manifest, RecordsWellFormed

\* _persist: the next generation of an accepted manifest is accepted.
LEMMA GoodNextManifest ==
  ASSUME NEW m, GoodManifest(m), NEW chunks, GoodChunks(chunks), NEW s \in JobStates
  PROVE  /\ GoodManifest(NextManifest(m, chunks, s))
         /\ NextManifest(m, chunks, s).gen = m.gen + 1
         /\ NextManifest(m, chunks, s).state = s
         /\ NextManifest(m, chunks, s).chunks = chunks
  BY DEF GoodManifest, GoodChunks, Manifest, NextManifest, RecordsWellFormed

\* The manifest of the constructor is accepted.
LEMMA GoodFirstManifest == GoodManifest(FirstManifest)
  BY RecordTypes DEF GoodManifest, FirstManifest, Manifest, JobStates, RecordsWellFormed

\* Replacing one record by an accepted one.
LEMMA GoodUpdate ==
  ASSUME NEW chunks, GoodChunks(chunks), NEW c \in Chunks, NEW r \in Record, WellFormed(r)
  PROVE  /\ GoodChunks([chunks EXCEPT ![c] = r])
         /\ [chunks EXCEPT ![c] = r][c] = r
         /\ \A d \in Chunks \ {c} : [chunks EXCEPT ![c] = r][d] = chunks[d]
  BY DEF GoodChunks

\* _expire keeps a record, or drops the lease of a leased one.
LEMMA GoodExpire ==
  ASSUME NEW chunks, GoodChunks(chunks), NEW bound
  PROVE  /\ GoodChunks(Expire(chunks, bound))
         /\ \A c \in Chunks : \/ Expire(chunks, bound)[c] = chunks[c]
                              \/ /\ chunks[c].status = "leased"
                                 /\ Expire(chunks, bound)[c] = PendingRecord
  BY RecordTypes DEF GoodChunks, Expire

\* What recover makes of one record: it keeps it, resets it, or completes it
\* from a sidecar whose segment was checked.
LEMMA GoodRecovered ==
  ASSUME NEW chunks, GoodChunks(chunks), NEW bound, NEW seg,
         NEW side \in [Chunks -> Sidecar]
  PROVE  LET R == RecoveredChunks(chunks, bound, seg, side) IN
         /\ GoodChunks(R)
         /\ \A c \in Chunks : \/ R[c] = chunks[c]
                              \/ R[c] = PendingRecord
                              \/ \E n \in Nat, p \in Exact : R[c] = CompleteRecord(n, p)
  <1> DEFINE E == Expire(chunks, bound)
             R == RecoveredChunks(chunks, bound, seg, side)
  <1>1. ASSUME NEW c \in Chunks
        PROVE  \/ R[c] = chunks[c]
               \/ R[c] = PendingRecord
               \/ \E n \in Nat, p \in Exact : R[c] = CompleteRecord(n, p)
    <2>1. E[c] = chunks[c] \/ E[c] = PendingRecord
      BY GoodExpire
    <2>2. Revalidate(E[c], seg[c]) \in {E[c], PendingRecord}
      BY DEF Revalidate
    <2>3. R[c] = Repair(Revalidate(E[c], seg[c]), seg[c], side[c])
      BY DEF RecoveredChunks
    <2>4. \/ R[c] = Revalidate(E[c], seg[c])
          \/ /\ R[c] = CompleteRecord(side[c].lease, side[c].completion)
             /\ side[c].completion \in Exact
      BY <2>3 DEF Repair, SegmentMatches
    <2>5. side[c].lease \in Nat
      BY DEF Sidecar
    <2>6. QED
      BY <2>1, <2>2, <2>4, <2>5
  <1>2. GoodChunks(R)
    <2>1. ASSUME NEW c \in Chunks
          PROVE  R[c] \in Record /\ WellFormed(R[c])
      BY <1>1, <2>1, RecordTypes DEF GoodChunks
    <2>2. R = [c \in Chunks |-> R[c]]
      BY DEF RecoveredChunks
    <2>3. QED
      BY <2>1, <2>2 DEF GoodChunks
  <1>3. QED
    BY <1>1, <1>2

\* Each operation writes a job state.
LEMMA StateTypes ==
  ASSUME NEW s \in JobStates, NEW chunks
  PROVE  /\ StateAfterCommit(s, chunks) \in JobStates
         /\ StateAfterPause(chunks) \in JobStates
         /\ StateAfterRecover(s, chunks) \in JobStates
  BY DEF StateAfterCommit, StateAfterPause, StateAfterRecover, JobStates

\* What holds of every manifest the coordinator writes.
Sound(m) ==
  /\ m.state # "failed"
  /\ m.state = "complete" => AllComplete(m.chunks)
  /\ \A c \in Chunks : m.chunks[c].status = "complete" => m.chunks[c].completion \in Exact

Trusted(m) == GoodManifest(m) /\ Sound(m)

\* The fields of the records the operations build.
LEMMA BuiltFields ==
  /\ PendingRecord.status = "pending"
  /\ \A n : LeasedRecord(n).status = "leased" /\ LeasedRecord(n).lease = n
  /\ \A n, k : /\ CompleteRecord(n, k).status = "complete"
               /\ CompleteRecord(n, k).lease = n
               /\ CompleteRecord(n, k).completion = k
  BY DEF PendingRecord, LeasedRecord, CompleteRecord

\* The manifests that lease, commit and recover write.
LeaseManifest(m, bound, c, n) ==
  NextManifest(m, [Expire(m.chunks, bound) EXCEPT ![c] = LeasedRecord(n)], "running")

ExpireManifest(m, bound) == NextManifest(m, Expire(m.chunks, bound), m.state)

CommitManifest(m, c, n, k) ==
  LET R == [m.chunks EXCEPT ![c] = CompleteRecord(n, k)]
  IN  NextManifest(m, R, StateAfterCommit(m.state, R))

RecoverManifest(m, bound, seg, side) ==
  LET R == RecoveredChunks(m.chunks, bound, seg, side)
  IN  NextManifest(m, R, StateAfterRecover(m.state, R))

\* The manifest of the constructor is accepted and sound.
LEMMA TrustedFirst == Trusted(FirstManifest)
  BY GoodFirstManifest DEF Trusted, Sound, FirstManifest, PendingRecord

\* lease: the manifest in which a chunk is leased is accepted and sound.
LEMMA TrustedAfterLease ==
  ASSUME NEW m, NEW bound, NEW c, NEW n, Trusted(m), c \in Chunks, n \in Nat \ {0}
  PROVE  /\ Trusted(LeaseManifest(m, bound, c, n))
         /\ LeaseManifest(m, bound, c, n).gen = m.gen + 1
         /\ LeaseManifest(m, bound, c, n).state = "running"
         /\ LeaseManifest(m, bound, c, n).chunks[c] = LeasedRecord(n)
         /\ \A d \in Chunks \ {c} :
              LeaseManifest(m, bound, c, n).chunks[d] = Expire(m.chunks, bound)[d]
  <1> DEFINE E == Expire(m.chunks, bound)
             R == [E EXCEPT ![c] = LeasedRecord(n)]
             N == NextManifest(m, R, "running")
  <1>1. GoodChunks(m.chunks) /\ GoodChunks(E)
    BY GoodManifestFields, GoodExpire DEF Trusted
  <1>2. /\ GoodChunks(R) /\ R[c] = LeasedRecord(n)
        /\ \A d \in Chunks \ {c} : R[d] = E[d]
    BY <1>1, RecordTypes, GoodUpdate
  <1>3. GoodManifest(N) /\ N.gen = m.gen + 1 /\ N.state = "running" /\ N.chunks = R
    BY <1>2, GoodNextManifest DEF Trusted, JobStates
  <1>4. \A d \in Chunks : R[d].status = "complete" => R[d] = m.chunks[d]
    <2> HIDE DEF R
    <2>1. \A d \in Chunks : E[d] = m.chunks[d] \/ E[d] = PendingRecord
      BY <1>1, GoodExpire
    <2> HIDE DEF E
    <2>2. QED
      BY <1>2, <2>1, BuiltFields
  <1>5. Sound(N)
    <2> HIDE DEF R, N
    <2> QED
      BY <1>3, <1>4 DEF Trusted, Sound
  <1>6. N = LeaseManifest(m, bound, c, n)
    BY DEF LeaseManifest
  <1> HIDE DEF N, R, E
  <1>7. QED
    BY <1>2, <1>3, <1>5, <1>6 DEF Trusted, E

\* lease of a job that does not run: expired leases are dropped, no more.
LEMMA TrustedAfterExpire ==
  ASSUME NEW m, NEW bound, Trusted(m)
  PROVE  /\ Trusted(ExpireManifest(m, bound))
         /\ ExpireManifest(m, bound).gen = m.gen + 1
         /\ ExpireManifest(m, bound).state = m.state
         /\ ExpireManifest(m, bound).chunks = Expire(m.chunks, bound)
  <1> DEFINE E == Expire(m.chunks, bound)
             N == NextManifest(m, E, m.state)
  <1>1. /\ GoodChunks(m.chunks) /\ GoodChunks(E)
        /\ \A c \in Chunks : \/ E[c] = m.chunks[c]
                             \/ m.chunks[c].status = "leased" /\ E[c] = PendingRecord
    BY GoodManifestFields, GoodExpire DEF Trusted
  <1>2. GoodManifest(N) /\ N.gen = m.gen + 1 /\ N.state = m.state /\ N.chunks = E
    <2>1. GoodManifest(m) /\ m.state \in JobStates
      BY GoodManifestFields DEF Trusted
    <2> HIDE DEF E
    <2>2. QED
      BY <1>1, <2>1, GoodNextManifest
  <1>3. Sound(N)
    <2> HIDE DEF E, N
    <2> QED
      BY <1>1, <1>2, BuiltFields DEF Trusted, Sound, AllComplete
  <1>4. QED
    BY <1>2, <1>3 DEF Trusted, ExpireManifest

\* commit of a checked completion.
LEMMA TrustedAfterCommit ==
  ASSUME NEW m, NEW c, NEW n, NEW k, Trusted(m), c \in Chunks, n \in Nat, k \in Exact
  PROVE  /\ Trusted(CommitManifest(m, c, n, k))
         /\ CommitManifest(m, c, n, k).gen = m.gen + 1
         /\ CommitManifest(m, c, n, k).state
              = StateAfterCommit(m.state, CommitManifest(m, c, n, k).chunks)
         /\ CommitManifest(m, c, n, k).chunks[c] = CompleteRecord(n, k)
         /\ \A d \in Chunks \ {c} : CommitManifest(m, c, n, k).chunks[d] = m.chunks[d]
  <1> DEFINE R == [m.chunks EXCEPT ![c] = CompleteRecord(n, k)]
             s == StateAfterCommit(m.state, R)
             N == NextManifest(m, R, s)
  <1>1. GoodChunks(m.chunks) /\ m.state \in JobStates
    BY GoodManifestFields DEF Trusted
  <1>2. /\ GoodChunks(R) /\ R[c] = CompleteRecord(n, k)
        /\ \A d \in Chunks \ {c} : R[d] = m.chunks[d]
    BY <1>1, RecordTypes, GoodUpdate
  <1>3. GoodManifest(N) /\ N.gen = m.gen + 1 /\ N.state = s /\ N.chunks = R
    <2>1. s \in JobStates /\ GoodManifest(m)
      BY <1>1, StateTypes DEF Trusted
    <2> HIDE DEF R, s
    <2>2. QED
      BY <1>2, <2>1, GoodNextManifest
  <1>4. Sound(N)
    <2> HIDE DEF R, N
    <2> QED
      BY <1>2, <1>3, BuiltFields DEF Trusted, Sound, StateAfterCommit
  <1>5. N = CommitManifest(m, c, n, k)
    BY DEF CommitManifest
  <1>6. Trusted(N) /\ N.state = StateAfterCommit(m.state, N.chunks)
    <2> HIDE DEF N, R
    <2> QED
      BY <1>3, <1>4 DEF Trusted, s
  <1> HIDE DEF N, R, s
  <1>7. QED
    BY <1>2, <1>3, <1>5, <1>6

\* recover.
LEMMA TrustedAfterRecover ==
  ASSUME NEW m, NEW bound, NEW seg, NEW side,
         Trusted(m), side \in [Chunks -> Sidecar]
  PROVE  /\ Trusted(RecoverManifest(m, bound, seg, side))
         /\ RecoverManifest(m, bound, seg, side).gen = m.gen + 1
         /\ RecoverManifest(m, bound, seg, side).chunks
              = RecoveredChunks(m.chunks, bound, seg, side)
         /\ RecoverManifest(m, bound, seg, side).state
              = StateAfterRecover(m.state, RecoveredChunks(m.chunks, bound, seg, side))
         /\ \A c \in Chunks :
              RecoverManifest(m, bound, seg, side).chunks[c].status = "leased"
                => RecoverManifest(m, bound, seg, side).chunks[c] = m.chunks[c]
  <1> DEFINE R == RecoveredChunks(m.chunks, bound, seg, side)
             s == StateAfterRecover(m.state, R)
             N == NextManifest(m, R, s)
  <1>1. GoodChunks(m.chunks) /\ m.state \in JobStates
    BY GoodManifestFields DEF Trusted
  <1>2. /\ GoodChunks(R)
        /\ \A c \in Chunks : \/ R[c] = m.chunks[c]
                             \/ R[c] = PendingRecord
                             \/ \E n \in Nat, k \in Exact : R[c] = CompleteRecord(n, k)
    BY <1>1, GoodRecovered
  <1>3. GoodManifest(N) /\ N.gen = m.gen + 1 /\ N.state = s /\ N.chunks = R
    <2>1. s \in JobStates /\ GoodManifest(m)
      BY <1>1, StateTypes DEF Trusted
    <2> HIDE DEF R, s
    <2>2. QED
      BY <1>2, <2>1, GoodNextManifest
  <1>4. Sound(N)
    <2> HIDE DEF R, N
    <2> QED
      BY <1>2, <1>3, BuiltFields DEF Trusted, Sound, StateAfterRecover
  <1>5. \A c \in Chunks : R[c].status = "leased" => R[c] = m.chunks[c]
    <2> HIDE DEF R
    <2> QED
      BY <1>2, BuiltFields
  <1>6. N = RecoverManifest(m, bound, seg, side)
    BY DEF RecoverManifest
  <1>7. Trusted(N)
    <2> HIDE DEF N
    <2> QED
      BY <1>3, <1>4 DEF Trusted
  <1> HIDE DEF N, R, s
  <1>8. QED
    BY <1>3, <1>5, <1>6, <1>7 DEF R, s

\* request_pause and resume change the job state only.
LEMMA TrustedInState ==
  ASSUME NEW m, NEW s, Trusted(m), s \in {"running", "pause_requested", "paused"}
  PROVE  /\ Trusted(NextManifest(m, m.chunks, s))
         /\ NextManifest(m, m.chunks, s).gen = m.gen + 1
         /\ NextManifest(m, m.chunks, s).state = s
         /\ NextManifest(m, m.chunks, s).chunks = m.chunks
  <1> DEFINE N == NextManifest(m, m.chunks, s)
  <1>1. GoodManifest(N) /\ N.gen = m.gen + 1 /\ N.state = s /\ N.chunks = m.chunks
    <2>1. GoodManifest(m) /\ GoodChunks(m.chunks) /\ s \in JobStates
      BY GoodManifestFields DEF Trusted, JobStates
    <2>2. QED
      BY <2>1, GoodNextManifest
  <1>2. Sound(N)
    <2> HIDE DEF N
    <2> QED
      BY <1>1 DEF Trusted, Sound
  <1>3. QED
    BY <1>1, <1>2 DEF Trusted

\* The finished chunks of a manifest.
DoneIn(m) == {c \in Chunks : m.chunks[c].status = "complete"}

\* commit and recover mark a job complete when all its chunks are finished.
LEMMA DoneFacts ==
  ASSUME NEW m
  PROVE  DoneIn(m) = Chunks <=> AllComplete(m.chunks)
  BY DEF DoneIn, AllComplete
=============================================================================
