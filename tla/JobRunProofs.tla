---------------------------- MODULE JobRunProofs ----------------------------
(***************************************************************************)
(* Theorems about JobRun.  The first part holds for any number of commands *)
(* alive together, killed at any step.  The second is for commands that    *)
(* run one after the other: what the operator does is then a hypothesis    *)
(* of the theorems, [] OneAtATime, that a single process always meets.     *)
(* The third shows that the manifest file behaves as JobLedger promises.   *)
(***************************************************************************)
EXTENDS JobRun, ManifestProofs

-----------------------------------------------------------------------------
(***************************************************************************)
(* The inductive invariant for commands that overlap.                      *)
(***************************************************************************)

Writing(r) == r.at \in {"compare", "replace"}

\* Where a command continues once the manifest is written.
Continuations == {"resume", "lease", "encode", "committed", "finish"}

PauseStates == {"pause_requested", "paused"}

\* The manifest that a command is about to write is one operation away from
\* the one it holds: a chunk is handed out only by a lease, a lease only in a
\* running job, and a pause is left only by a command told to resume.
Derived(r) ==
  /\ r.new.gen = r.mem.gen + 1
  /\ r.then \in Continuations
  /\ r.then = "encode" => r.mem.state = "running"
  /\ r.then # "encode" => \A c \in Chunks :
                            r.new.chunks[c].status = "leased" => r.new.chunks[c] = r.mem.chunks[c]
  /\ r.mem.state \in PauseStates /\ r.new.state = "running"
       => r.mem.state = "paused" /\ r.resume

\* What holds of each command, whatever the others do to the files.
Consistent(r, seg) ==
  /\ r \in Proc
  /\ Trusted(r.mem) /\ Trusted(r.new)
  /\ r.at = "hash" => seg[r.chunk] \in Payloads
  /\ r.at = "sidecar" => r.completion \in Exact
  /\ Writing(r) => Derived(r)

FilesTyped ==
  /\ exists \in BOOLEAN
  /\ Trusted(disk)
  /\ segment \in [Chunks -> File]
  /\ sidecar \in [Chunks -> Sidecar]
  /\ artifact \in [Chunks -> File]
  /\ issued \in [Chunks -> Nat] /\ lapsed \in [Chunks -> Nat]
  /\ raced \in BOOLEAN /\ commands \in Nat /\ kills \in Nat

\* What links the manifest a command holds to the file, as long as no write has
\* fallen between the accesses of a pair: each pair of accesses saw one file.
Linked(r, present, file) ==
  /\ r.at = "create" => ~present
  /\ r.at \in {"identify", "decide"} => r.mem = file
  /\ r.at = "replace" => r.basis = file
  /\ r.at \notin {"idle", "open", "create", "identify", "decide"} => r.mem = r.basis

Outside == {"idle", "open", "create"}

PairsSawOneFile ==
  /\ ~exists => disk = FirstManifest /\ \A p \in Procs : proc[p].at \in Outside
  /\ ~raced => \A p \in Procs : Linked(proc[p], exists, disk)

AllConsistent ==
  /\ proc \in [Procs -> Proc]
  /\ \A p \in Procs : Consistent(proc[p], segment)

Inv == FilesTyped /\ AllConsistent /\ PairsSawOneFile

\* A record that a command can hold, field by field.
LEMMA ProcFields ==
  ASSUME NEW r \in Proc
  PROVE  /\ r.at \in Points /\ r.command \in CommandNames /\ r.resume \in BOOLEAN
         /\ r.limit \in Nat /\ r.mem \in Manifest /\ r.basis \in Manifest
         /\ r.new \in Manifest /\ r.then \in Points /\ r.chunk \in Chunks
         /\ r.lease \in Nat /\ r.completion \in Completion \union {NoCompletion}
         /\ r.count \in Nat /\ r.outcome \in Outcomes
  BY DEF Proc

\* A manifest that the invariant speaks of is a manifest.
LEMMA TrustedIsManifest ==
  ASSUME NEW m, Trusted(m)
  PROVE  m \in Manifest
  BY DEF Trusted, GoodManifest

\* A process whose command has ended holds nothing that could be wrong.
LEMMA EndedIsConsistent ==
  ASSUME NEW name \in CommandNames, NEW outcome \in Outcomes, NEW seg
  PROVE  /\ Consistent(Ended(name, outcome), seg)
         /\ \A present, file : Linked(Ended(name, outcome), present, file)
         /\ Ended(name, outcome).at \in Outside
  <1>1. 1 \in Chunks
    BY ChunkAssumption DEF Chunks
  <1>2. Trusted(FirstManifest) /\ FirstManifest \in Manifest
    BY TrustedFirst, TrustedIsManifest
  <1>3. Ended(name, outcome) \in Proc
    BY <1>1, <1>2 DEF Ended, Proc, Points
  <1>4. QED
    BY <1>2, <1>3 DEF Ended, Consistent, Writing, Linked, Outside

\* A command moves to another point with what it holds.
Moved(r, a) == [r EXCEPT !.at = a]

\* A command that moves on stays consistent if the point it reaches asks no more.
LEMMA MovedIsConsistent ==
  ASSUME NEW r, NEW seg, NEW a,
         r \in Proc, Trusted(r.mem), Trusted(r.new), a \in Points,
         a = "hash" => seg[r.chunk] \in Payloads,
         a = "sidecar" => r.completion \in Exact,
         a \in {"compare", "replace"} => Derived(r)
  PROVE  /\ Consistent(Moved(r, a), seg)
         /\ Moved(r, a).at = a
         /\ Moved(r, a).mem = r.mem
         /\ Moved(r, a).basis = r.basis
  <1> DEFINE q == Moved(r, a)
  <1>1. /\ q \in Proc /\ q.at = a /\ q.mem = r.mem /\ q.new = r.new /\ q.then = r.then
        /\ q.resume = r.resume /\ q.chunk = r.chunk /\ q.completion = r.completion
        /\ q.basis = r.basis
    BY DEF Proc, Moved
  <1> HIDE DEF q
  <1>2. Writing(q) => Derived(q)
    BY <1>1 DEF Writing, Derived
  <1>3. Consistent(q, seg)
    BY <1>1, <1>2 DEF Consistent
  <1>4. QED
    BY <1>1, <1>3 DEF q

\* A command prepares a manifest that is one operation away from the one it holds.
LEMMA PersistingIsConsistent ==
  ASSUME NEW r, NEW seg, NEW new, NEW then,
         r \in Proc, Trusted(r.mem), Trusted(new), then \in Continuations,
         new.gen = r.mem.gen + 1,
         then = "encode" => r.mem.state = "running",
         then # "encode" => \A c \in Chunks :
                              new.chunks[c].status = "leased" => new.chunks[c] = r.mem.chunks[c],
         r.mem.state \in PauseStates /\ new.state = "running"
           => r.mem.state = "paused" /\ r.resume
  PROVE  /\ Consistent(Persisting(r, new, then), seg)
         /\ Persisting(r, new, then).at = "compare"
         /\ Persisting(r, new, then).mem = r.mem
         /\ Persisting(r, new, then).basis = r.basis
  <1> DEFINE q == Persisting(r, new, then)
  <1>1. new \in Manifest /\ then \in Points
    BY TrustedIsManifest DEF Points, Continuations
  <1>2. /\ q \in Proc /\ q.at = "compare" /\ q.mem = r.mem /\ q.new = new /\ q.then = then
        /\ q.resume = r.resume /\ q.basis = r.basis
    BY <1>1 DEF Persisting, Proc, Points
  <1> HIDE DEF q
  <1>3. Derived(q)
    BY <1>2 DEF Derived
  <1>4. Consistent(q, seg)
    BY <1>2, <1>3 DEF Consistent
  <1>5. QED
    BY <1>2, <1>4 DEF q

\* A step of one command that leaves the manifest file as it is: the others
\* stay consistent, because a segment file is never removed.
LEMMA OneMoves ==
  ASSUME NEW p, NEW r,
         Inv, p \in Procs,
         proc' = [proc EXCEPT ![p] = r],
         Consistent(r, segment'),
         ~raced => Linked(r, exists, disk),
         exists \/ r.at \in Outside,
         \A c \in Chunks : segment'[c] = segment[c] \/ segment'[c] \in Payloads,
         exists' = exists, disk' = disk, raced' = raced
  PROVE  AllConsistent' /\ PairsSawOneFile'
  <1>1. proc' \in [Procs -> Proc]
    BY DEF Inv, AllConsistent, Consistent
  <1>2. /\ proc'[p] = r
        /\ \A q \in Procs \ {p} : proc'[q] = proc[q]
    BY DEF Inv, AllConsistent
  <1>3. ASSUME NEW q \in Procs \ {p}
        PROVE  Consistent(proc[q], segment')
    <2>1. Consistent(proc[q], segment) /\ proc[q].chunk \in Chunks
      BY ProcFields DEF Inv, AllConsistent
    <2>2. QED
      BY <2>1 DEF Consistent
  <1>4. AllConsistent'
    BY <1>1, <1>2, <1>3 DEF AllConsistent
  <1>5. PairsSawOneFile'
    BY <1>2 DEF Inv, PairsSawOneFile
  <1>6. QED
    BY <1>4, <1>5

\* What a step knows of the command that takes it.
LEMMA CommandFacts ==
  ASSUME Inv, NEW p \in Procs
  PROVE  /\ Consistent(proc[p], segment) /\ proc[p] \in Proc
         /\ Trusted(proc[p].mem) /\ Trusted(proc[p].new) /\ Trusted(disk)
         /\ GoodChunks(proc[p].mem.chunks) /\ proc[p].mem.state \in JobStates
         /\ proc[p].chunk \in Chunks
         /\ ~raced => Linked(proc[p], exists, disk)
         /\ exists \/ proc[p].at \in Outside
  BY ProcFields, GoodManifestFields
     DEF Inv, FilesTyped, AllConsistent, Consistent, PairsSawOneFile, Trusted

\* A command reads the manifest file: into its memory, or to hash it.
ReadPoints == {"create", "identify", "reload", "pause", "qa", "decide"}

Reading(r, a, m, b) == [r EXCEPT !.at = a, !.mem = m, !.basis = b]

\* A command that has read an accepted manifest is consistent.
LEMMA ReadingIsConsistent ==
  ASSUME NEW r, NEW seg, NEW m, NEW b, NEW a,
         r \in Proc, Trusted(r.new), Trusted(m), b \in Manifest, a \in ReadPoints
  PROVE  /\ Consistent(Reading(r, a, m, b), seg)
         /\ Reading(r, a, m, b).at = a
         /\ Reading(r, a, m, b).mem = m
         /\ Reading(r, a, m, b).basis = b
  <1> DEFINE q == Reading(r, a, m, b)
  <1>1. m \in Manifest
    BY TrustedIsManifest
  <1>2. /\ q \in Proc /\ q.at = a /\ q.mem = m /\ q.new = r.new /\ q.basis = b
    BY <1>1 DEF Proc, Points, ReadPoints, Reading
  <1>3. QED
    BY <1>1, <1>2 DEF Consistent, Writing, ReadPoints

\* _dispatch continues with run, pause or qa.
LEMMA FirstPoints ==
  ASSUME NEW name
  PROVE  FirstPoint(name) \in {"reload", "pause", "qa"} /\ FirstPoint(name) \in ReadPoints
  BY DEF FirstPoint, ReadPoints

\* Coordinator.__init__ and recover read the manifest and then its hash.
LEMMA ConstructionIsSafe ==
  ASSUME Inv, NEW p \in Procs, Open(p) \/ Identify(p) \/ Reload(p)
  PROVE  Inv'
  <1> DEFINE me == proc[p]
             b == me.basis
             m0 == me.mem
  <1>1. /\ me \in Proc /\ Trusted(m0) /\ Trusted(me.new) /\ Trusted(disk)
        /\ b \in Manifest /\ disk \in Manifest
        /\ ~raced => Linked(me, exists, disk)
        /\ exists \/ me.at \in Outside
    BY CommandFacts, ProcFields, TrustedIsManifest
  <1>2. /\ exists' = exists /\ disk' = disk /\ raced' = raced /\ segment' = segment
        /\ FilesTyped'
    BY DEF Open, Identify, Reload, clock, rest, Inv, FilesTyped
  <1>3. CASE Open(p)
    <2> DEFINE a == IF exists THEN "identify" ELSE "create"
               m == IF exists THEN disk ELSE m0
               r == Reading(me, a, m, b)
    <2>1. proc' = [proc EXCEPT ![p] = r]
      BY <1>1, <1>3 DEF Open, Proc, Reading, Inv, AllConsistent
    <2>2. /\ Trusted(m) /\ a \in ReadPoints /\ a \in {"identify", "create"}
          /\ a = "create" <=> ~exists
          /\ a = "identify" => m = disk
      BY <1>1 DEF ReadPoints
    <2> HIDE DEF a, m, me, b
    <2>3. Consistent(r, segment) /\ r.at = a /\ r.mem = m
      BY <1>1, <2>2, ReadingIsConsistent
    <2> HIDE DEF r
    <2>4. Linked(r, exists, disk) /\ (exists \/ r.at \in Outside)
      BY <2>2, <2>3 DEF Linked, Outside
    <2>5. QED
      BY <1>2, <2>1, <2>3, <2>4, OneMoves DEF Inv
  <1>4. CASE Identify(p)
    <2> DEFINE a == FirstPoint(me.command)
               r == Reading(me, a, m0, disk)
    <2>1. proc' = [proc EXCEPT ![p] = r]
      BY <1>1, <1>4 DEF Identify, Proc, Reading, Inv, AllConsistent
    <2>2. /\ a \in {"reload", "pause", "qa"} /\ a \in ReadPoints
          /\ me.at = "identify"
      BY <1>4, FirstPoints DEF Identify, At
    <2> HIDE DEF a, me, m0
    <2>3. Consistent(r, segment) /\ r.at = a /\ r.mem = m0 /\ r.basis = disk
      BY <1>1, <2>2, ReadingIsConsistent
    <2>4. ~raced => m0 = disk
      BY <1>1, <2>2 DEF Linked, m0
    <2> HIDE DEF r
    <2>5. (~raced => Linked(r, exists, disk)) /\ exists
      BY <1>1, <2>2, <2>3, <2>4 DEF Linked, Outside
    <2>6. QED
      BY <1>2, <2>1, <2>3, <2>5, OneMoves DEF Inv
  <1>5. CASE Reload(p)
    <2> DEFINE r == Reading(me, "decide", disk, b)
    <2>1. proc' = [proc EXCEPT ![p] = r]
      BY <1>1, <1>5 DEF Reload, Proc, Reading, Inv, AllConsistent
    <2>2. me.at = "reload" /\ "decide" \in ReadPoints
      BY <1>5 DEF Reload, At, ReadPoints
    <2> HIDE DEF me, b
    <2>3. Consistent(r, segment) /\ r.at = "decide" /\ r.mem = disk
      BY <1>1, <2>2, ReadingIsConsistent
    <2> HIDE DEF r
    <2>4. Linked(r, exists, disk) /\ exists
      BY <1>1, <2>2, <2>3 DEF Linked, Outside
    <2>5. QED
      BY <1>2, <2>1, <2>3, <2>4, OneMoves DEF Inv
  <1>6. QED
    BY <1>3, <1>4, <1>5

-----------------------------------------------------------------------------
\* A command ends, for whatever reason.
LEMMA ExitIsSafe ==
  ASSUME NEW p, NEW outcome,
         Inv, p \in Procs, outcome \in Outcomes, Exit(p, outcome),
         exists' = exists, disk' = disk, raced' = raced, segment' = segment
  PROVE  AllConsistent' /\ PairsSawOneFile'
  <1>1. proc[p].command \in CommandNames
    BY CommandFacts, ProcFields
  <1>2. proc' = [proc EXCEPT ![p] = Ended(proc[p].command, outcome)]
    BY DEF Exit, Inv, AllConsistent
  <1>3. /\ Consistent(Ended(proc[p].command, outcome), segment')
        /\ Linked(Ended(proc[p].command, outcome), exists, disk)
    BY <1>1, EndedIsConsistent
  <1>a. Ended(proc[p].command, outcome).at \in Outside
    BY <1>1, EndedIsConsistent
  <1>4. QED
    BY <1>2, <1>3, <1>a, OneMoves

\* The points between which a command moves without an access to the manifest.
Inner == {"resume", "lease", "encode", "hash", "commit", "sidecar", "committed",
          "compare", "finish", "pause", "qa"}

\* A step that does not touch the manifest, as one of encode, hash or compare.
LEMMA GotoIsSafe ==
  ASSUME NEW p, NEW a,
         Inv, p \in Procs, a \in {"lease", "hash", "sidecar", "finish", "concat", "replace"},
         proc[p].at \in Inner, Goto(p, a),
         a = "hash" => segment'[proc[p].chunk] \in Payloads,
         a = "sidecar" => proc[p].completion \in Exact,
         a = "replace" => proc[p].at = "compare" /\ disk = proc[p].basis,
         exists' = exists, disk' = disk, raced' = raced,
         \A c \in Chunks : segment'[c] = segment[c] \/ segment'[c] \in Payloads
  PROVE  AllConsistent' /\ PairsSawOneFile'
  <1> DEFINE r == Moved(proc[p], a)
  <1>1. /\ Consistent(proc[p], segment) /\ proc[p] \in Proc
        /\ Trusted(proc[p].mem) /\ Trusted(proc[p].new)
        /\ ~raced => Linked(proc[p], exists, disk)
        /\ exists
    BY CommandFacts DEF Inner, Outside
  <1>2. proc' = [proc EXCEPT ![p] = r]
    BY DEF Goto, Moved, Inv, AllConsistent
  <1>3. a = "replace" => Derived(proc[p])
    BY <1>1 DEF Consistent, Writing
  <1>4. a \in Points
    BY DEF Points
  <1>5. /\ Consistent(r, segment') /\ r.at = a /\ r.mem = proc[p].mem
        /\ r.basis = proc[p].basis
    BY <1>1, <1>3, <1>4, MovedIsConsistent
  <1> HIDE DEF r
  <1>6. (~raced => Linked(r, exists, disk)) /\ exists
    BY <1>1, <1>5 DEF Linked, Inner
  <1>7. QED
    BY <1>2, <1>5, <1>6, OneMoves

\* A command prepares the next generation of the manifest it holds.
LEMMA PersistIsSafe ==
  ASSUME NEW p, NEW q, NEW new, NEW then,
         Inv, p \in Procs, q \in Proc, Trusted(new), then \in Continuations,
         proc' = [proc EXCEPT ![p] = Persisting(q, new, then)],
         exists, q.mem = proc[p].mem, q.resume = proc[p].resume,
         ~raced => q.mem = q.basis,
         new.gen = q.mem.gen + 1,
         then = "encode" => q.mem.state = "running",
         then # "encode" => \A c \in Chunks :
                              new.chunks[c].status = "leased" => new.chunks[c] = q.mem.chunks[c],
         q.mem.state \in PauseStates /\ new.state = "running"
           => q.mem.state = "paused" /\ q.resume,
         exists' = exists, disk' = disk, raced' = raced, segment' = segment
  PROVE  AllConsistent' /\ PairsSawOneFile'
  <1> DEFINE r == Persisting(q, new, then)
  <1>1. Trusted(q.mem)
    BY CommandFacts
  <1>2. Consistent(r, segment) /\ r.at = "compare" /\ r.mem = q.mem /\ r.basis = q.basis
    BY <1>1, PersistingIsConsistent
  <1> HIDE DEF r
  <1>3. ~raced => Linked(r, exists, disk)
    BY <1>2 DEF Linked
  <1>4. proc' = [proc EXCEPT ![p] = r]
    BY DEF r
  <1>5. QED
    BY <1>2, <1>3, <1>4, OneMoves

\* A write of the manifest keeps the pairs of accesses of the other commands
\* intact, or it is remembered as a race.
LEMMA WriteIsSafe ==
  ASSUME NEW p, NEW r, NEW m,
         Inv, p \in Procs, Trusted(m),
         proc' = [proc EXCEPT ![p] = r], disk' = m, Written(p), exists',
         Consistent(r, segment), Linked(r, TRUE, m),
         segment' = segment
  PROVE  AllConsistent' /\ PairsSawOneFile'
  <1>1. proc' \in [Procs -> Proc]
    BY DEF Inv, AllConsistent, Consistent
  <1>2. /\ proc'[p] = r
        /\ \A q \in Procs \ {p} : proc'[q] = proc[q] /\ Consistent(proc[q], segment)
    BY DEF Inv, AllConsistent
  <1>3. AllConsistent'
    BY <1>1, <1>2 DEF AllConsistent
  <1>4. ASSUME ~raced', NEW q \in Procs \ {p}
        PROVE  Linked(proc[q], exists', disk')
    <2>1. ~raced /\ ~MidPair(q)
      BY <1>4 DEF Written
    <2>2. Linked(proc[q], exists, disk)
      BY <2>1 DEF Inv, PairsSawOneFile
    <2>3. QED
      BY <2>1, <2>2 DEF Linked, MidPair
  <1>5. PairsSawOneFile'
    BY <1>2, <1>4 DEF PairsSawOneFile
  <1>6. QED
    BY <1>3, <1>5

\* Coordinator.__init__ writes the first manifest.
LEMMA CreateIsSafe ==
  ASSUME Inv, NEW p \in Procs, Create(p)
  PROVE  Inv'
  <1> DEFINE a == FirstPoint(proc[p].command)
             r == Reading(proc[p], a, FirstManifest, FirstManifest)
  <1>1. /\ proc[p] \in Proc /\ Trusted(proc[p].new)
        /\ Trusted(FirstManifest) /\ FirstManifest \in Manifest
        /\ a \in {"reload", "pause", "qa"} /\ a \in ReadPoints
    BY CommandFacts, TrustedFirst, TrustedIsManifest, FirstPoints
  <1>2. proc' = [proc EXCEPT ![p] = r]
    BY DEF Create, Reading, Inv, AllConsistent, Proc
  <1> HIDE DEF a
  <1>3. /\ Consistent(r, segment) /\ r.at = a
        /\ r.mem = FirstManifest /\ r.basis = FirstManifest
    BY <1>1, ReadingIsConsistent
  <1> HIDE DEF r
  <1>4. Linked(r, TRUE, FirstManifest)
    BY <1>1, <1>3 DEF Linked
  <1>5. disk' = FirstManifest /\ exists' = TRUE /\ segment' = segment /\ Written(p)
    BY DEF Create
  <1>6. AllConsistent' /\ PairsSawOneFile'
    BY <1>1, <1>2, <1>3, <1>4, <1>5, WriteIsSafe
  <1>7. FilesTyped'
    BY <1>1, <1>5 DEF Create, Inv, FilesTyped, Written, clock, budget
  <1>8. QED
    BY <1>6, <1>7 DEF Inv

\* AtomicArtifactWriter.write replaces the manifest.
LEMMA ReplaceIsSafe ==
  ASSUME Inv, NEW p \in Procs, Replace(p)
  PROVE  Inv'
  <1> DEFINE m == proc[p].new
             r == [proc[p] EXCEPT !.at = proc[p].then, !.mem = m, !.basis = m]
  <1>1. /\ proc[p] \in Proc /\ Trusted(m) /\ m \in Manifest /\ Consistent(proc[p], segment)
        /\ proc[p].at = "replace"
    BY CommandFacts, TrustedIsManifest DEF Replace, At
  <1>2. proc[p].then \in {"resume", "lease", "encode", "committed", "finish"}
    BY <1>1 DEF Consistent, Writing, Derived, Continuations
  <1>3. /\ r \in Proc /\ r.at = proc[p].then /\ r.mem = m /\ r.basis = m /\ r.new = m
    BY <1>1, <1>2 DEF Proc, Points
  <1>4. proc' = [proc EXCEPT ![p] = r] /\ disk' = m
    BY DEF Replace
  <1> HIDE DEF r, m
  <1>5. Consistent(r, segment) /\ Linked(r, TRUE, m)
    BY <1>1, <1>2, <1>3 DEF Consistent, Writing, Linked
  <1>6. /\ exists' = exists /\ segment' = segment /\ Written(p) /\ exists
    BY <1>1, CommandFacts DEF Replace, Outside
  <1>7. AllConsistent' /\ PairsSawOneFile'
    BY <1>1, <1>4, <1>5, <1>6, WriteIsSafe
  <1>8. FilesTyped'
    BY <1>1, <1>4 DEF Replace, Inv, FilesTyped, Written, clock, budget
  <1>9. QED
    BY <1>7, <1>8 DEF Inv

-----------------------------------------------------------------------------
(***************************************************************************)
(* _execute_spatial_job and the other commands.                            *)
(***************************************************************************)

\* recover derives records and job state from the files.
LEMMA DecideIsSafe ==
  ASSUME Inv, NEW p \in Procs, Decide(p)
  PROVE  Inv'
  <1> DEFINE me == proc[p]
             mem == me.mem
             q == [me EXCEPT !.basis = disk]
             N == RecoverManifest(mem, lapsed, segment, sidecar)
  <1>1. /\ me \in Proc /\ Trusted(mem) /\ Trusted(me.new) /\ disk \in Manifest
        /\ me.at = "decide" /\ exists
        /\ ~raced => mem = disk
    BY CommandFacts, TrustedIsManifest DEF Decide, At, Linked, Outside
  <1>2. /\ q \in Proc /\ q.mem = mem /\ q.resume = me.resume /\ q.basis = disk
        /\ q.new = me.new
    BY <1>1 DEF Proc
  <1>3. /\ exists' = exists /\ disk' = disk /\ raced' = raced /\ segment' = segment
        /\ FilesTyped' /\ sidecar \in [Chunks -> Sidecar]
    BY DEF Decide, clock, rest, Inv, FilesTyped
  <1>4. \/ proc' = [proc EXCEPT ![p] = Persisting(q, N, "resume")]
        \/ proc' = [proc EXCEPT ![p] = Moved(q, "resume")]
    BY DEF Decide, Moved, RecoverManifest
  <1> HIDE DEF q, mem
  <1>5. /\ Trusted(N) /\ N.gen = mem.gen + 1
        /\ \A c \in Chunks : N.chunks[c].status = "leased" => N.chunks[c] = mem.chunks[c]
    BY <1>1, <1>3, TrustedAfterRecover
  <1>6. mem.state \in PauseStates => N.state # "running"
    <2>1. N.state = StateAfterRecover(mem.state, RecoveredChunks(mem.chunks, lapsed, segment, sidecar))
      BY <1>1, <1>3, TrustedAfterRecover
    <2> HIDE DEF N
    <2>2. QED
      BY <2>1 DEF StateAfterRecover, PauseStates
  <1> HIDE DEF N, me
  <1>7. CASE proc' = [proc EXCEPT ![p] = Persisting(q, N, "resume")]
    <2>1. q.mem = proc[p].mem /\ q.resume = proc[p].resume /\ "resume" \in Continuations
      BY <1>2 DEF mem, me, Continuations
    <2>2. /\ ~raced => q.mem = q.basis
          /\ N.gen = q.mem.gen + 1
          /\ \A c \in Chunks : N.chunks[c].status = "leased" => N.chunks[c] = q.mem.chunks[c]
          /\ q.mem.state \in PauseStates /\ N.state = "running"
               => q.mem.state = "paused" /\ q.resume
      BY <1>1, <1>2, <1>5, <1>6
    <2>3. q \in Proc /\ Trusted(N) /\ exists /\ "resume" # "encode"
      BY <1>1, <1>2, <1>5
    <2>4. AllConsistent' /\ PairsSawOneFile'
      BY <1>3, <1>7, <2>1, <2>2, <2>3, PersistIsSafe
    <2>5. QED
      BY <1>3, <2>4 DEF Inv
  <1>8. CASE proc' = [proc EXCEPT ![p] = Moved(q, "resume")]
    <2> DEFINE r == Moved(q, "resume")
    <2>1. q \in Proc /\ Trusted(q.mem) /\ Trusted(q.new) /\ "resume" \in Points
      BY <1>1, <1>2 DEF Points
    <2>2. /\ Consistent(r, segment) /\ r.at = "resume" /\ r.mem = mem /\ r.basis = disk
      BY <1>2, <2>1, MovedIsConsistent
    <2> HIDE DEF r
    <2>3. (~raced => Linked(r, exists, disk)) /\ exists
      BY <1>1, <2>2 DEF Linked
    <2>4. AllConsistent' /\ PairsSawOneFile'
      BY <1>3, <1>8, <2>2, <2>3, OneMoves DEF r
    <2>5. QED
      BY <1>3, <2>4 DEF Inv
  <1>9. QED
    BY <1>4, <1>7, <1>8

\* The same, for a command that has its manifest in hand.
LEMMA PersistOwnIsSafe ==
  ASSUME NEW p, NEW new, NEW then,
         Inv, p \in Procs, Trusted(new), then \in Continuations \ {"encode"},
         Persist(p, new, then), proc[p].at \in Inner,
         new.gen = proc[p].mem.gen + 1,
         \A c \in Chunks :
           new.chunks[c].status = "leased" => new.chunks[c] = proc[p].mem.chunks[c],
         proc[p].mem.state \in PauseStates /\ new.state = "running"
           => proc[p].mem.state = "paused" /\ proc[p].resume,
         exists' = exists, disk' = disk, raced' = raced, segment' = segment
  PROVE  AllConsistent' /\ PairsSawOneFile'
  <1>1. proc' = [proc EXCEPT ![p] = Persisting(proc[p], new, then)]
    BY DEF Persist, Inv, AllConsistent
  <1>2. /\ proc[p] \in Proc /\ exists
        /\ ~raced => proc[p].mem = proc[p].basis
    BY CommandFacts DEF Linked, Inner, Outside
  <1>3. then # "encode" /\ then \in Continuations
    OBVIOUS
  <1>4. QED
    BY <1>1, <1>2, <1>3, PersistIsSafe

\* resume, called by a command that was told to.
LEMMA TryResumeIsSafe ==
  ASSUME Inv, NEW p \in Procs, TryResume(p)
  PROVE  Inv'
  <1> DEFINE mem == proc[p].mem
             N == NextManifest(mem, mem.chunks, "running")
  <1>1. /\ exists' = exists /\ disk' = disk /\ raced' = raced /\ segment' = segment
        /\ FilesTyped' /\ proc[p].at \in Inner
    BY DEF TryResume, clock, rest, Inv, FilesTyped, At, Inner
  <1>2. Trusted(mem)
    BY CommandFacts
  <1>3. CASE mem.state = "paused" /\ proc[p].resume /\ Persist(p, N, "lease")
    <2>1. Trusted(N) /\ N.gen = mem.gen + 1 /\ N.chunks = mem.chunks
      <3> HIDE DEF mem
      <3> QED
        BY <1>2, TrustedInState
    <2>2. "lease" \in Continuations \ {"encode"}
      BY DEF Continuations
    <2> HIDE DEF N
    <2>3. QED
      BY <1>1, <1>3, <2>1, <2>2, PersistOwnIsSafe DEF Inv
  <1>4. CASE Goto(p, "lease")
    BY <1>1, <1>4, GotoIsSafe DEF Inv
  <1>5. QED
    BY <1>3, <1>4 DEF TryResume

\* lease: the chunk in work and the lease are fields of the command.
LEMMA TakeLeaseIsSafe ==
  ASSUME Inv, NEW p \in Procs, TakeLease(p)
  PROVE  Inv'
  <1> DEFINE mem == proc[p].mem
  <1>1. PICK c \in Chunks :
          /\ issued' = [issued EXCEPT ![c] = @ + 1]
          /\ proc' = [proc EXCEPT ![p] =
               [Persisting(@, NextManifest(mem, [Expire(mem.chunks, lapsed) EXCEPT
                                                   ![c] = LeasedRecord(issued'[c])],
                                           "running"), "encode")
                  EXCEPT !.chunk = c, !.lease = issued'[c], !.completion = NoCompletion]]
    BY DEF TakeLease
  <1> DEFINE n == issued[c] + 1
             q == [proc[p] EXCEPT !.chunk = c, !.lease = n, !.completion = NoCompletion]
             N == LeaseManifest(mem, lapsed, c, n)
  <1>2. /\ exists' = exists /\ disk' = disk /\ raced' = raced /\ segment' = segment
        /\ proc[p].at = "lease" /\ mem.state = "running"
        /\ artifact' = artifact /\ sidecar' = sidecar /\ lapsed' = lapsed
        /\ commands' = commands /\ kills' = kills
    BY DEF TakeLease, rest, At
  <1>3. /\ n \in Nat \ {0} /\ issued'[c] = n /\ issued' \in [Chunks -> Nat]
    BY <1>1 DEF Inv, FilesTyped
  <1>4. /\ proc[p] \in Proc /\ Trusted(mem) /\ exists
        /\ ~raced => proc[p].mem = proc[p].basis
    BY <1>2, CommandFacts DEF Linked, Outside
  <1>5. FilesTyped'
    BY <1>2, <1>3 DEF Inv, FilesTyped
  <1>6. /\ q \in Proc /\ q.mem = mem /\ q.resume = proc[p].resume /\ q.basis = proc[p].basis
    BY <1>3, <1>4 DEF Proc
  <1>7. proc' = [proc EXCEPT ![p] = Persisting(q, N, "encode")]
    <2>1. \A new : Persisting(q, new, "encode")
                    = [Persisting(proc[p], new, "encode")
                         EXCEPT !.chunk = c, !.lease = n, !.completion = NoCompletion]
      BY <1>4 DEF Persisting, Proc
    <2>2. QED
      BY <1>1, <1>3, <2>1 DEF LeaseManifest, Inv, AllConsistent
  <1> HIDE DEF q, n, mem
  <1>8. Trusted(N) /\ N.gen = mem.gen + 1 /\ N.state = "running"
    BY <1>3, <1>4, TrustedAfterLease
  <1> HIDE DEF N
  <1>9. "encode" \in Continuations
    BY DEF Continuations
  <1>10. /\ q.mem = proc[p].mem /\ N.gen = q.mem.gen + 1 /\ q.mem.state = "running"
         /\ ~raced => q.mem = q.basis
         /\ q.mem.state \notin PauseStates
    BY <1>2, <1>4, <1>6, <1>8 DEF mem, PauseStates
  <1>11. AllConsistent' /\ PairsSawOneFile'
    BY <1>2, <1>4, <1>6, <1>7, <1>8, <1>9, <1>10, PersistIsSafe
  <1>12. QED
    BY <1>5, <1>11 DEF Inv

\* lease returns nothing; expired leases may be dropped on the way.
LEMMA NoLeaseIsSafe ==
  ASSUME Inv, NEW p \in Procs, NoLease(p)
  PROVE  Inv'
  <1> DEFINE mem == proc[p].mem
             N == ExpireManifest(mem, lapsed)
  <1>1. /\ exists' = exists /\ disk' = disk /\ raced' = raced /\ segment' = segment
        /\ FilesTyped' /\ proc[p].at \in Inner
    BY DEF NoLease, clock, rest, Inv, FilesTyped, At, Inner
  <1>2. Trusted(mem) /\ GoodChunks(mem.chunks)
    BY CommandFacts
  <1>3. CASE mem.state # "running" /\ Persist(p, N, "finish")
    <2>1. /\ Trusted(N) /\ N.gen = mem.gen + 1 /\ N.state = mem.state
          /\ \A c \in Chunks : N.chunks[c].status = "leased" => N.chunks[c] = mem.chunks[c]
      <3> HIDE DEF mem
      <3>1. /\ Trusted(N) /\ N.gen = mem.gen + 1 /\ N.state = mem.state
            /\ N.chunks = Expire(mem.chunks, lapsed)
        BY <1>2, TrustedAfterExpire
      <3> HIDE DEF N
      <3>2. \A c \in Chunks : N.chunks[c] = mem.chunks[c] \/ N.chunks[c] = PendingRecord
        BY <1>2, <3>1, GoodExpire
      <3>3. QED
        BY <3>1, <3>2, BuiltFields
    <2>2. "finish" \in Continuations \ {"encode"}
      BY DEF Continuations
    <2> HIDE DEF N
    <2>3. QED
      BY <1>1, <1>3, <2>1, <2>2, PersistOwnIsSafe DEF Inv
  <1>4. CASE Goto(p, "finish")
    BY <1>1, <1>4, GotoIsSafe DEF Inv
  <1>5. QED
    BY <1>3, <1>4 DEF NoLease, ExpireManifest

\* encode_segment replaces one segment file by a complete one.
LEMMA EncodeIsSafe ==
  ASSUME Inv, NEW p \in Procs, Encode(p)
  PROVE  Inv'
  <1>1. PICK e \in Payloads : segment' = [segment EXCEPT ![proc[p].chunk] = e]
    BY DEF Encode
  <1>2. /\ exists' = exists /\ disk' = disk /\ raced' = raced
        /\ proc[p].at \in Inner /\ Goto(p, "hash")
    BY DEF Encode, clock, rest, At, Inner
  <1>3. proc[p].chunk \in Chunks
    BY CommandFacts
  <1>4. /\ segment' \in [Chunks -> File] /\ segment'[proc[p].chunk] \in Payloads
        /\ \A c \in Chunks : segment'[c] = segment[c] \/ segment'[c] \in Payloads
    BY <1>1, <1>3 DEF Inv, FilesTyped, File
  <1>5. FilesTyped'
    BY <1>4 DEF Encode, clock, rest, Inv, FilesTyped
  <1>6. QED
    BY <1>2, <1>4, <1>5, GotoIsSafe DEF Inv

\* The worker hashes the file it finds under the chunk's name.
LEMMA HashIsSafe ==
  ASSUME Inv, NEW p \in Procs, Hash(p)
  PROVE  Inv'
  <1> DEFINE me == proc[p]
             k == [sha |-> segment[me.chunk], fits |-> TRUE]
             q == [me EXCEPT !.completion = k]
             r == Moved(q, "commit")
  <1>1. /\ exists' = exists /\ disk' = disk /\ raced' = raced /\ segment' = segment
        /\ FilesTyped' /\ me.at = "hash"
    BY DEF Hash, clock, rest, Inv, FilesTyped, At
  <1>2. /\ me \in Proc /\ Trusted(me.mem) /\ Trusted(me.new) /\ segment[me.chunk] \in Payloads
        /\ exists
        /\ ~raced => me.mem = me.basis
    BY <1>1, CommandFacts DEF Consistent, Linked, Outside
  <1>3. q \in Proc /\ q.mem = me.mem /\ q.new = me.new /\ q.basis = me.basis
    BY <1>2 DEF Proc, Completion
  <1>4. proc' = [proc EXCEPT ![p] = r]
    BY <1>2 DEF Hash, Moved, Proc, Inv, AllConsistent
  <1> HIDE DEF q
  <1>5. "commit" \in Points
    BY DEF Points
  <1> HIDE DEF me
  <1>6. Consistent(r, segment) /\ r.at = "commit" /\ r.mem = me.mem /\ r.basis = me.basis
    BY <1>2, <1>3, <1>5, MovedIsConsistent
  <1> HIDE DEF r
  <1>7. ~raced => Linked(r, exists, disk)
    BY <1>2, <1>6 DEF Linked
  <1>8. AllConsistent' /\ PairsSawOneFile'
    BY <1>1, <1>2, <1>4, <1>6, <1>7, OneMoves
  <1>9. QED
    BY <1>1, <1>8 DEF Inv

\* commit: a completion that does not match ends the command.
LEMMA CommitIsSafe ==
  ASSUME Inv, NEW p \in Procs, Commit(p)
  PROVE  Inv'
  <1>1. /\ exists' = exists /\ disk' = disk /\ raced' = raced /\ segment' = segment
        /\ FilesTyped' /\ proc[p].at \in Inner
    BY DEF Commit, clock, rest, Inv, FilesTyped, At, Inner
  <1>2. CASE proc[p].completion \in Exact /\ Goto(p, "sidecar")
    BY <1>1, <1>2, GotoIsSafe DEF Inv
  <1>3. CASE Exit(p, "error")
    BY <1>1, <1>3, ExitIsSafe DEF Inv, Outcomes
  <1>4. QED
    BY <1>2, <1>3 DEF Commit, Fail, SegmentMatches

\* commit: the sidecar is written, and a manifest in which the chunk is complete.
LEMMA WriteSidecarIsSafe ==
  ASSUME Inv, NEW p \in Procs, WriteSidecar(p)
  PROVE  Inv'
  <1> DEFINE mem == proc[p].mem
             c == proc[p].chunk
             n == proc[p].lease
             k == proc[p].completion
             N == CommitManifest(mem, c, n, k)
  <1>1. /\ exists' = exists /\ disk' = disk /\ raced' = raced /\ segment' = segment
        /\ proc[p].at = "sidecar" /\ proc[p].at \in Inner
        /\ sidecar' = [sidecar EXCEPT ![c] = [lease |-> n, completion |-> k]]
        /\ Persist(p, N, "committed")
    BY DEF WriteSidecar, clock, rest, At, Inner, CommitManifest
  <1>2. Trusted(mem) /\ c \in Chunks /\ n \in Nat /\ k \in Exact
    BY <1>1, CommandFacts, ProcFields DEF Consistent
  <1>3. FilesTyped'
    BY <1>1, <1>2 DEF WriteSidecar, clock, rest, Inv, FilesTyped, Sidecar, Exact
  <1> HIDE DEF c, n, k, mem
  <1>4. /\ Trusted(N) /\ N.gen = mem.gen + 1
        /\ N.state = StateAfterCommit(mem.state, N.chunks)
        /\ N.chunks[c] = CompleteRecord(n, k)
        /\ \A d \in Chunks \ {c} : N.chunks[d] = mem.chunks[d]
    BY <1>2, TrustedAfterCommit
  <1> HIDE DEF N
  <1>5. \A d \in Chunks : N.chunks[d].status = "leased" => N.chunks[d] = mem.chunks[d]
    BY <1>4, BuiltFields
  <1>6. mem.state \in PauseStates => N.state # "running"
    BY <1>4 DEF PauseStates, StateAfterCommit
  <1>7. "committed" \in Continuations \ {"encode"}
    BY DEF Continuations
  <1>8. AllConsistent' /\ PairsSawOneFile'
    BY <1>1, <1>4, <1>5, <1>6, <1>7, PersistOwnIsSafe DEF mem
  <1>9. QED
    BY <1>3, <1>8 DEF Inv

\* After a commit: the next round, a pause at the limit, or the refusal of one.
LEMMA CommittedIsSafe ==
  ASSUME Inv, NEW p \in Procs, Committed(p)
  PROVE  Inv'
  <1> DEFINE me == proc[p]
             mem == me.mem
             N == NextManifest(mem, mem.chunks, StateAfterPause(mem.chunks))
             q == [me EXCEPT !.count = @ + 1]
             r == Moved(q, "lease")
  <1>1. /\ exists' = exists /\ disk' = disk /\ raced' = raced /\ segment' = segment
        /\ FilesTyped' /\ me.at = "committed" /\ proc[p].at \in Inner
    BY DEF Committed, clock, rest, Inv, FilesTyped, At, Inner
  <1>2. /\ me \in Proc /\ Trusted(mem) /\ Trusted(me.new) /\ exists
        /\ ~raced => me.mem = me.basis
    BY <1>1, CommandFacts DEF Linked, Outside
  <1>3. CASE proc' = [proc EXCEPT ![p] = r]
    <2>1. q \in Proc /\ q.mem = mem /\ q.new = me.new /\ q.basis = me.basis
      BY <1>2 DEF Proc
    <2>2. "lease" \in Points
      BY DEF Points
    <2> HIDE DEF q, me, mem
    <2>3. Consistent(r, segment) /\ r.at = "lease" /\ r.mem = mem /\ r.basis = me.basis
      BY <1>2, <2>1, <2>2, MovedIsConsistent
    <2>4. ~raced => mem = me.basis
      BY <1>2 DEF mem
    <2> HIDE DEF r
    <2>5. ~raced => Linked(r, exists, disk)
      BY <2>3, <2>4 DEF Linked
    <2>6. AllConsistent' /\ PairsSawOneFile'
      BY <1>1, <1>2, <1>3, <2>3, <2>5, OneMoves
    <2>7. QED
      BY <1>1, <2>6 DEF Inv
  <1>4. CASE Exit(p, "error")
    BY <1>1, <1>4, ExitIsSafe DEF Inv, Outcomes
  <1>5. CASE Persist(p, N, "finish") /\ mem.state = "running"
    <2>1. Trusted(N) /\ N.gen = mem.gen + 1 /\ N.chunks = mem.chunks
      <3>1. StateAfterPause(mem.chunks) \in {"running", "pause_requested", "paused"}
        BY DEF StateAfterPause
      <3> HIDE DEF mem
      <3> QED
        BY <1>2, <3>1, TrustedInState
    <2>2. "finish" \in Continuations \ {"encode"} /\ mem.state \notin PauseStates
      BY <1>5 DEF Continuations, PauseStates
    <2> HIDE DEF N
    <2>3. QED
      BY <1>1, <1>5, <2>1, <2>2, PersistOwnIsSafe DEF Inv
  <1>6. \/ proc' = [proc EXCEPT ![p] = r]
        \/ Exit(p, "error")
        \/ Persist(p, N, "finish") /\ mem.state = "running"
    BY <1>2 DEF Committed, Exit, Persist, Moved, Proc, Inv, AllConsistent
  <1>7. QED
    BY <1>3, <1>4, <1>5, <1>6

\* request_pause.
LEMMA PauseIsSafe ==
  ASSUME Inv, NEW p \in Procs, Pause(p)
  PROVE  Inv'
  <1> DEFINE mem == proc[p].mem
             N == NextManifest(mem, mem.chunks, StateAfterPause(mem.chunks))
  <1>1. /\ exists' = exists /\ disk' = disk /\ raced' = raced /\ segment' = segment
        /\ FilesTyped' /\ proc[p].at \in Inner
    BY DEF Pause, clock, rest, Inv, FilesTyped, At, Inner
  <1>2. Trusted(mem)
    BY CommandFacts
  <1>3. CASE mem.state = "running" /\ Persist(p, N, "finish")
    <2>1. Trusted(N) /\ N.gen = mem.gen + 1 /\ N.chunks = mem.chunks
      <3>1. StateAfterPause(mem.chunks) \in {"running", "pause_requested", "paused"}
        BY DEF StateAfterPause
      <3> HIDE DEF mem
      <3> QED
        BY <1>2, <3>1, TrustedInState
    <2>2. "finish" \in Continuations \ {"encode"} /\ mem.state \notin PauseStates
      BY <1>3 DEF Continuations, PauseStates
    <2> HIDE DEF N
    <2>3. QED
      BY <1>1, <1>3, <2>1, <2>2, PersistOwnIsSafe DEF Inv
  <1>4. CASE Exit(p, "error")
    BY <1>1, <1>4, ExitIsSafe DEF Inv, Outcomes
  <1>5. QED
    BY <1>3, <1>4 DEF Pause, Fail

\* The end of run, the assembly, engvit qa and the comparison of _persist.
LEMMA EndIsSafe ==
  ASSUME Inv, NEW p \in Procs, Finish(p) \/ Concat(p) \/ Qa(p) \/ Compare(p)
  PROVE  Inv'
  <1>1. /\ exists' = exists /\ disk' = disk /\ raced' = raced /\ segment' = segment
        /\ FilesTyped'
    BY DEF Finish, Concat, Qa, Compare, clock, rest, Inv, FilesTyped
  <1>2. proc[p].mem.state \in Outcomes /\ {"complete", "accepted", "error"} \subseteq Outcomes
    BY CommandFacts DEF Outcomes, JobStates
  <1>3. \/ \E outcome \in Outcomes : Exit(p, outcome)
        \/ proc[p].at = "finish" /\ Goto(p, "concat")
        \/ proc[p].at = "compare" /\ disk = proc[p].basis /\ Goto(p, "replace")
    BY <1>2 DEF Finish, Concat, Qa, Compare, Fail, At
  <1>4. CASE \E outcome \in Outcomes : Exit(p, outcome)
    BY <1>1, <1>4, ExitIsSafe DEF Inv
  <1>5. CASE proc[p].at = "finish" /\ Goto(p, "concat")
    BY <1>1, <1>5, GotoIsSafe DEF Inv, Inner
  <1>6. CASE proc[p].at = "compare" /\ disk = proc[p].basis /\ Goto(p, "replace")
    BY <1>1, <1>6, GotoIsSafe DEF Inv, Inner
  <1>7. QED
    BY <1>3, <1>4, <1>5, <1>6

\* A command starts with nothing in hand.
LEMMA BeginIsSafe ==
  ASSUME Inv, NEW p \in Procs, Begin(p)
  PROVE  Inv'
  <1>1. PICK name \in CommandNames \ {"none"}, resume \in BOOLEAN, limit \in Limits :
          proc' = [proc EXCEPT ![p] = [Ended(name, "none") EXCEPT
                                         !.at = "open", !.resume = resume, !.limit = limit]]
    BY DEF Begin
  <1> DEFINE e == Ended(name, "none")
             r == [e EXCEPT !.at = "open", !.resume = resume, !.limit = limit]
  <1>2. Consistent(e, segment)
    BY EndedIsConsistent DEF Outcomes
  <1>3. e \in Proc /\ Trusted(e.mem) /\ Trusted(e.new)
    BY <1>2 DEF Consistent
  <1> HIDE DEF e
  <1>4. r \in Proc /\ r.at = "open" /\ r.mem = e.mem /\ r.new = e.new
    BY <1>3, LimitAssumption DEF Proc, Points
  <1>5. proc' = [proc EXCEPT ![p] = r]
    BY <1>1 DEF e
  <1> HIDE DEF r
  <1>6. Consistent(r, segment) /\ Linked(r, exists, disk) /\ r.at \in Outside
    BY <1>3, <1>4 DEF Consistent, Writing, Linked, Outside
  <1>7. /\ exists' = exists /\ disk' = disk /\ raced' = raced /\ segment' = segment
        /\ FilesTyped'
    BY BoundAssumption DEF Begin, clock, Inv, FilesTyped
  <1>8. AllConsistent' /\ PairsSawOneFile'
    BY <1>5, <1>6, <1>7, OneMoves
  <1>9. QED
    BY <1>7, <1>8 DEF Inv

\* A kill leaves the files as they are.
LEMMA KillIsSafe ==
  ASSUME Inv, NEW p \in Procs, Kill(p)
  PROVE  Inv'
  <1>1. /\ exists' = exists /\ disk' = disk /\ raced' = raced /\ segment' = segment
        /\ Exit(p, "killed") /\ "killed" \in Outcomes
    BY DEF Kill, clock, Outcomes
  <1>2. FilesTyped'
    BY DEF Kill, clock, Inv, FilesTyped
  <1>3. QED
    BY <1>1, <1>2, ExitIsSafe DEF Inv

\* Deadlines pass; nothing else changes.
LEMMA LapseIsSafe ==
  ASSUME Inv, NEW c \in Chunks, Lapse(c)
  PROVE  Inv'
  <1>1. FilesTyped'
    BY DEF Lapse, rest, Inv, FilesTyped
  <1>2. AllConsistent' /\ PairsSawOneFile'
    BY DEF Lapse, rest, Inv, AllConsistent, PairsSawOneFile
  <1>3. QED
    BY <1>1, <1>2 DEF Inv

\* Before the first command there is no manifest and no command is alive.
LEMMA InitInv ==
  ASSUME Init
  PROVE  Inv
  <1>1. FilesTyped
    BY TrustedFirst DEF Init, FilesTyped, File, Sidecar, NoSidecar, NoArtifact
  <1>2. /\ Consistent(Ended("none", "none"), segment)
        /\ \A present, file : Linked(Ended("none", "none"), present, file)
        /\ Ended("none", "none").at \in Outside
    BY EndedIsConsistent DEF CommandNames, Outcomes
  <1> DEFINE e == Ended("none", "none")
  <1>3. proc = [p \in Procs |-> e] /\ e \in Proc
    BY <1>2 DEF Init, Consistent
  <1> HIDE DEF e
  <1>4. AllConsistent
    BY <1>2, <1>3 DEF AllConsistent, e
  <1>5. PairsSawOneFile
    BY <1>2, <1>3 DEF PairsSawOneFile, Init, e
  <1>6. QED
    BY <1>1, <1>4, <1>5 DEF Inv

\* Each step of a command keeps the invariant, whatever the other commands hold.
LEMMA StepInv ==
  ASSUME Inv, NEW p \in Procs, Step(p)
  PROVE  Inv'
  <1>1. CASE Open(p) \/ Identify(p) \/ Reload(p)
    BY <1>1, ConstructionIsSafe
  <1>2. CASE Create(p) \/ Replace(p)
    BY <1>2, CreateIsSafe, ReplaceIsSafe
  <1>3. CASE Decide(p) \/ TryResume(p) \/ TakeLease(p) \/ NoLease(p)
    BY <1>3, DecideIsSafe, TryResumeIsSafe, TakeLeaseIsSafe, NoLeaseIsSafe
  <1>4. CASE Encode(p) \/ Hash(p) \/ Commit(p) \/ WriteSidecar(p) \/ Committed(p)
    BY <1>4, EncodeIsSafe, HashIsSafe, CommitIsSafe, WriteSidecarIsSafe, CommittedIsSafe
  <1>5. CASE Pause(p)
    BY <1>5, PauseIsSafe
  <1>6. CASE Finish(p) \/ Concat(p) \/ Qa(p) \/ Compare(p)
    BY <1>6, EndIsSafe
  <1>7. QED
    BY <1>1, <1>2, <1>3, <1>4, <1>5, <1>6 DEF Step

\* So does each step of the operator and of the clock.
LEMMA NextInv ==
  ASSUME Inv, [Next]_vars
  PROVE  Inv'
  <1>1. ASSUME NEW p \in Procs, Begin(p) \/ Step(p) \/ Kill(p)
        PROVE  Inv'
    BY <1>1, BeginIsSafe, StepInv, KillIsSafe
  <1>2. ASSUME NEW c \in Chunks, Lapse(c)
        PROVE  Inv'
    BY <1>2, LapseIsSafe
  <1>3. CASE UNCHANGED vars
    <2>1. FilesTyped' /\ AllConsistent' /\ PairsSawOneFile'
      BY <1>3 DEF vars, Inv, FilesTyped, AllConsistent, PairsSawOneFile
    <2>2. QED
      BY <2>1 DEF Inv
  <1>4. QED
    BY <1>1, <1>2, <1>3 DEF Next

\* The invariant holds in every state of commands that overlap.
LEMMA Invariance == Spec => []Inv
  <1>1. Init => Inv
    BY InitInv
  <1>2. Inv /\ [Next]_vars => Inv'
    BY NextInv
  <1>3. QED
    BY <1>1, <1>2, PTL DEF Spec
-----------------------------------------------------------------------------
(***************************************************************************)
(* What follows for commands that overlap.                                 *)
(***************************************************************************)

\* Every variable has its type, and no command reads, holds or prepares a
\* manifest that ChunkRecord.state_fields_match would reject, with any number
\* of commands alive and killed.
THEOREM TypeCorrect == Spec => []TypeOK
  <1>1. Inv => TypeOK
    <2> SUFFICES ASSUME Inv
                 PROVE  TypeOK
      OBVIOUS
    <2>1. disk \in Manifest /\ RecordsWellFormed(disk)
      BY DEF Inv, FilesTyped, Trusted, GoodManifest
    <2>2. \A p \in Procs : RecordsWellFormed(proc[p].mem) /\ RecordsWellFormed(proc[p].new)
      BY DEF Inv, AllConsistent, Consistent, Trusted, GoodManifest
    <2>3. QED
      BY <2>1, <2>2 DEF Inv, FilesTyped, AllConsistent, TypeOK, RecordsWellFormed
  <1>2. QED
    BY <1>1, Invariance, PTL

\* A job whose manifest says complete has every chunk complete, whichever
\* commands overwrote each other's generations: each of them writes a manifest
\* that is sound in itself.
THEOREM CompleteJobsAreWhole == Spec => []CompleteMeansAllChunks
  <1>1. Inv => CompleteMeansAllChunks
    BY DEF Inv, FilesTyped, Trusted, Sound, CompleteMeansAllChunks
  <1>2. QED
    BY <1>1, Invariance, PTL

\* The steps that write the manifest file, and what they write.
LEMMA WritesAreReplacements ==
  ASSUME Inv, [Next]_vars, ~raced
  PROVE  \/ disk' = disk
         \/ \E p \in Procs : /\ proc[p].at = "replace"
                             /\ proc[p].mem = disk
                             /\ disk' = proc[p].new
                             /\ Derived(proc[p])
  <1>1. ASSUME NEW p \in Procs, Step(p), disk' # disk
        PROVE  \/ Create(p) \/ Replace(p)
    BY <1>1 DEF Step, Open, Identify, Reload, Decide, TryResume, TakeLease, NoLease, Encode,
       Hash, Commit, WriteSidecar, Committed, Finish, Concat, Pause, Qa, Compare
  <1>2. ASSUME NEW p \in Procs, Create(p)
        PROVE  disk' = disk
    <2>1. Linked(proc[p], exists, disk) /\ proc[p].at = "create"
      BY <1>2, CommandFacts DEF Create, At
    <2>2. ~exists
      BY <2>1 DEF Linked
    <2>3. QED
      BY <1>2, <2>2 DEF Create, Inv, PairsSawOneFile
  <1>3. ASSUME NEW p \in Procs, Replace(p)
        PROVE  /\ proc[p].at = "replace"
               /\ proc[p].mem = disk
               /\ disk' = proc[p].new
               /\ Derived(proc[p])
    <2> DEFINE me == proc[p]
    <2>1. Linked(me, exists, disk) /\ me.at = "replace" /\ Consistent(me, segment)
          /\ disk' = me.new
      BY <1>3, CommandFacts DEF Replace, At
    <2> HIDE DEF me
    <2>2. me.mem = disk /\ Derived(me)
      BY <2>1 DEF Linked, Consistent, Writing
    <2>3. QED
      BY <2>1, <2>2 DEF me
  <1>4. ASSUME NEW p \in Procs, Begin(p) \/ Kill(p)
        PROVE  disk' = disk
    BY <1>4 DEF Begin, Kill
  <1>5. ASSUME NEW c \in Chunks, Lapse(c)
        PROVE  disk' = disk
    BY <1>5 DEF Lapse
  <1>6. CASE UNCHANGED vars
    BY <1>6 DEF vars
  <1>7. QED
    BY <1>1, <1>2, <1>3, <1>4, <1>5, <1>6 DEF Next

\* _persist: as long as no write has fallen between the accesses of another
\* command's pair, each generation is derived from the one it replaces, and the
\* number grows by one: no command undoes what another recorded.
THEOREM NoLostUpdate == Spec => GenerationAdvances
  <1>1. Inv /\ [Next]_vars => [raced \/ disk' = disk \/ disk'.gen = disk.gen + 1]_vars
    <2> SUFFICES ASSUME Inv, [Next]_vars, ~raced, disk' # disk
                 PROVE  disk'.gen = disk.gen + 1
      OBVIOUS
    <2>1. PICK p \in Procs : proc[p].mem = disk /\ disk' = proc[p].new /\ Derived(proc[p])
      BY WritesAreReplacements
    <2>2. QED
      BY <2>1 DEF Derived
  <1>2. QED
    BY <1>1, Invariance, PTL DEF Spec, GenerationAdvances

\* request_pause and resume against every other command: while a pause is
\* recorded no command hands out a chunk, and the job runs again only by a
\* command that was told to resume and found it paused, as long as no write
\* has fallen into another command's pair of accesses.
THEOREM PauseIsRespected == Spec => PauseHolds
  <1> DEFINE PauseKept == ~raced /\ disk.state \in {"pause_requested", "paused"} =>
                /\ \A c \in Chunks : ~NewlyLeased(c)
                /\ disk'.state = "running" =>
                     /\ disk.state = "paused"
                     /\ \E p \in Procs : proc[p].at = "replace" /\ proc[p].resume
  <1>1. Inv /\ [Next]_vars => PauseKept
    <2> SUFFICES ASSUME Inv, [Next]_vars, ~raced, disk.state \in PauseStates
                 PROVE  /\ \A c \in Chunks : ~NewlyLeased(c)
                        /\ disk'.state = "running" =>
                             /\ disk.state = "paused"
                             /\ \E p \in Procs : proc[p].at = "replace" /\ proc[p].resume
      BY DEF PauseStates
    <2>1. CASE disk' = disk
      BY <2>1 DEF NewlyLeased, PauseStates
    <2>2. ASSUME NEW p \in Procs, proc[p].at = "replace", proc[p].mem = disk,
                 disk' = proc[p].new, Derived(proc[p])
          PROVE  /\ \A c \in Chunks : ~NewlyLeased(c)
                 /\ disk'.state = "running" => disk.state = "paused" /\ proc[p].resume
      <3>1. proc[p].then # "encode"
        BY <2>2 DEF Derived, PauseStates
      <3>2. QED
        BY <2>2, <3>1 DEF Derived, NewlyLeased
    <2>3. QED
      BY <2>1, <2>2, WritesAreReplacements
  <1>2. QED
    BY <1>1, Invariance, PTL DEF Spec, PauseHolds
-----------------------------------------------------------------------------
(***************************************************************************)
(* Commands that run one after the other: the operator starts one when the *)
(* one before it has ended or was killed.                                  *)
(***************************************************************************)

OneAtATime ==
  \A p, q \in Procs : proc[p].at # "idle" /\ proc[q].at # "idle" => p = q

\* The segment of a complete record is the one its worker hashed.
Matching(m, seg) ==
  \A c \in Chunks : m.chunks[c].status = "complete"
                      => SegmentMatches(seg[c], m.chunks[c].completion)

\* A sidecar of a chunk in work was written under the lease it is worked on.
SameLease(m, side) ==
  \A c \in Chunks : m.chunks[c].status = "leased" /\ side[c].completion # NoCompletion
                      => side[c].lease = m.chunks[c].lease

\* What sidecars witness is recorded: recover leaves no finished chunk to lease.
Settled(m, side) ==
  \A c \in Chunks : side[c].completion # NoCompletion => m.chunks[c].status = "complete"

\* A sidecar witnesses the segment that is there.
Witnessed(seg, side) ==
  \A c \in Chunks : side[c].completion # NoCompletion => SegmentMatches(seg[c], side[c].completion)

\* A complete record is not touched.
Keeps(m, new) ==
  \A c \in Chunks : m.chunks[c].status = "complete" => new.chunks[c] = m.chunks[c]

\* From the lease to the sidecar.
Working == {"encode", "hash", "commit", "sidecar"}

Recovered == {"resume", "lease", "committed"} \union Working

\* The manifest in preparation, for the point at which the command goes on.
Prepared(r, new, then, seg, side) ==
  /\ Matching(new, seg) /\ SameLease(new, side) /\ Keeps(r.mem, new)
  /\ then # "finish" => Settled(new, side)
  /\ then = "encode" => new.state = "running" /\ HoldsLease(new.chunks[r.chunk], r.lease)
  /\ then = "committed" => new.state \in {"running", "complete"}

\* How far a command is, and what the files say of it.
Progress(r, file, seg, side) ==
  /\ r.at \notin Outside => r.mem = file
  /\ r.at \notin Outside \union {"identify", "decide"} => r.basis = file
  /\ r.at \in Recovered => Settled(r.mem, side)
  /\ r.at \in Working => r.mem.state = "running" /\ HoldsLease(r.mem.chunks[r.chunk], r.lease)
  /\ r.at \in {"commit", "sidecar"} => SegmentMatches(seg[r.chunk], r.completion)
  /\ r.at = "committed" => r.mem.state \in {"running", "complete"}
  /\ r.at = "concat" => AllComplete(file.chunks)
  /\ r.at \in {"pause", "qa"} => r.command # "run"
  /\ Writing(r) => Prepared(r, r.new, r.then, seg, side)

\* What a command reported when it ended.
Reported(r, video) ==
  /\ r.command = "run" => r.outcome # "error"
  /\ r.outcome \in {"complete", "accepted"} => video # NoArtifact

\* The video, if there is one, is the assembly of the segments of a finished job.
VideoIsTheJobs(video, file, seg) ==
  video # NoArtifact => AllComplete(file.chunks) /\ video = seg

FilesAgree ==
  /\ ~raced
  /\ Matching(disk, segment) /\ SameLease(disk, sidecar) /\ Witnessed(segment, sidecar)
  /\ VideoIsTheJobs(artifact, disk, segment)

AllInOrder ==
  \A p \in Procs : /\ Progress(proc[p], disk, segment, sidecar)
                   /\ Reported(proc[p], artifact)

AloneInv == FilesAgree /\ AllInOrder

\* A step of the one command that is alive.
LEMMA OneInOrder ==
  ASSUME NEW p, NEW r,
         AllInOrder, OneAtATime, p \in Procs, proc[p].at # "idle", proc \in [Procs -> Proc],
         proc' = [proc EXCEPT ![p] = r],
         Progress(r, disk', segment', sidecar'), Reported(r, artifact'),
         artifact = NoArtifact \/ artifact' # NoArtifact
  PROVE  AllInOrder'
  <1>1. /\ proc'[p] = r
        /\ \A q \in Procs \ {p} : proc'[q] = proc[q]
    OBVIOUS
  <1>2. ASSUME NEW q \in Procs \ {p}
        PROVE  /\ Progress(proc[q], disk', segment', sidecar')
               /\ Reported(proc[q], artifact')
    <2>1. proc[q].at = "idle"
      BY DEF OneAtATime
    <2>2. Reported(proc[q], artifact')
      BY DEF AllInOrder, Reported
    <2>3. QED
      BY <2>1, <2>2 DEF Progress, Outside, Recovered, Working, Writing
  <1>3. QED
    BY <1>1, <1>2 DEF AllInOrder

\* A step that leaves manifest, segments, sidecars and video as they are.
LEMMA QuietStep ==
  ASSUME NEW p, NEW r,
         AloneInv, OneAtATime, p \in Procs, proc[p].at # "idle", proc \in [Procs -> Proc],
         proc' = [proc EXCEPT ![p] = r],
         Progress(r, disk, segment, sidecar), Reported(r, artifact),
         disk' = disk, segment' = segment, sidecar' = sidecar, artifact' = artifact,
         ~raced'
  PROVE  AloneInv'
  <1>1. AllInOrder'
    BY OneInOrder DEF AloneInv
  <1>2. FilesAgree'
    BY DEF AloneInv, FilesAgree
  <1>3. QED
    BY <1>1, <1>2 DEF AloneInv

\* What a step knows of the command that is alone.
LEMMA AloneFacts ==
  ASSUME NEW p, Inv, AloneInv, p \in Procs
  PROVE  /\ proc \in [Procs -> Proc] /\ proc[p] \in Proc
         /\ Trusted(proc[p].mem) /\ Trusted(proc[p].new) /\ Trusted(disk) /\ disk \in Manifest
         /\ ~raced
         /\ Linked(proc[p], exists, disk)
         /\ Progress(proc[p], disk, segment, sidecar)
         /\ Reported(proc[p], artifact)
         /\ Consistent(proc[p], segment)
         /\ FilesAgree /\ AllInOrder
  BY CommandFacts, TrustedIsManifest DEF AloneInv, FilesAgree, AllInOrder, Inv, AllConsistent

\* A write by the command that is alone falls into nobody's pair of accesses.
LEMMA AloneNeverRaces ==
  ASSUME NEW p, OneAtATime, ~raced, p \in Procs, proc[p].at # "idle", Written(p)
  PROVE  ~raced'
  BY DEF OneAtATime, Written, MidPair

\* Moving to another point changes nothing else, field by field.
LEMMA MovedFields ==
  ASSUME NEW r, NEW a, r \in Proc
  PROVE  /\ Moved(r, a).at = a /\ Moved(r, a).command = r.command
         /\ Moved(r, a).outcome = r.outcome
         /\ Moved(r, a).mem = r.mem /\ Moved(r, a).basis = r.basis
         /\ Moved(r, a).new = r.new /\ Moved(r, a).then = r.then
         /\ Moved(r, a).chunk = r.chunk /\ Moved(r, a).lease = r.lease
         /\ Moved(r, a).completion = r.completion
  BY DEF Proc, Moved

\* _persist sets the point, the manifest to write and what follows.
LEMMA PersistingFields ==
  ASSUME NEW r, NEW new, NEW then, r \in Proc
  PROVE  /\ Persisting(r, new, then).at = "compare"
         /\ Persisting(r, new, then).new = new /\ Persisting(r, new, then).then = then
         /\ Persisting(r, new, then).command = r.command
         /\ Persisting(r, new, then).outcome = r.outcome
         /\ Persisting(r, new, then).mem = r.mem /\ Persisting(r, new, then).basis = r.basis
         /\ Persisting(r, new, then).chunk = r.chunk /\ Persisting(r, new, then).lease = r.lease
  BY DEF Proc, Persisting

\* Reading the manifest sets the memory and the hash to compare with.
LEMMA ReadingFields ==
  ASSUME NEW r, NEW a, NEW m, NEW b, r \in Proc
  PROVE  /\ Reading(r, a, m, b).at = a
         /\ Reading(r, a, m, b).mem = m /\ Reading(r, a, m, b).basis = b
         /\ Reading(r, a, m, b).command = r.command
         /\ Reading(r, a, m, b).outcome = r.outcome
  BY DEF Proc, Reading

\* A command ends: the refusals do not happen to a run, and a video that is
\* reported exists.
LEMMA ExitInOrder ==
  ASSUME NEW p, NEW outcome,
         Inv, AloneInv, OneAtATime, p \in Procs, proc[p].at # "idle", Exit(p, outcome),
         proc[p].command = "run" => outcome # "error",
         outcome \in {"complete", "accepted"} => artifact # NoArtifact,
         disk' = disk, segment' = segment, sidecar' = sidecar, artifact' = artifact,
         raced' = raced
  PROVE  AloneInv'
  <1> DEFINE name == proc[p].command
             r == Ended(name, outcome)
  <1>1. proc \in [Procs -> Proc] /\ ~raced'
    BY AloneFacts
  <1>2. proc' = [proc EXCEPT ![p] = r]
    BY <1>1 DEF Exit
  <1>3. r.at = "idle" /\ r.command = name /\ r.outcome = outcome
    BY DEF Ended
  <1> HIDE DEF r
  <1>4. Progress(r, disk, segment, sidecar) /\ Reported(r, artifact)
    BY <1>3 DEF Progress, Reported, Outside, Recovered, Working, Writing
  <1>5. QED
    BY <1>1, <1>2, <1>4, QuietStep

\* _persist prepares the next generation.
LEMMA PersistInOrder ==
  ASSUME NEW p, NEW q, NEW new, NEW then,
         Inv, AloneInv, OneAtATime, p \in Procs, proc[p].at # "idle",
         q \in Proc, q.mem = disk, q.basis = disk,
         q.command = proc[p].command, q.outcome = proc[p].outcome,
         proc' = [proc EXCEPT ![p] = Persisting(q, new, then)],
         Prepared(q, new, then, segment, sidecar),
         disk' = disk, segment' = segment, sidecar' = sidecar, artifact' = artifact,
         raced' = raced
  PROVE  AloneInv'
  <1> DEFINE r == Persisting(q, new, then)
  <1>1. proc \in [Procs -> Proc] /\ Reported(proc[p], artifact) /\ ~raced'
    BY AloneFacts
  <1>2. /\ r.at = "compare" /\ r.new = new /\ r.then = then
        /\ r.command = q.command /\ r.outcome = q.outcome /\ r.mem = q.mem /\ r.basis = q.basis
        /\ r.chunk = q.chunk /\ r.lease = q.lease
    BY PersistingFields
  <1>3. proc' = [proc EXCEPT ![p] = r]
    OBVIOUS
  <1> HIDE DEF r
  <1>4. Prepared(r, r.new, r.then, segment, sidecar)
    BY <1>2 DEF Prepared
  <1>5. Progress(r, disk, segment, sidecar)
    BY <1>2, <1>4 DEF Progress, Outside, Recovered, Working
  <1>6. Reported(r, artifact)
    BY <1>1, <1>2 DEF Reported
  <1>7. QED
    BY <1>1, <1>3, <1>5, <1>6, QuietStep

\* Construction of the Coordinator: the manifest and its hash are read from one
\* file, and so are the ones that recover reads.
LEMMA ConstructionInOrder ==
  ASSUME NEW p, Inv, AloneInv, OneAtATime, p \in Procs,
         Open(p) \/ Identify(p) \/ Reload(p) \/ Create(p)
  PROVE  AloneInv'
  <1> DEFINE me == proc[p]
             m0 == me.mem
             b == me.basis
             first == FirstPoint(me.command)
  <1>1. /\ proc \in [Procs -> Proc] /\ me \in Proc /\ ~raced
        /\ Progress(me, disk, segment, sidecar) /\ Reported(me, artifact)
        /\ Linked(me, exists, disk)
    BY AloneFacts
  <1>2. PICK a, m, k :
          /\ me.at # "idle"
          /\ proc' = [proc EXCEPT ![p] = Reading(me, a, m, k)]
          /\ \/ a = "create"
             \/ a = "identify" /\ m = disk
             \/ me.at \in {"identify", "create"} /\ a = first /\ m = disk /\ k = disk
             \/ a = "decide" /\ m = disk
          /\ disk' = disk
    <2>1. CASE Open(p)
      <3>1. proc' = [proc EXCEPT ![p] = Reading(me, IF exists THEN "identify" ELSE "create",
                                                IF exists THEN disk ELSE m0, b)]
        BY <1>1, <2>1 DEF Open, Proc, Reading
      <3>2. me.at # "idle" /\ disk' = disk
        BY <2>1 DEF Open, At
      <3> HIDE DEF me, m0, b
      <3>3. QED
        BY <3>1, <3>2
    <2>2. CASE Identify(p)
      <3>1. proc' = [proc EXCEPT ![p] = Reading(me, first, m0, disk)]
        BY <1>1, <2>2 DEF Identify, Proc, Reading
      <3>2. me.at = "identify" /\ disk' = disk
        BY <2>2 DEF Identify, At
      <3> HIDE DEF me, first
      <3>3. m0 = disk
        BY <1>1, <3>2 DEF Progress, Outside
      <3> HIDE DEF m0
      <3>4. QED
        BY <3>1, <3>2, <3>3
    <2>3. CASE Reload(p)
      <3>1. proc' = [proc EXCEPT ![p] = Reading(me, "decide", disk, b)]
        BY <1>1, <2>3 DEF Reload, Proc, Reading
      <3>2. me.at # "idle" /\ disk' = disk
        BY <2>3 DEF Reload, At
      <3> HIDE DEF me, b
      <3>3. QED
        BY <3>1, <3>2
    <2>4. CASE Create(p)
      <3>1. proc' = [proc EXCEPT ![p] = Reading(me, first, FirstManifest, FirstManifest)]
        BY <1>1, <2>4 DEF Create, Proc, Reading
      <3>2. me.at = "create" /\ disk' = FirstManifest
        BY <2>4 DEF Create, At
      <3> HIDE DEF me, first
      <3>3. disk = FirstManifest
        BY <1>1, <3>2 DEF Linked, Inv, PairsSawOneFile
      <3>4. QED
        BY <3>1, <3>2, <3>3
    <2>5. QED
      BY <2>1, <2>2, <2>3, <2>4
  <1>3. segment' = segment /\ sidecar' = sidecar /\ artifact' = artifact /\ ~raced'
    <2>1. Create(p) => ~raced'
      BY <1>1, <1>2, AloneNeverRaces DEF Create
    <2>2. QED
      BY <1>1, <2>1 DEF Open, Identify, Reload, Create, rest
  <1>4. first \in {"reload", "pause", "qa"} /\ (me.command = "run" => first = "reload")
    BY DEF FirstPoint
  <1> DEFINE r == Reading(me, a, m, k)
  <1> HIDE DEF me, first
  <1>5. /\ r.at = a /\ r.mem = m /\ r.basis = k
        /\ r.command = me.command /\ r.outcome = me.outcome
    BY <1>1, ReadingFields
  <1> HIDE DEF r
  <1>6. Progress(r, disk, segment, sidecar) /\ Reported(r, artifact)
    BY <1>1, <1>2, <1>4, <1>5
       DEF Progress, Reported, Outside, Recovered, Working, Writing
  <1>7. proc[p].at # "idle" /\ proc' = [proc EXCEPT ![p] = r]
    BY <1>2 DEF r, me
  <1>8. QED
    BY <1>1, <1>2, <1>3, <1>6, <1>7, QuietStep

-----------------------------------------------------------------------------
\* recover finds the work that was finished: what a sidecar witnesses becomes
\* complete, and a complete record whose segment matches stays as it is.
LEMMA RecoveredRecords ==
  ASSUME NEW m, NEW bound, NEW seg, NEW side, NEW c,
         GoodChunks(m.chunks), Matching(m, seg), SameLease(m, side), Witnessed(seg, side),
         c \in Chunks
  PROVE  /\ side[c].completion # NoCompletion
              => RecoveredChunks(m.chunks, bound, seg, side)[c].status = "complete"
         /\ RecoveredChunks(m.chunks, bound, seg, side)[c].status = "complete"
              => SegmentMatches(seg[c], RecoveredChunks(m.chunks, bound, seg, side)[c].completion)
         /\ m.chunks[c].status = "complete"
              => RecoveredChunks(m.chunks, bound, seg, side)[c] = m.chunks[c]
  <1> DEFINE r == m.chunks[c]
             e == Expire(m.chunks, bound)[c]
             v == Revalidate(e, seg[c])
             R == Repair(v, seg[c], side[c])
  <1>1. RecoveredChunks(m.chunks, bound, seg, side)[c] = R
    BY DEF RecoveredChunks
  <1>2. /\ r.status = "complete" => SegmentMatches(seg[c], r.completion)
        /\ r.status = "leased" /\ side[c].completion # NoCompletion => side[c].lease = r.lease
        /\ side[c].completion # NoCompletion => SegmentMatches(seg[c], side[c].completion)
    BY DEF Matching, SameLease, Witnessed
  <1>3. e = r \/ (r.status = "leased" /\ e.status = "pending")
    BY GoodExpire, BuiltFields
  <1> HIDE DEF r, e
  <1>4. e.status = "complete" => e = r
    BY <1>3
  <1>5. v = e
    BY <1>2, <1>4 DEF Revalidate
  <1> HIDE DEF v
  <1>6. CASE R = CompleteRecord(side[c].lease, side[c].completion)
             /\ SegmentMatches(seg[c], side[c].completion) /\ v.status # "complete"
    BY <1>1, <1>2, <1>3, <1>5, <1>6, BuiltFields DEF r
  <1>7. CASE /\ R = v
             /\ \/ v.status = "complete"
                \/ side[c].completion = NoCompletion
                \/ v.status = "leased" /\ ~HoldsLease(v, side[c].lease)
                \/ ~SegmentMatches(seg[c], side[c].completion)
    <2>1. side[c].completion # NoCompletion => v.status = "complete"
      BY <1>2, <1>3, <1>5, <1>7 DEF HoldsLease
    <2>2. QED
      BY <1>1, <1>2, <1>3, <1>5, <1>7, <2>1 DEF r
  <1>8. QED
    BY <1>6, <1>7 DEF Repair

\* recover, run by the command that is alone.
LEMMA DecideInOrder ==
  ASSUME NEW p, Inv, AloneInv, OneAtATime, p \in Procs, Decide(p)
  PROVE  AloneInv'
  <1> DEFINE me == proc[p]
             mem == me.mem
             R == RecoveredChunks(mem.chunks, lapsed, segment, sidecar)
             s == StateAfterRecover(mem.state, R)
             N == NextManifest(mem, R, s)
             q == [me EXCEPT !.basis = disk]
             r == Moved(q, "resume")
  <1>1. /\ proc \in [Procs -> Proc] /\ me \in Proc /\ disk \in Manifest /\ ~raced
        /\ me.at = "decide" /\ proc[p].at # "idle"
        /\ Progress(me, disk, segment, sidecar) /\ Reported(me, artifact)
        /\ Trusted(mem) /\ FilesAgree
    BY AloneFacts DEF Decide, At
  <1>2. disk' = disk /\ segment' = segment /\ sidecar' = sidecar /\ artifact' = artifact
        /\ raced' = raced
    BY DEF Decide, rest
  <1>3. \/ proc' = [proc EXCEPT ![p] = Persisting(q, N, "resume")]
        \/ proc' = [proc EXCEPT ![p] = r] /\ R = mem.chunks
    BY DEF Decide, Moved
  <1>4. /\ q \in Proc /\ q.mem = mem /\ q.basis = disk
        /\ q.command = me.command /\ q.outcome = me.outcome
    BY <1>1 DEF Proc
  <1>5. mem = disk
    <2> HIDE DEF mem
    <2>1. me.mem = disk
      BY <1>1 DEF Progress, Outside
    <2>2. QED
      BY <2>1 DEF mem
  <1> HIDE DEF me, mem, q
  <1>6. \A c \in Chunks :
           /\ sidecar[c].completion # NoCompletion => R[c].status = "complete"
           /\ R[c].status = "complete" => SegmentMatches(segment[c], R[c].completion)
           /\ mem.chunks[c].status = "complete" => R[c] = mem.chunks[c]
    <2>1. /\ GoodChunks(mem.chunks) /\ Matching(mem, segment) /\ SameLease(mem, sidecar)
          /\ Witnessed(segment, sidecar)
      BY <1>1, <1>5, GoodManifestFields DEF FilesAgree, Trusted
    <2> HIDE DEF R
    <2>2. \A c \in Chunks : R[c] = RecoveredChunks(mem.chunks, lapsed, segment, sidecar)[c]
      BY DEF R
    <2>3. QED
      BY <2>1, <2>2, RecoveredRecords
  <1>7. N.chunks = R
    BY DEF NextManifest
  <1> HIDE DEF N
  <1>8. Prepared(q, N, "resume", segment, sidecar)
    <2> HIDE DEF R
    <2> QED
      BY <1>4, <1>6, <1>7 DEF Prepared, Matching, SameLease, Settled, Keeps
  <1>9. CASE proc' = [proc EXCEPT ![p] = Persisting(q, N, "resume")]
    <2>1. q.mem = disk /\ q.command = proc[p].command /\ q.outcome = proc[p].outcome
      BY <1>4, <1>5 DEF me
    <2>2. QED
      BY <1>1, <1>2, <1>4, <1>8, <1>9, <2>1, PersistInOrder
  <1>10. CASE proc' = [proc EXCEPT ![p] = r] /\ R = mem.chunks
    <2>1. Settled(mem, sidecar)
      BY <1>6, <1>10 DEF Settled
    <2>2. /\ r.at = "resume" /\ r.mem = disk /\ r.basis = disk
          /\ r.command = me.command /\ r.outcome = me.outcome
      BY <1>4, <1>5, MovedFields
    <2> HIDE DEF r
    <2>3. Progress(r, disk, segment, sidecar) /\ Reported(r, artifact)
      BY <1>1, <1>5, <2>1, <2>2
         DEF Progress, Reported, Outside, Recovered, Working, Writing
    <2>4. QED
      BY <1>1, <1>2, <1>10, <2>3, QuietStep
  <1>11. QED
    BY <1>3, <1>9, <1>10

\* A command that goes on to another point with what it holds.
LEMMA GotoInOrder ==
  ASSUME NEW p, NEW a,
         Inv, AloneInv, OneAtATime, p \in Procs, proc[p].at # "idle", Goto(p, a),
         Progress(Moved(proc[p], a), disk, segment, sidecar),
         disk' = disk, segment' = segment, sidecar' = sidecar, artifact' = artifact,
         raced' = raced
  PROVE  AloneInv'
  <1> DEFINE me == proc[p]
             r == Moved(me, a)
  <1>1. proc \in [Procs -> Proc] /\ me \in Proc /\ Reported(me, artifact) /\ ~raced'
    BY AloneFacts
  <1>2. proc' = [proc EXCEPT ![p] = r]
    BY <1>1 DEF Goto, Moved
  <1> HIDE DEF me
  <1>3. r.command = me.command /\ r.outcome = me.outcome
    BY <1>1, MovedFields
  <1> HIDE DEF r
  <1>4. Reported(r, artifact)
    BY <1>1, <1>3 DEF Reported
  <1>5. Progress(r, disk, segment, sidecar)
    BY DEF r, me
  <1>6. QED
    BY <1>1, <1>2, <1>4, <1>5, QuietStep

\* The records of the manifest a command holds are kept in the next generation.
LEMMA SameChunksPrepared ==
  ASSUME NEW r, NEW new, NEW then, NEW seg, NEW side,
         Matching(r.mem, seg), SameLease(r.mem, side),
         then # "finish" => Settled(r.mem, side),
         then \in {"lease", "finish"},
         new.chunks = r.mem.chunks
  PROVE  Prepared(r, new, then, seg, side)
  BY DEF Prepared, Matching, SameLease, Settled, Keeps

\* The job is resumed, or it is not.
LEMMA TryResumeInOrder ==
  ASSUME NEW p, Inv, AloneInv, OneAtATime, p \in Procs, TryResume(p)
  PROVE  AloneInv'
  <1> DEFINE me == proc[p]
             N == NextManifest(me.mem, me.mem.chunks, "running")
             r == Moved(me, "lease")
  <1>1. /\ proc \in [Procs -> Proc] /\ me \in Proc
        /\ me.at = "resume" /\ proc[p].at # "idle"
        /\ Progress(me, disk, segment, sidecar) /\ FilesAgree
    BY AloneFacts DEF TryResume, At
  <1>2. disk' = disk /\ segment' = segment /\ sidecar' = sidecar /\ artifact' = artifact
        /\ raced' = raced
    BY DEF TryResume, rest
  <1>3. \/ proc' = [proc EXCEPT ![p] = Persisting(me, N, "lease")]
        \/ Goto(p, "lease")
    BY <1>1 DEF TryResume, Persist
  <1>4. N.chunks = me.mem.chunks
    BY DEF NextManifest
  <1> HIDE DEF N
  <1>5. CASE proc' = [proc EXCEPT ![p] = Persisting(me, N, "lease")]
    <2> HIDE DEF me
    <2>1. me.mem = disk /\ me.basis = disk /\ Settled(me.mem, sidecar)
      BY <1>1 DEF Progress, Outside, Recovered
    <2>2. Prepared(me, N, "lease", segment, sidecar)
      BY <1>1, <1>4, <2>1, SameChunksPrepared DEF FilesAgree
    <2>3. QED
      BY <1>1, <1>2, <1>5, <2>1, <2>2, PersistInOrder DEF me
  <1>6. CASE Goto(p, "lease")
    <2> HIDE DEF me
    <2>1. /\ r.at = "lease" /\ r.mem = me.mem /\ r.basis = me.basis
      BY <1>1, MovedFields
    <2> HIDE DEF r
    <2>2. Progress(r, disk, segment, sidecar)
      BY <1>1, <2>1 DEF Progress, Outside, Recovered, Working, Writing
    <2>3. QED
      BY <1>1, <1>2, <1>6, <2>2, GotoInOrder DEF r, me
  <1>7. QED
    BY <1>3, <1>5, <1>6

\* A chunk is handed out: it is pending, so no sidecar witnesses that it is done.
LEMMA TakeLeaseInOrder ==
  ASSUME NEW p, Inv, AloneInv, OneAtATime, p \in Procs, TakeLease(p)
  PROVE  AloneInv'
  <1> DEFINE me == proc[p]
             mem == me.mem
             E == Expire(mem.chunks, lapsed)
  <1>1. PICK c \in Chunks :
          /\ IsFirstPending(E, c)
          /\ issued' = [issued EXCEPT ![c] = @ + 1]
          /\ proc' = [proc EXCEPT ![p] =
               [Persisting(@, NextManifest(mem, [E EXCEPT ![c] = LeasedRecord(issued'[c])],
                                           "running"), "encode")
                  EXCEPT !.chunk = c, !.lease = issued'[c], !.completion = NoCompletion]]
    BY DEF TakeLease
  <1> DEFINE n == issued[c] + 1
             q == [me EXCEPT !.chunk = c, !.lease = n, !.completion = NoCompletion]
             N == LeaseManifest(mem, lapsed, c, n)
  <1>2. /\ proc \in [Procs -> Proc] /\ me \in Proc
        /\ me.at = "lease" /\ proc[p].at # "idle"
        /\ Progress(me, disk, segment, sidecar) /\ FilesAgree
        /\ Trusted(mem) /\ GoodChunks(mem.chunks)
    BY AloneFacts, CommandFacts DEF TakeLease, At
  <1>3. disk' = disk /\ segment' = segment /\ sidecar' = sidecar /\ artifact' = artifact
        /\ raced' = raced
    BY DEF TakeLease, rest
  <1>4. n \in Nat \ {0} /\ issued'[c] = n
    BY <1>1 DEF Inv, FilesTyped
  <1>5. /\ q \in Proc /\ q.mem = mem /\ q.basis = me.basis /\ q.chunk = c /\ q.lease = n
        /\ q.command = me.command /\ q.outcome = me.outcome
    BY <1>2, <1>4 DEF Proc
  <1>6. proc' = [proc EXCEPT ![p] = Persisting(q, N, "encode")]
    <2>1. \A new : Persisting(q, new, "encode")
                    = [Persisting(me, new, "encode")
                         EXCEPT !.chunk = c, !.lease = n, !.completion = NoCompletion]
      BY <1>2 DEF Persisting, Proc
    <2>2. QED
      BY <1>1, <1>2, <1>4, <2>1 DEF LeaseManifest
  <1> HIDE DEF q, n, me
  <1>7. mem = disk /\ me.basis = disk /\ Settled(mem, sidecar)
    BY <1>2 DEF Progress, Outside, Recovered
  <1> HIDE DEF mem
  <1>8. /\ N.state = "running"
        /\ N.chunks[c] = LeasedRecord(n)
        /\ \A d \in Chunks \ {c} : N.chunks[d] = E[d]
    BY <1>2, <1>4, TrustedAfterLease
  <1> HIDE DEF N
  <1>9. \A d \in Chunks : \/ E[d] = mem.chunks[d]
                          \/ mem.chunks[d].status = "leased" /\ E[d] = PendingRecord
    BY <1>2, GoodExpire
  <1> HIDE DEF E
  <1>10. E[c].status = "pending"
    BY <1>1 DEF IsFirstPending
  <1>11. \A d \in Chunks : mem.chunks[d].status = "complete"
                             => d # c /\ N.chunks[d] = mem.chunks[d]
    BY <1>8, <1>9, <1>10
  <1>12. \A d \in Chunks : N.chunks[d].status = "complete" => N.chunks[d] = mem.chunks[d]
    BY <1>8, <1>9, BuiltFields
  <1>13. Settled(N, sidecar)
    BY <1>7, <1>11 DEF Settled
  <1>14. Matching(N, segment) /\ Keeps(mem, N) /\ SameLease(N, sidecar)
    BY <1>2, <1>7, <1>11, <1>12, <1>13 DEF FilesAgree, Matching, Keeps, SameLease, Settled
  <1>15. HoldsLease(N.chunks[c], n)
    BY <1>8, BuiltFields DEF HoldsLease
  <1>16. Prepared(q, N, "encode", segment, sidecar)
    BY <1>5, <1>8, <1>13, <1>14, <1>15 DEF Prepared
  <1>17. q.mem = disk /\ q.basis = disk /\ q.command = proc[p].command
         /\ q.outcome = proc[p].outcome
    BY <1>5, <1>7 DEF me
  <1>18. QED
    BY <1>2, <1>3, <1>5, <1>6, <1>16, <1>17, PersistInOrder

\* lease returns nothing.
LEMMA NoLeaseInOrder ==
  ASSUME NEW p, Inv, AloneInv, OneAtATime, p \in Procs, NoLease(p)
  PROVE  AloneInv'
  <1> DEFINE me == proc[p]
             N == ExpireManifest(me.mem, lapsed)
             r == Moved(me, "finish")
  <1>1. /\ proc \in [Procs -> Proc] /\ me \in Proc
        /\ me.at = "lease" /\ proc[p].at # "idle"
        /\ Progress(me, disk, segment, sidecar) /\ FilesAgree
        /\ Trusted(me.mem) /\ GoodChunks(me.mem.chunks)
    BY AloneFacts, CommandFacts DEF NoLease, At
  <1>2. disk' = disk /\ segment' = segment /\ sidecar' = sidecar /\ artifact' = artifact
        /\ raced' = raced
    BY DEF NoLease, rest
  <1>3. \/ proc' = [proc EXCEPT ![p] = Persisting(me, N, "finish")]
        \/ Goto(p, "finish")
    BY <1>1 DEF NoLease, Persist, ExpireManifest
  <1> HIDE DEF me
  <1>4. me.mem = disk /\ me.basis = disk
    BY <1>1 DEF Progress, Outside
  <1>5. CASE proc' = [proc EXCEPT ![p] = Persisting(me, N, "finish")]
    <2>1. N.chunks = Expire(me.mem.chunks, lapsed)
      BY <1>1, TrustedAfterExpire
    <2>2. \A d \in Chunks : \/ N.chunks[d] = me.mem.chunks[d]
                            \/ /\ me.mem.chunks[d].status = "leased"
                               /\ N.chunks[d] = PendingRecord
      BY <1>1, <2>1, GoodExpire
    <2> HIDE DEF N
    <2>3. Matching(N, segment) /\ Keeps(me.mem, N) /\ SameLease(N, sidecar)
      BY <1>1, <1>4, <2>2, BuiltFields DEF FilesAgree, Matching, Keeps, SameLease
    <2>4. Prepared(me, N, "finish", segment, sidecar)
      BY <2>3 DEF Prepared
    <2>5. QED
      BY <1>1, <1>2, <1>4, <1>5, <2>4, PersistInOrder DEF me
  <1>6. CASE Goto(p, "finish")
    <2>1. r.at = "finish" /\ r.mem = me.mem /\ r.basis = me.basis
      BY <1>1, MovedFields
    <2> HIDE DEF r
    <2>2. Progress(r, disk, segment, sidecar)
      BY <1>4, <2>1 DEF Progress, Outside, Recovered, Working, Writing
    <2>3. QED
      BY <1>1, <1>2, <1>6, <2>2, GotoInOrder DEF r, me
  <1>7. QED
    BY <1>3, <1>5, <1>6

\* The chunk in work is not complete, so neither sidecar nor video speak of it.
LEMMA EncodeInOrder ==
  ASSUME NEW p, Inv, AloneInv, OneAtATime, p \in Procs, Encode(p)
  PROVE  AloneInv'
  <1> DEFINE me == proc[p]
             c == me.chunk
             r == Moved(me, "hash")
  <1>1. PICK e \in Payloads : segment' = [segment EXCEPT ![c] = e]
    BY DEF Encode
  <1>2. /\ proc \in [Procs -> Proc] /\ me \in Proc
        /\ me.at = "encode" /\ proc[p].at # "idle" /\ ~raced
        /\ Progress(me, disk, segment, sidecar) /\ Reported(me, artifact)
        /\ FilesAgree /\ AllInOrder /\ c \in Chunks
    BY AloneFacts, CommandFacts DEF Encode, At
  <1>3. /\ disk' = disk /\ sidecar' = sidecar /\ artifact' = artifact /\ raced' = raced
        /\ proc' = [proc EXCEPT ![p] = r]
    BY <1>2 DEF Encode, rest, Goto, Moved
  <1>4. segment' \in [Chunks -> File] /\ \A d \in Chunks \ {c} : segment'[d] = segment[d]
    BY <1>1, <1>2 DEF Inv, FilesTyped, File
  <1> HIDE DEF me
  <1>5. /\ me.mem = disk /\ me.basis = disk /\ Settled(me.mem, sidecar)
        /\ me.mem.state = "running" /\ HoldsLease(me.mem.chunks[c], me.lease)
    BY <1>2 DEF Progress, Outside, Recovered, Working
  <1>6. disk.chunks[c].status = "leased" /\ sidecar[c].completion = NoCompletion
    BY <1>2, <1>5 DEF HoldsLease, Settled
  <1>7. r.at = "hash" /\ r.mem = me.mem /\ r.basis = me.basis /\ r.chunk = c
        /\ r.lease = me.lease /\ r.command = me.command /\ r.outcome = me.outcome
    BY <1>2, MovedFields
  <1> HIDE DEF r, c
  <1>8. Progress(r, disk, segment', sidecar) /\ Reported(r, artifact)
    BY <1>2, <1>5, <1>7 DEF Progress, Reported, Outside, Recovered, Working, Writing
  <1>9. AllInOrder'
    BY <1>2, <1>3, <1>8, OneInOrder
  <1>10. Matching(disk, segment')
    BY <1>2, <1>4, <1>6 DEF FilesAgree, Matching
  <1>11. Witnessed(segment', sidecar)
    BY <1>2, <1>4, <1>6 DEF FilesAgree, Witnessed
  <1>12. ~AllComplete(disk.chunks)
    BY <1>2, <1>6 DEF AllComplete
  <1>13. FilesAgree'
    BY <1>2, <1>3, <1>10, <1>11, <1>12 DEF FilesAgree, VideoIsTheJobs
  <1>14. QED
    BY <1>9, <1>13 DEF AloneInv

\* The worker hashes the file that it published: nobody replaced it since.
LEMMA HashInOrder ==
  ASSUME NEW p, Inv, AloneInv, OneAtATime, p \in Procs, Hash(p)
  PROVE  AloneInv'
  <1> DEFINE me == proc[p]
             k == [sha |-> segment[me.chunk], fits |-> TRUE]
             q == [me EXCEPT !.completion = k]
             r == Moved(q, "commit")
  <1>1. /\ proc \in [Procs -> Proc] /\ me \in Proc
        /\ me.at = "hash" /\ proc[p].at # "idle" /\ ~raced
        /\ Progress(me, disk, segment, sidecar) /\ Reported(me, artifact)
        /\ segment[me.chunk] \in Payloads
    BY AloneFacts DEF Hash, At, Consistent
  <1>2. disk' = disk /\ segment' = segment /\ sidecar' = sidecar /\ artifact' = artifact
        /\ raced' = raced
    BY DEF Hash, rest
  <1>3. /\ q \in Proc /\ q.mem = me.mem /\ q.basis = me.basis /\ q.chunk = me.chunk
        /\ q.lease = me.lease /\ q.completion = k
        /\ q.command = me.command /\ q.outcome = me.outcome
    BY <1>1 DEF Proc, Completion
  <1>4. proc' = [proc EXCEPT ![p] = r]
    BY <1>1 DEF Hash, Moved, Proc
  <1>5. SegmentMatches(segment[me.chunk], k)
    BY <1>1 DEF SegmentMatches, Exact, Completion
  <1> HIDE DEF q, k, me
  <1>6. /\ r.at = "commit" /\ r.mem = me.mem /\ r.basis = me.basis /\ r.chunk = me.chunk
        /\ r.lease = me.lease /\ r.completion = k
        /\ r.command = me.command /\ r.outcome = me.outcome
    BY <1>3, MovedFields
  <1> HIDE DEF r
  <1>7. Progress(r, disk, segment, sidecar) /\ Reported(r, artifact)
    BY <1>1, <1>5, <1>6 DEF Progress, Reported, Outside, Recovered, Working, Writing
  <1>8. QED
    BY <1>1, <1>2, <1>4, <1>7, QuietStep

\* commit is not refused.
LEMMA CommitInOrder ==
  ASSUME NEW p, Inv, AloneInv, OneAtATime, p \in Procs, Commit(p)
  PROVE  AloneInv'
  <1> DEFINE me == proc[p]
             r == Moved(me, "sidecar")
  <1>1. /\ proc \in [Procs -> Proc] /\ me \in Proc
        /\ me.at = "commit" /\ proc[p].at # "idle"
        /\ Progress(me, disk, segment, sidecar)
    BY AloneFacts DEF Commit, At
  <1>2. disk' = disk /\ segment' = segment /\ sidecar' = sidecar /\ artifact' = artifact
        /\ raced' = raced
    BY DEF Commit, rest
  <1>3. HoldsLease(me.mem.chunks[me.chunk], me.lease)
        /\ SegmentMatches(segment[me.chunk], me.completion)
    <2> HIDE DEF me
    <2> QED
      BY <1>1 DEF Progress, Working
  <1>4. Goto(p, "sidecar")
    BY <1>3 DEF Commit
  <1> HIDE DEF me
  <1>5. /\ r.at = "sidecar" /\ r.mem = me.mem /\ r.basis = me.basis /\ r.chunk = me.chunk
        /\ r.lease = me.lease /\ r.completion = me.completion
    BY <1>1, MovedFields
  <1> HIDE DEF r
  <1>6. Progress(r, disk, segment, sidecar)
    BY <1>1, <1>5 DEF Progress, Outside, Recovered, Working, Writing
  <1>7. QED
    BY <1>1, <1>2, <1>4, <1>6, GotoInOrder DEF r, me

\* The sidecar witnesses the segment that is there, under the lease that the
\* manifest records.
LEMMA WriteSidecarInOrder ==
  ASSUME NEW p, Inv, AloneInv, OneAtATime, p \in Procs, WriteSidecar(p)
  PROVE  AloneInv'
  <1> DEFINE me == proc[p]
             c == me.chunk
             n == me.lease
             k == me.completion
             N == CommitManifest(me.mem, c, n, k)
             r == Persisting(me, N, "committed")
  <1>1. /\ proc \in [Procs -> Proc] /\ me \in Proc
        /\ me.at = "sidecar" /\ proc[p].at # "idle" /\ ~raced
        /\ Progress(me, disk, segment, sidecar) /\ Reported(me, artifact)
        /\ FilesAgree /\ AllInOrder /\ c \in Chunks /\ n \in Nat /\ k \in Exact /\ Trusted(me.mem)
    BY AloneFacts, CommandFacts, ProcFields DEF WriteSidecar, At, Consistent
  <1>2. /\ disk' = disk /\ segment' = segment /\ artifact' = artifact /\ raced' = raced
        /\ sidecar' = [sidecar EXCEPT ![c] = [lease |-> n, completion |-> k]]
        /\ proc' = [proc EXCEPT ![p] = r]
    BY <1>1 DEF WriteSidecar, rest, Persist, CommitManifest
  <1>3. /\ sidecar'[c].lease = n /\ sidecar'[c].completion = k
        /\ \A d \in Chunks \ {c} : sidecar'[d] = sidecar[d]
    BY <1>1, <1>2 DEF Inv, FilesTyped
  <1> HIDE DEF me
  <1>4. /\ me.mem = disk /\ me.basis = disk /\ Settled(me.mem, sidecar)
        /\ me.mem.state = "running" /\ HoldsLease(me.mem.chunks[c], n)
        /\ SegmentMatches(segment[c], k)
    BY <1>1 DEF Progress, Outside, Recovered, Working
  <1> HIDE DEF c, n, k
  <1>5. /\ N.state = StateAfterCommit(me.mem.state, N.chunks)
        /\ N.chunks[c] = CompleteRecord(n, k)
        /\ \A d \in Chunks \ {c} : N.chunks[d] = me.mem.chunks[d]
    BY <1>1, TrustedAfterCommit
  <1>6. /\ r.at = "compare" /\ r.new = N /\ r.then = "committed"
        /\ r.mem = me.mem /\ r.basis = me.basis
        /\ r.command = me.command /\ r.outcome = me.outcome
    BY <1>1, PersistingFields
  <1> HIDE DEF N, r
  <1>7. Settled(N, sidecar')
    BY <1>3, <1>4, <1>5, BuiltFields DEF Settled
  <1>8. Matching(N, segment) /\ SameLease(N, sidecar') /\ Keeps(me.mem, N)
    <2>1. Matching(N, segment)
      BY <1>1, <1>4, <1>5, BuiltFields DEF FilesAgree, Matching
    <2>2. SameLease(N, sidecar')
      BY <1>7 DEF SameLease, Settled
    <2>3. Keeps(me.mem, N)
      BY <1>4, <1>5 DEF Keeps, HoldsLease
    <2>4. QED
      BY <2>1, <2>2, <2>3
  <1>9. N.state \in {"running", "complete"}
    BY <1>4, <1>5 DEF StateAfterCommit
  <1>10. Prepared(r, N, "committed", segment, sidecar')
    BY <1>6, <1>7, <1>8, <1>9 DEF Prepared
  <1>11. Progress(r, disk, segment, sidecar') /\ Reported(r, artifact)
    BY <1>1, <1>4, <1>6, <1>10 DEF Progress, Reported, Outside, Recovered, Working
  <1>12. AllInOrder'
    BY <1>1, <1>2, <1>11, OneInOrder
  <1>13. SameLease(disk, sidecar')
    BY <1>1, <1>3, <1>4 DEF FilesAgree, SameLease, HoldsLease
  <1>14. Witnessed(segment, sidecar')
    BY <1>1, <1>3, <1>4 DEF FilesAgree, Witnessed
  <1>15. FilesAgree'
    BY <1>1, <1>2, <1>13, <1>14 DEF FilesAgree
  <1>16. QED
    BY <1>12, <1>15 DEF AloneInv

\* After a commit the job runs or is complete: a pause at the limit is not refused.
LEMMA CommittedInOrder ==
  ASSUME NEW p, Inv, AloneInv, OneAtATime, p \in Procs, Committed(p)
  PROVE  AloneInv'
  <1> DEFINE me == proc[p]
             N == NextManifest(me.mem, me.mem.chunks, StateAfterPause(me.mem.chunks))
             q == [me EXCEPT !.count = @ + 1]
             r == Moved(q, "lease")
  <1>1. /\ proc \in [Procs -> Proc] /\ me \in Proc
        /\ me.at = "committed" /\ proc[p].at # "idle" /\ ~raced
        /\ Progress(me, disk, segment, sidecar) /\ Reported(me, artifact) /\ FilesAgree
    BY AloneFacts DEF Committed, At
  <1>2. disk' = disk /\ segment' = segment /\ sidecar' = sidecar /\ artifact' = artifact
        /\ raced' = raced
    BY DEF Committed, rest
  <1>3. /\ me.mem = disk /\ me.basis = disk /\ Settled(me.mem, sidecar)
        /\ me.mem.state \in {"running", "complete"}
    <2> HIDE DEF me
    <2> QED
      BY <1>1 DEF Progress, Outside, Recovered
  <1>4. \/ proc' = [proc EXCEPT ![p] = r]
        \/ proc' = [proc EXCEPT ![p] = Persisting(me, N, "finish")]
    BY <1>1, <1>3 DEF Committed, Moved, Proc
  <1>5. CASE proc' = [proc EXCEPT ![p] = r]
    <2>1. /\ q \in Proc /\ q.mem = me.mem /\ q.basis = me.basis
          /\ q.command = me.command /\ q.outcome = me.outcome
      BY <1>1 DEF Proc
    <2> HIDE DEF q, me
    <2>2. /\ r.at = "lease" /\ r.mem = me.mem /\ r.basis = me.basis
          /\ r.command = me.command /\ r.outcome = me.outcome
      BY <2>1, MovedFields
    <2> HIDE DEF r
    <2>3. Progress(r, disk, segment, sidecar) /\ Reported(r, artifact)
      BY <1>1, <1>3, <2>2 DEF Progress, Reported, Outside, Recovered, Working, Writing
    <2>4. QED
      BY <1>1, <1>2, <1>5, <2>3, QuietStep
  <1>6. CASE proc' = [proc EXCEPT ![p] = Persisting(me, N, "finish")]
    <2>1. N.chunks = me.mem.chunks
      BY DEF NextManifest
    <2> HIDE DEF N, me
    <2>2. Prepared(me, N, "finish", segment, sidecar)
      BY <1>1, <1>3, <2>1, SameChunksPrepared DEF FilesAgree
    <2>3. QED
      BY <1>1, <1>2, <1>3, <1>6, <2>2, PersistInOrder DEF me
  <1>7. QED
    BY <1>4, <1>5, <1>6

\* engvit pause may be refused; it is not a run.
LEMMA PauseInOrder ==
  ASSUME NEW p, Inv, AloneInv, OneAtATime, p \in Procs, Pause(p)
  PROVE  AloneInv'
  <1> DEFINE me == proc[p]
             N == NextManifest(me.mem, me.mem.chunks, StateAfterPause(me.mem.chunks))
  <1>1. /\ proc \in [Procs -> Proc] /\ me \in Proc
        /\ me.at = "pause" /\ proc[p].at # "idle" /\ ~raced
        /\ Progress(me, disk, segment, sidecar) /\ FilesAgree
    BY AloneFacts DEF Pause, At
  <1>2. disk' = disk /\ segment' = segment /\ sidecar' = sidecar /\ artifact' = artifact
        /\ raced' = raced
    BY DEF Pause, rest
  <1>3. \/ Exit(p, "error")
        \/ proc' = [proc EXCEPT ![p] = Persisting(me, N, "finish")]
    BY <1>1 DEF Pause, Fail, Persist
  <1>4. N.chunks = me.mem.chunks
    BY DEF NextManifest
  <1> HIDE DEF N, me
  <1>5. me.mem = disk /\ me.basis = disk /\ me.command # "run"
    BY <1>1 DEF Progress, Outside
  <1>6. CASE Exit(p, "error")
    BY <1>1, <1>2, <1>5, <1>6, ExitInOrder DEF me
  <1>7. CASE proc' = [proc EXCEPT ![p] = Persisting(me, N, "finish")]
    <2>1. Prepared(me, N, "finish", segment, sidecar)
      BY <1>1, <1>4, <1>5, SameChunksPrepared DEF FilesAgree
    <2>2. QED
      BY <1>1, <1>2, <1>5, <1>7, <2>1, PersistInOrder DEF me
  <1>8. QED
    BY <1>3, <1>6, <1>7

\* The end of run: a complete job has all its segments.
LEMMA FinishInOrder ==
  ASSUME NEW p, Inv, AloneInv, OneAtATime, p \in Procs, Finish(p)
  PROVE  AloneInv'
  <1> DEFINE me == proc[p]
             mem == me.mem
             r == Moved(me, "concat")
  <1>1. /\ proc \in [Procs -> Proc] /\ me \in Proc
        /\ me.at = "finish" /\ proc[p].at # "idle"
        /\ Progress(me, disk, segment, sidecar) /\ FilesAgree
        /\ Trusted(mem)
    BY AloneFacts DEF Finish, At
  <1>2. disk' = disk /\ segment' = segment /\ sidecar' = sidecar /\ artifact' = artifact
        /\ raced' = raced
    BY DEF Finish, rest
  <1> HIDE DEF me
  <1>3. mem = disk /\ me.basis = disk
    BY <1>1 DEF Progress, Outside
  <1> HIDE DEF mem
  <1>4. mem.state \in JobStates
    BY <1>1, GoodManifestFields DEF Trusted
  <1>5. mem.state = "complete" => AllComplete(disk.chunks)
    BY <1>1, <1>3 DEF Trusted, Sound
  <1>6. mem.state = "complete" => \A c \in Chunks : /\ mem.chunks[c].status = "complete"
                                                    /\ segment[c] = mem.chunks[c].completion.sha
    BY <1>1, <1>3, <1>5 DEF FilesAgree, Matching, AllComplete, SegmentMatches
  <1>7. \/ mem.state # "complete" /\ Exit(p, mem.state)
        \/ mem.state = "complete" /\ Goto(p, "concat")
    BY <1>6 DEF Finish, mem, me
  <1>8. CASE mem.state # "complete" /\ Exit(p, mem.state)
    <2>1. mem.state # "error" /\ mem.state \notin {"complete", "accepted"}
      BY <1>4, <1>8 DEF JobStates
    <2>2. QED
      BY <1>1, <1>2, <1>8, <2>1, ExitInOrder
  <1>9. CASE mem.state = "complete" /\ Goto(p, "concat")
    <2>1. r.at = "concat" /\ r.mem = disk /\ r.basis = disk
      BY <1>1, <1>3, MovedFields DEF mem
    <2> HIDE DEF r
    <2>2. Progress(r, disk, segment, sidecar)
      BY <1>5, <1>9, <2>1 DEF Progress, Outside, Recovered, Working, Writing
    <2>3. QED
      BY <1>1, <1>2, <1>9, <2>2, GotoInOrder DEF r, me
  <1>10. QED
    BY <1>7, <1>8, <1>9

\* The assembly.
LEMMA ConcatInOrder ==
  ASSUME NEW p, Inv, AloneInv, OneAtATime, p \in Procs, Concat(p)
  PROVE  AloneInv'
  <1> DEFINE me == proc[p]
             r == Ended(me.command, "complete")
  <1>1. /\ proc \in [Procs -> Proc] /\ me.at = "concat" /\ proc[p].at # "idle"
        /\ Progress(me, disk, segment, sidecar) /\ FilesAgree /\ AllInOrder
    BY AloneFacts DEF Concat, At
  <1>2. /\ disk' = disk /\ segment' = segment /\ sidecar' = sidecar /\ artifact' = segment
        /\ raced' = raced
        /\ proc' = [proc EXCEPT ![p] = r]
    BY <1>1 DEF Concat, rest, Exit
  <1> HIDE DEF me
  <1>3. AllComplete(disk.chunks)
    BY <1>1 DEF Progress
  <1>4. segment # NoArtifact
    <2>1. 1 \in Chunks
      BY ChunkAssumption DEF Chunks
    <2>2. segment[1] \in Payloads
      BY <1>1, <1>3, <2>1
         DEF FilesAgree, Matching, AllComplete, SegmentMatches, Exact, Completion
    <2>3. NoArtifact[1] \notin Payloads
      BY <2>1, PayloadAssumption DEF NoArtifact
    <2>4. QED
      BY <2>2, <2>3
  <1>5. r.at = "idle" /\ r.outcome = "complete"
    BY DEF Ended
  <1> HIDE DEF r
  <1>6. Progress(r, disk, segment, sidecar) /\ Reported(r, segment)
    BY <1>4, <1>5 DEF Progress, Reported, Outside, Recovered, Working, Writing
  <1>7. AllInOrder'
    BY <1>1, <1>2, <1>4, <1>6, OneInOrder
  <1>8. FilesAgree'
    BY <1>1, <1>2, <1>3 DEF FilesAgree, VideoIsTheJobs
  <1>9. QED
    BY <1>7, <1>8 DEF AloneInv

\* engvit qa may be refused; it is not a run.
LEMMA QaInOrder ==
  ASSUME NEW p, Inv, AloneInv, OneAtATime, p \in Procs, Qa(p)
  PROVE  AloneInv'
  <1> DEFINE me == proc[p]
  <1>1. me.at = "qa" /\ Progress(me, disk, segment, sidecar)
    BY AloneFacts DEF Qa, At
  <1>2. disk' = disk /\ segment' = segment /\ sidecar' = sidecar /\ artifact' = artifact
        /\ raced' = raced
    BY DEF Qa, rest
  <1>3. \/ Exit(p, "error")
        \/ Exit(p, "accepted") /\ artifact # NoArtifact
    BY DEF Qa, Fail
  <1> HIDE DEF me
  <1>4. me.command # "run" /\ me.at # "idle"
    BY <1>1 DEF Progress
  <1>5. proc[p].command # "run" /\ proc[p].at # "idle"
    BY <1>4 DEF me
  <1>6. QED
    BY <1>2, <1>3, <1>5, ExitInOrder

\* The comparison of _persist: the file is what this command read or wrote.
LEMMA CompareInOrder ==
  ASSUME NEW p, Inv, AloneInv, OneAtATime, p \in Procs, Compare(p)
  PROVE  AloneInv'
  <1> DEFINE me == proc[p]
             r == Moved(me, "replace")
  <1>1. /\ me \in Proc /\ me.at = "compare" /\ proc[p].at # "idle"
        /\ Progress(me, disk, segment, sidecar)
    BY AloneFacts DEF Compare, At
  <1>2. disk' = disk /\ segment' = segment /\ sidecar' = sidecar /\ artifact' = artifact
        /\ raced' = raced
    BY DEF Compare, rest
  <1> HIDE DEF me
  <1>3. me.mem = disk /\ me.basis = disk /\ Prepared(me, me.new, me.then, segment, sidecar)
    BY <1>1 DEF Progress, Outside, Writing
  <1>4. Goto(p, "replace")
    BY <1>3 DEF Compare, me
  <1>5. /\ r.at = "replace" /\ r.mem = disk /\ r.basis = disk
        /\ r.new = me.new /\ r.then = me.then /\ r.chunk = me.chunk /\ r.lease = me.lease
    BY <1>1, <1>3, MovedFields
  <1> HIDE DEF r
  <1>6. Prepared(r, r.new, r.then, segment, sidecar)
    BY <1>3, <1>5 DEF Prepared
  <1>7. Progress(r, disk, segment, sidecar)
    BY <1>5, <1>6 DEF Progress, Outside, Recovered, Working
  <1>8. QED
    BY <1>1, <1>2, <1>4, <1>7, GotoInOrder DEF r, me

\* The replacement: what was prepared for the file holds of the file.
LEMMA ReplaceInOrder ==
  ASSUME NEW p, Inv, AloneInv, OneAtATime, p \in Procs, Replace(p)
  PROVE  AloneInv'
  <1> DEFINE me == proc[p]
             m == me.new
             r == [me EXCEPT !.at = me.then, !.mem = m, !.basis = m]
  <1>1. /\ proc \in [Procs -> Proc] /\ me \in Proc /\ me.at = "replace" /\ proc[p].at # "idle"
        /\ Progress(me, disk, segment, sidecar) /\ Reported(me, artifact)
        /\ Consistent(me, segment) /\ FilesAgree /\ AllInOrder /\ ~raced
    BY AloneFacts DEF Replace, At
  <1>2. /\ disk' = m /\ segment' = segment /\ sidecar' = sidecar /\ artifact' = artifact
        /\ proc' = [proc EXCEPT ![p] = r]
    BY DEF Replace
  <1>3. ~raced'
    BY <1>1, AloneNeverRaces DEF Replace
  <1>4. /\ r.at = me.then /\ r.mem = m /\ r.basis = m
        /\ r.chunk = me.chunk /\ r.lease = me.lease
        /\ r.command = me.command /\ r.outcome = me.outcome
    BY <1>1 DEF Proc
  <1> HIDE DEF me, r
  <1>5. me.then \in {"resume", "lease", "encode", "committed", "finish"}
    BY <1>1 DEF Consistent, Writing, Derived, Continuations
  <1>6. me.mem = disk /\ Prepared(me, m, me.then, segment, sidecar)
    BY <1>1 DEF Progress, Outside, Writing
  <1> HIDE DEF m
  <1>7. Progress(r, m, segment, sidecar)
    BY <1>4, <1>5, <1>6 DEF Progress, Prepared, Outside, Recovered, Working, Writing
  <1>8. Reported(r, artifact)
    BY <1>1, <1>4 DEF Reported
  <1>9. AllInOrder'
    BY <1>1, <1>2, <1>7, <1>8, OneInOrder
  <1>10. AllComplete(disk.chunks) => AllComplete(m.chunks)
    BY <1>6 DEF Prepared, Keeps, AllComplete
  <1>11. FilesAgree'
    BY <1>1, <1>2, <1>3, <1>6, <1>10 DEF FilesAgree, Prepared, VideoIsTheJobs
  <1>12. QED
    BY <1>9, <1>11 DEF AloneInv

\* Each step of the only command that is alive keeps the files in agreement.
LEMMA AloneStep ==
  ASSUME NEW p, Inv, AloneInv, OneAtATime, p \in Procs, Step(p)
  PROVE  AloneInv'
  <1>1. CASE Open(p) \/ Identify(p) \/ Reload(p) \/ Create(p)
    BY <1>1, ConstructionInOrder
  <1>2. CASE Decide(p) \/ TryResume(p) \/ TakeLease(p) \/ NoLease(p)
    BY <1>2, DecideInOrder, TryResumeInOrder, TakeLeaseInOrder, NoLeaseInOrder
  <1>3. CASE Encode(p) \/ Hash(p) \/ Commit(p) \/ WriteSidecar(p) \/ Committed(p)
    BY <1>3, EncodeInOrder, HashInOrder, CommitInOrder, WriteSidecarInOrder, CommittedInOrder
  <1>4. CASE Finish(p) \/ Concat(p) \/ Pause(p) \/ Qa(p)
    BY <1>4, FinishInOrder, ConcatInOrder, PauseInOrder, QaInOrder
  <1>5. CASE Compare(p) \/ Replace(p)
    BY <1>5, CompareInOrder, ReplaceInOrder
  <1>6. QED
    BY <1>1, <1>2, <1>3, <1>4, <1>5 DEF Step

\* So does each step of the operator and of the clock.
LEMMA AloneNext ==
  ASSUME Inv, AloneInv, OneAtATime, [Next]_vars
  PROVE  AloneInv'
  <1>1. ASSUME NEW p \in Procs, Step(p)
        PROVE  AloneInv'
    BY <1>1, AloneStep
  <1>2. ASSUME NEW p \in Procs, Kill(p)
        PROVE  AloneInv'
    BY <1>2, ExitInOrder DEF Kill
  <1>3. ASSUME NEW p \in Procs, Begin(p)
        PROVE  AloneInv'
    <2>1. PICK name, resume, limit :
            proc' = [proc EXCEPT ![p] = [Ended(name, "none") EXCEPT
                                           !.at = "open", !.resume = resume, !.limit = limit]]
      BY <1>3 DEF Begin
    <2> DEFINE r == [Ended(name, "none") EXCEPT
                       !.at = "open", !.resume = resume, !.limit = limit]
    <2>2. r.at = "open" /\ r.outcome = "none"
      BY DEF Ended
    <2>3. proc' = [proc EXCEPT ![p] = r]
      BY <2>1
    <2> HIDE DEF r
    <2>4. /\ \A f, s, d : Progress(r, f, s, d)
          /\ \A v : Reported(r, v)
      BY <2>2 DEF Progress, Reported, Outside, Recovered, Working, Writing
    <2>5. /\ disk' = disk /\ segment' = segment /\ sidecar' = sidecar
          /\ artifact' = artifact /\ raced' = raced
      BY <1>3 DEF Begin
    <2>6. /\ proc'[p] = r
          /\ \A q \in Procs \ {p} : proc'[q] = proc[q]
      BY <2>3 DEF Inv, AllConsistent
    <2>7. AllInOrder'
      BY <2>4, <2>5, <2>6 DEF AloneInv, AllInOrder
    <2>8. FilesAgree'
      BY <2>5 DEF AloneInv, FilesAgree
    <2>9. QED
      BY <2>7, <2>8 DEF AloneInv
  <1>4. ASSUME NEW c \in Chunks, Lapse(c)
        PROVE  AloneInv'
    BY <1>4 DEF Lapse, rest, AloneInv, FilesAgree, AllInOrder
  <1>5. CASE UNCHANGED vars
    BY <1>5 DEF vars, AloneInv, FilesAgree, AllInOrder
  <1>6. QED
    BY <1>1, <1>2, <1>3, <1>4, <1>5 DEF Next

\* Before the first command the files agree: there are none.
LEMMA InitAlone ==
  ASSUME Init
  PROVE  AloneInv
  <1> DEFINE e == Ended("none", "none")
  <1>1. e.at = "idle" /\ e.outcome = "none"
    BY DEF Ended
  <1>2. proc = [p \in Procs |-> e]
    BY DEF Init
  <1> HIDE DEF e
  <1>3. Progress(e, disk, segment, sidecar) /\ Reported(e, artifact)
    BY <1>1 DEF Progress, Reported, Outside, Recovered, Working, Writing
  <1>4. AllInOrder
    BY <1>2, <1>3 DEF AllInOrder
  <1>5. FilesAgree
    BY BuiltFields DEF Init, FilesAgree, Matching, SameLease, Witnessed, VideoIsTheJobs,
                       FirstManifest, NoSidecar
  <1>6. QED
    BY <1>4, <1>5 DEF AloneInv

\* The files agree in every state of commands that do not overlap.
LEMMA AloneInvariance == Spec /\ []OneAtATime => []AloneInv
  <1>1. Init => AloneInv
    BY InitAlone
  <1>2. Inv /\ AloneInv /\ OneAtATime /\ [Next]_vars => AloneInv'
    BY AloneNext
  <1>3. QED
    BY <1>1, <1>2, Invariance, PTL DEF Spec

\* run that is alone is not refused by its own manifest, pause or segments,
\* whatever the commands before it did and wherever they were killed.
THEOREM RunIsNeverRefused == Spec /\ []OneAtATime => []RunAloneNeverRaises
  <1>1. AloneInv => RunAloneNeverRaises
    BY DEF AloneInv, AllInOrder, Reported, RunAloneNeverRaises
  <1>2. QED
    BY <1>1, AloneInvariance, PTL

\* What run reports as complete, and what qa accepts, is the assembly of the
\* segments that the manifest records, also after commands that came later.
THEOREM ReportsAreTrue == Spec /\ []OneAtATime => []ReportedVideoIsTheJobs
  <1>1. AloneInv => ReportedVideoIsTheJobs
    BY DEF AloneInv, AllInOrder, FilesAgree, Reported, VideoIsTheJobs, Matching, AllComplete,
           SegmentMatches, ReportedVideoIsTheJobs
  <1>2. QED
    BY <1>1, AloneInvariance, PTL

\* A chunk whose segment and sidecar are in place is never handed out again:
\* the recover of the next run finds what a killed one had finished.
THEOREM WorkIsNotRepeated == Spec /\ []OneAtATime => FinishedWorkIsKept
  <1> DEFINE Kept == \A c \in Chunks :
                       NewlyLeased(c) => ~SegmentMatches(segment[c], sidecar[c].completion)
  <1>1. Inv /\ AloneInv /\ [Next]_vars => Kept
    <2> SUFFICES ASSUME Inv, AloneInv, [Next]_vars, NEW c \in Chunks, NewlyLeased(c)
                 PROVE  ~SegmentMatches(segment[c], sidecar[c].completion)
      OBVIOUS
    <2>1. ~raced /\ disk' # disk
      BY DEF AloneInv, FilesAgree, NewlyLeased
    <2>2. PICK p \in Procs : /\ proc[p].at = "replace" /\ proc[p].mem = disk
                             /\ disk' = proc[p].new /\ Derived(proc[p])
      BY <2>1, WritesAreReplacements
    <2> DEFINE me == proc[p]
    <2>3. Progress(me, disk, segment, sidecar)
      BY DEF AloneInv, AllInOrder
    <2>4. me.at = "replace" /\ me.mem = disk /\ disk' = me.new /\ Derived(me)
      BY <2>2
    <2> HIDE DEF me
    <2>5. Prepared(me, me.new, me.then, segment, sidecar) /\ me.then = "encode"
      BY <2>3, <2>4 DEF Progress, Writing, Derived, NewlyLeased
    <2>6. Settled(disk', sidecar)
      BY <2>4, <2>5 DEF Prepared
    <2>7. sidecar[c].completion = NoCompletion
      BY <2>6 DEF Settled, NewlyLeased
    <2>8. QED
      BY <2>7, PayloadAssumption DEF SegmentMatches, Exact, Completion, NoCompletion
  <1>2. QED
    BY <1>1, Invariance, AloneInvariance, PTL DEF Spec, FinishedWorkIsKept
-----------------------------------------------------------------------------
(***************************************************************************)
(* No file and no command names a lease that was not made, so that a lease *)
(* that is made differs from all that are recorded.                        *)
(***************************************************************************)

Numbered(m, made) == \A c \in Chunks : m.chunks[c].lease <= made[c]

Knows(r, made) ==
  Numbered(r.mem, made) /\ Numbered(r.new, made) /\ r.lease <= made[r.chunk]

MadeInv ==
  /\ Numbered(disk, issued)
  /\ \A c \in Chunks : sidecar[c].lease <= issued[c]
  /\ \A p \in Procs : Knows(proc[p], issued)

\* Making a lease takes no other lease back.
LEMMA KnowsMore ==
  ASSUME NEW made \in [Chunks -> Nat], NEW more \in [Chunks -> Nat],
         \A c \in Chunks : made[c] <= more[c]
  PROVE  /\ \A m \in Manifest : Numbered(m, made) => Numbered(m, more)
         /\ \A r \in Proc : Knows(r, made) => Knows(r, more)
  <1>1. ASSUME NEW m \in Manifest, Numbered(m, made)
        PROVE  Numbered(m, more)
    <2>1. \A c \in Chunks : m.chunks[c].lease \in Nat
      BY DEF Manifest, Record
    <2>2. QED
      BY <1>1, <2>1 DEF Numbered
  <1>2. ASSUME NEW r \in Proc, Knows(r, made)
        PROVE  Knows(r, more)
    <2>1. r.mem \in Manifest /\ r.new \in Manifest /\ r.lease \in Nat /\ r.chunk \in Chunks
      BY ProcFields
    <2>2. QED
      BY <1>1, <1>2, <2>1 DEF Knows
  <1>3. QED
    BY <1>1, <1>2

\* The first manifest and an ended command name no lease.
LEMMA NothingKnown ==
  ASSUME NEW made \in [Chunks -> Nat], NEW name, NEW outcome
  PROVE  Numbered(FirstManifest, made) /\ Knows(Ended(name, outcome), made)
  <1>1. Numbered(FirstManifest, made)
    BY DEF Numbered, FirstManifest, PendingRecord
  <1>2. 1 \in Chunks
    BY ChunkAssumption DEF Chunks
  <1>3. QED
    BY <1>1, <1>2 DEF Knows, Ended

\* One command moves; files and leases stay.
LEMMA OneKnows ==
  ASSUME Inv, MadeInv, NEW p \in Procs, NEW r,
         proc' = [proc EXCEPT ![p] = r], Knows(r, issued),
         issued' = issued, Numbered(disk', issued),
         \A c \in Chunks : sidecar'[c].lease <= issued[c]
  PROVE  MadeInv'
  BY DEF MadeInv, Inv, AllConsistent

\* A command goes on with what it holds, or ends.
LEMMA MovesKnow ==
  ASSUME NEW p, NEW a, NEW outcome, Inv, MadeInv, p \in Procs,
         Goto(p, a) \/ Exit(p, outcome),
         issued' = issued, disk' = disk, sidecar' = sidecar
  PROVE  MadeInv'
  <1> DEFINE g == [proc[p] EXCEPT !.at = a]
             e == Ended(proc[p].command, outcome)
  <1>1. proc[p] \in Proc /\ Knows(proc[p], issued) /\ issued \in [Chunks -> Nat]
    BY CommandFacts DEF MadeInv, Inv, FilesTyped
  <1>2. Knows(g, issued)
    BY <1>1 DEF Knows, Proc
  <1>3. Knows(e, issued)
    BY <1>1, NothingKnown
  <1>4. proc' = [proc EXCEPT ![p] = g] \/ proc' = [proc EXCEPT ![p] = e]
    BY DEF Goto, Exit, Inv, AllConsistent
  <1> HIDE DEF g, e
  <1>5. Numbered(disk', issued) /\ \A c \in Chunks : sidecar'[c].lease <= issued[c]
    BY DEF MadeInv
  <1>6. QED
    BY <1>2, <1>3, <1>4, <1>5, OneKnows

\* A command prepares a manifest.
LEMMA PersistKnows ==
  ASSUME NEW r \in Proc, NEW new, NEW then, NEW made,
         Knows(r, made), Numbered(new, made)
  PROVE  Knows(Persisting(r, new, then), made)
  <1> DEFINE q == Persisting(r, new, then)
  <1>1. q.mem = r.mem /\ q.new = new /\ q.lease = r.lease /\ q.chunk = r.chunk
    BY DEF Persisting, Proc
  <1> HIDE DEF q
  <1>2. Knows(q, made)
    BY <1>1 DEF Knows
  <1>3. QED
    BY <1>2 DEF q

\* The same, for a step that leaves the files as they are.
LEMMA PersistStepKnows ==
  ASSUME NEW p, NEW new, NEW then,
         Inv, MadeInv, p \in Procs, Persist(p, new, then), Numbered(new, issued),
         issued' = issued, disk' = disk, \A c \in Chunks : sidecar'[c].lease <= issued[c]
  PROVE  MadeInv'
  <1>1. proc[p] \in Proc /\ Knows(proc[p], issued) /\ Numbered(disk', issued)
    BY CommandFacts DEF MadeInv
  <1>2. Knows(Persisting(proc[p], new, then), issued)
    BY <1>1, PersistKnows
  <1>3. proc' = [proc EXCEPT ![p] = Persisting(proc[p], new, then)]
    BY DEF Persist, Inv, AllConsistent
  <1>4. QED
    BY <1>1, <1>2, <1>3, OneKnows

\* Commands that read or write the manifest file, or hash a segment.
LEMMA ReadAndWriteKnow ==
  ASSUME Inv, MadeInv, NEW p \in Procs,
         Begin(p) \/ Open(p) \/ Identify(p) \/ Create(p) \/ Reload(p) \/ Hash(p) \/ Replace(p)
  PROVE  MadeInv'
  <1> DEFINE me == proc[p]
             r == proc'[p]
  <1>1. /\ me \in Proc /\ Knows(me, issued) /\ issued \in [Chunks -> Nat]
        /\ Numbered(FirstManifest, issued) /\ Numbered(disk, issued)
    BY CommandFacts, NothingKnown DEF MadeInv, Inv, FilesTyped
  <1>2. /\ proc' = [proc EXCEPT ![p] = r] /\ issued' = issued /\ sidecar' = sidecar
        /\ disk' \in {disk, FirstManifest, me.new}
    BY DEF Begin, Open, Identify, Create, Reload, Hash, Replace, Inv, AllConsistent, clock
  <1>3. Knows(r, issued)
    <2>1. CASE Begin(p)
      <3>1. PICK name \in CommandNames, resume \in BOOLEAN, limit \in Limits :
              proc' = [proc EXCEPT ![p] = [Ended(name, "none") EXCEPT
                                             !.at = "open", !.resume = resume, !.limit = limit]]
        BY <2>1 DEF Begin
      <3>2. /\ r.mem = FirstManifest /\ r.new = FirstManifest /\ r.lease = 0 /\ r.chunk = 1
        BY <3>1 DEF Ended, Inv, AllConsistent
      <3>3. 1 \in Chunks
        BY ChunkAssumption DEF Chunks
      <3>4. QED
        BY <1>1, <3>2, <3>3 DEF Knows
    <2>2. CASE Open(p) \/ Identify(p) \/ Create(p) \/ Reload(p) \/ Hash(p) \/ Replace(p)
      <3>1. /\ r.mem \in {me.mem, me.new, disk, FirstManifest}
            /\ r.new = me.new /\ r.lease = me.lease /\ r.chunk = me.chunk
        <4>1. CASE Open(p)
          BY <1>1, <4>1 DEF Open, Inv, AllConsistent, Proc
        <4>2. CASE Identify(p) \/ Reload(p)
          BY <1>1, <4>2 DEF Identify, Reload, Inv, AllConsistent, Proc
        <4>3. CASE Create(p)
          BY <1>1, <4>3 DEF Create, Inv, AllConsistent, Proc
        <4>4. CASE Hash(p)
          BY <1>1, <4>4 DEF Hash, Inv, AllConsistent, Proc
        <4>5. CASE Replace(p)
          BY <1>1, <4>5 DEF Replace, Inv, AllConsistent, Proc
        <4>6. QED
          BY <2>2, <4>1, <4>2, <4>3, <4>4, <4>5
      <3> HIDE DEF me, r
      <3>2. QED
        BY <1>1, <3>1 DEF Knows
    <2>3. QED
      BY <2>1, <2>2
  <1>4. Numbered(disk', issued) /\ \A c \in Chunks : sidecar'[c].lease <= issued[c]
    BY <1>1, <1>2 DEF MadeInv, Knows
  <1> HIDE DEF r, me
  <1>5. QED
    BY <1>2, <1>3, <1>4, OneKnows

\* recover names leases of the manifest or of a sidecar.
LEMMA DecideKnows ==
  ASSUME Inv, MadeInv, NEW p \in Procs, Decide(p)
  PROVE  MadeInv'
  <1> DEFINE me == proc[p]
             mem == me.mem
             q == [me EXCEPT !.basis = disk]
             g == Moved(q, "resume")
             N == RecoverManifest(mem, lapsed, segment, sidecar)
             R == RecoveredChunks(mem.chunks, lapsed, segment, sidecar)
             E == Expire(mem.chunks, lapsed)
  <1>1. /\ me \in Proc /\ Trusted(mem) /\ GoodChunks(mem.chunks) /\ disk \in Manifest
        /\ sidecar \in [Chunks -> Sidecar] /\ Knows(me, issued) /\ issued \in [Chunks -> Nat]
    BY CommandFacts, TrustedIsManifest DEF MadeInv, Inv, FilesTyped
  <1>2. q \in Proc /\ q.mem = mem /\ Knows(q, issued)
    BY <1>1 DEF Proc, Knows
  <1>3. /\ proc' = [proc EXCEPT ![p] = Persisting(q, N, "resume")]
           \/ proc' = [proc EXCEPT ![p] = g]
        /\ issued' = issued /\ disk' = disk /\ sidecar' = sidecar
    BY DEF Decide, Moved, RecoverManifest, clock
  <1>4. Knows(g, issued)
    BY <1>2 DEF Moved, Proc, Knows
  <1>5. N.chunks = R
    BY <1>1, TrustedAfterRecover
  <1> HIDE DEF q, g, N, mem, me
  <1>6. ASSUME NEW c \in Chunks
        PROVE  R[c].lease <= issued[c]
    <2>1. E[c] = mem.chunks[c] \/ E[c] = PendingRecord
      BY <1>1, GoodExpire
    <2>2. /\ R[c] = Repair(Revalidate(E[c], segment[c]), segment[c], sidecar[c])
          /\ Revalidate(E[c], segment[c]) \in {E[c], PendingRecord}
      BY DEF RecoveredChunks, Revalidate
    <2>3. R[c] \in {mem.chunks[c], PendingRecord,
                    CompleteRecord(sidecar[c].lease, sidecar[c].completion)}
      BY <2>1, <2>2 DEF Repair
    <2>4. /\ mem.chunks[c].lease <= issued[c] /\ sidecar[c].lease <= issued[c]
          /\ PendingRecord.lease = 0 /\ issued[c] \in Nat
      BY <1>1, <1>2 DEF Knows, Numbered, MadeInv, PendingRecord
    <2> HIDE DEF R
    <2>5. QED
      BY <2>3, <2>4, BuiltFields
  <1>7. Numbered(N, issued)
    BY <1>5, <1>6 DEF Numbered
  <1>8. Knows(Persisting(q, N, "resume"), issued)
    BY <1>2, <1>7, PersistKnows
  <1>9. Numbered(disk', issued) /\ \A c \in Chunks : sidecar'[c].lease <= issued[c]
    BY <1>3 DEF MadeInv
  <1>10. QED
    BY <1>3, <1>4, <1>8, <1>9, OneKnows

\* lease makes one.
LEMMA TakeLeaseKnows ==
  ASSUME Inv, MadeInv, NEW p \in Procs, TakeLease(p)
  PROVE  MadeInv'
  <1> DEFINE mem == proc[p].mem
  <1>1. PICK c \in Chunks :
          /\ issued' = [issued EXCEPT ![c] = @ + 1]
          /\ proc' = [proc EXCEPT ![p] =
               [Persisting(@, NextManifest(mem, [Expire(mem.chunks, lapsed) EXCEPT
                                                   ![c] = LeasedRecord(issued'[c])],
                                           "running"), "encode")
                  EXCEPT !.chunk = c, !.lease = issued'[c], !.completion = NoCompletion]]
    BY DEF TakeLease
  <1> DEFINE n == issued[c] + 1
             N == LeaseManifest(mem, lapsed, c, n)
             r == proc'[p]
  <1>2. /\ issued \in [Chunks -> Nat] /\ issued' \in [Chunks -> Nat] /\ n \in Nat \ {0}
        /\ issued'[c] = n /\ \A d \in Chunks : issued[d] <= issued'[d]
        /\ disk' = disk /\ sidecar' = sidecar /\ disk \in Manifest
        /\ sidecar \in [Chunks -> Sidecar]
    BY <1>1, CommandFacts, TrustedIsManifest DEF TakeLease, Inv, FilesTyped
  <1>3. /\ proc[p] \in Proc /\ Trusted(mem) /\ GoodChunks(mem.chunks)
        /\ mem \in Manifest
    BY CommandFacts, TrustedIsManifest
  <1>4. \A q \in Procs : proc[q] \in Proc /\ Knows(proc[q], issued')
    BY <1>2, KnowsMore DEF MadeInv, Inv, AllConsistent, Consistent
  <1>5. Numbered(disk', issued') /\ \A d \in Chunks : sidecar'[d].lease <= issued'[d]
    <2>1. Numbered(disk, issued')
      BY <1>2, KnowsMore DEF MadeInv
    <2>2. ASSUME NEW d \in Chunks
          PROVE  sidecar[d].lease <= issued'[d]
      <3>1. /\ sidecar[d].lease \in Nat /\ issued[d] \in Nat /\ issued'[d] \in Nat
            /\ sidecar[d].lease <= issued[d] /\ issued[d] <= issued'[d]
        BY <1>2 DEF Sidecar, MadeInv
      <3>2. QED
        BY <3>1
    <2>3. QED
      BY <1>2, <2>1, <2>2
  <1>6. r.mem = mem /\ r.new = N /\ r.lease = n /\ r.chunk = c
    BY <1>1, <1>2, <1>3 DEF LeaseManifest, Persisting, Proc, Inv, AllConsistent
  <1>7. \A q \in Procs \ {p} : proc'[q] = proc[q]
    BY <1>1 DEF Inv, AllConsistent
  <1>8. Numbered(N, issued')
    <2>1. /\ N.chunks[c] = LeasedRecord(n)
          /\ \A d \in Chunks \ {c} : N.chunks[d] = Expire(mem.chunks, lapsed)[d]
      BY <1>2, <1>3, TrustedAfterLease
    <2>2. \A d \in Chunks : \/ Expire(mem.chunks, lapsed)[d] = mem.chunks[d]
                            \/ Expire(mem.chunks, lapsed)[d] = PendingRecord
      BY <1>3, GoodExpire
    <2>3. Numbered(mem, issued') /\ PendingRecord.lease = 0
      BY <1>4 DEF Knows, PendingRecord
    <2> HIDE DEF N, mem, n
    <2>4. QED
      BY <1>2, <2>1, <2>2, <2>3, BuiltFields DEF Numbered, n
  <1> HIDE DEF N, n
  <1>9. Knows(r, issued')
    BY <1>2, <1>4, <1>6, <1>8 DEF Knows
  <1> HIDE DEF r, mem
  <1>10. QED
    BY <1>4, <1>5, <1>7, <1>9 DEF MadeInv, r

\* lease returns nothing, resume and request_pause: no lease is named anew.
LEMMA StateMovesKnow ==
  ASSUME Inv, MadeInv, NEW p \in Procs, NoLease(p) \/ TryResume(p) \/ Pause(p)
  PROVE  MadeInv'
  <1> DEFINE mem == proc[p].mem
  <1>1. /\ Trusted(mem) /\ GoodChunks(mem.chunks) /\ Numbered(mem, issued)
        /\ issued \in [Chunks -> Nat]
    BY CommandFacts DEF MadeInv, Knows, Inv, FilesTyped
  <1>2. /\ issued' = issued /\ disk' = disk /\ sidecar' = sidecar
        /\ \A c \in Chunks : sidecar'[c].lease <= issued[c]
    BY DEF NoLease, TryResume, Pause, clock, MadeInv
  <1>3. ASSUME NEW s PROVE Numbered(NextManifest(mem, mem.chunks, s), issued)
    BY <1>1 DEF NextManifest, Numbered
  <1>4. Numbered(ExpireManifest(mem, lapsed), issued)
    <2>1. ExpireManifest(mem, lapsed).chunks = Expire(mem.chunks, lapsed)
      BY <1>1, TrustedAfterExpire
    <2>2. \A d \in Chunks : \/ Expire(mem.chunks, lapsed)[d] = mem.chunks[d]
                            \/ Expire(mem.chunks, lapsed)[d] = PendingRecord
      BY <1>1, GoodExpire
    <2> HIDE DEF mem
    <2>3. QED
      BY <1>1, <2>1, <2>2 DEF Numbered, PendingRecord
  <1>5. CASE NoLease(p)
    BY <1>2, <1>4, <1>5, PersistStepKnows, MovesKnow DEF NoLease, ExpireManifest
  <1>6. CASE TryResume(p)
    BY <1>2, <1>3, <1>6, PersistStepKnows, MovesKnow DEF TryResume
  <1>7. CASE Pause(p)
    BY <1>2, <1>3, <1>7, PersistStepKnows, MovesKnow DEF Pause, Fail
  <1>8. QED
    BY <1>5, <1>6, <1>7

\* commit names the lease of the command, in the sidecar and in the manifest.
LEMMA WriteSidecarKnows ==
  ASSUME Inv, MadeInv, NEW p \in Procs, WriteSidecar(p)
  PROVE  MadeInv'
  <1> DEFINE me == proc[p]
             N == CommitManifest(me.mem, me.chunk, me.lease, me.completion)
  <1>1. /\ Trusted(me.mem) /\ me.chunk \in Chunks /\ me.lease \in Nat
        /\ me.completion \in Exact /\ Knows(me, issued)
    <2>1. Consistent(me, segment) /\ me.at = "sidecar" /\ me \in Proc
      BY CommandFacts DEF WriteSidecar, At
    <2>2. me.chunk \in Chunks /\ me.lease \in Nat /\ Trusted(me.mem) /\ Knows(me, issued)
      BY <2>1, ProcFields, CommandFacts DEF MadeInv
    <2> HIDE DEF me
    <2>3. QED
      BY <2>1, <2>2 DEF Consistent
  <1>2. /\ Persist(p, N, "committed") /\ issued' = issued /\ disk' = disk
        /\ sidecar' = [sidecar EXCEPT ![me.chunk] =
                         [lease |-> me.lease, completion |-> me.completion]]
    BY DEF WriteSidecar, CommitManifest, clock
  <1>3. Numbered(N, issued)
    <2>1. /\ N.chunks[me.chunk] = CompleteRecord(me.lease, me.completion)
          /\ \A d \in Chunks \ {me.chunk} : N.chunks[d] = me.mem.chunks[d]
      BY <1>1, TrustedAfterCommit
    <2> HIDE DEF N, me
    <2>2. QED
      BY <1>1, <2>1, BuiltFields DEF Numbered, Knows
  <1>4. \A c \in Chunks : sidecar'[c].lease <= issued[c]
    BY <1>1, <1>2 DEF MadeInv, Knows, Inv, FilesTyped
  <1> HIDE DEF N
  <1>5. QED
    BY <1>2, <1>3, <1>4, PersistStepKnows

\* After a commit the command goes on, or asks for a pause.
LEMMA CommittedKnows ==
  ASSUME Inv, MadeInv, NEW p \in Procs, Committed(p)
  PROVE  MadeInv'
  <1> DEFINE r == proc[p]
             N == NextManifest(r.mem, r.mem.chunks, StateAfterPause(r.mem.chunks))
             g == [r EXCEPT !.at = "lease", !.count = @ + 1]
             e == Ended(r.command, "error")
  <1>1. r \in Proc /\ Knows(r, issued) /\ issued \in [Chunks -> Nat]
    BY CommandFacts DEF MadeInv, Inv, FilesTyped
  <1>2. /\ \/ proc' = [proc EXCEPT ![p] = g]
           \/ proc' = [proc EXCEPT ![p] = e]
           \/ proc' = [proc EXCEPT ![p] = Persisting(r, N, "finish")]
        /\ issued' = issued /\ disk' = disk /\ sidecar' = sidecar
    BY DEF Committed, clock
  <1>3. Knows(g, issued)
    BY <1>1 DEF Proc, Knows
  <1>4. Knows(e, issued)
    BY <1>1, NothingKnown
  <1>5. Numbered(N, issued)
    BY <1>1 DEF Knows, Numbered, NextManifest
  <1> HIDE DEF N, g, e
  <1>6. Knows(Persisting(r, N, "finish"), issued)
    BY <1>1, <1>5, PersistKnows
  <1>7. Numbered(disk', issued) /\ \A c \in Chunks : sidecar'[c].lease <= issued[c]
    BY <1>2 DEF MadeInv
  <1>8. QED
    BY <1>2, <1>3, <1>4, <1>6, <1>7, OneKnows

\* The other steps name no lease anew.
LEMMA OthersKnow ==
  ASSUME Inv, MadeInv, NEW p \in Procs,
         \/ Encode(p) \/ Commit(p) \/ Finish(p) \/ Concat(p) \/ Qa(p) \/ Compare(p) \/ Kill(p)
  PROVE  MadeInv'
  <1>1. issued' = issued /\ disk' = disk /\ sidecar' = sidecar
    BY DEF Encode, Commit, Finish, Concat, Qa, Compare, Kill, clock
  <1>2. (\E a : Goto(p, a)) \/ (\E outcome : Exit(p, outcome))
    BY DEF Encode, Commit, Finish, Concat, Qa, Compare, Kill, Fail
  <1>3. QED
    BY <1>1, <1>2, MovesKnow

\* No step lets a file or a command name a lease that was not made.
LEMMA MadeNext ==
  ASSUME Inv, MadeInv, [Next]_vars
  PROVE  MadeInv'
  <1>1. ASSUME NEW p \in Procs, Begin(p) \/ Step(p) \/ Kill(p)
        PROVE  MadeInv'
    BY <1>1, ReadAndWriteKnow, DecideKnows, TakeLeaseKnows, StateMovesKnow, WriteSidecarKnows,
       CommittedKnows, OthersKnow DEF Step
  <1>2. ASSUME NEW c \in Chunks, Lapse(c)
        PROVE  MadeInv'
    BY <1>2 DEF Lapse, MadeInv
  <1>3. CASE UNCHANGED vars
    BY <1>3 DEF vars, MadeInv
  <1>4. QED
    BY <1>1, <1>2, <1>3 DEF Next

\* Initially no lease was made and none is named.
LEMMA MadeInit ==
  ASSUME Init
  PROVE  MadeInv
  <1>1. issued \in [Chunks -> Nat]
    BY DEF Init
  <1>2. Numbered(disk, issued) /\ \A p \in Procs : Knows(proc[p], issued)
    BY <1>1, NothingKnown DEF Init
  <1>3. QED
    BY <1>2 DEF Init, MadeInv, NoSidecar

-----------------------------------------------------------------------------
(***************************************************************************)
(* The commands and the job ledger.  Each command decides on a manifest it *)
(* read earlier, and others may write in between; what reaches the file is *)
(* one operation on the manifest that is there, as JobLedger promises it   *)
(* to a reader.                                                            *)
(***************************************************************************)

\* JobLedger numbers the grants of a chunk in the order in which they are
\* recorded.  Here leases are numbered when they are made, and the command that
\* made one may be refused before it is recorded, so the leases of each chunk
\* that were recorded are counted by a history variable.
VARIABLE recorded

Counted ==
  recorded' = [c \in Chunks |-> IF NewlyLeased(c) THEN recorded[c] + 1 ELSE recorded[c]]

CountedSpec ==
  /\ Init /\ recorded = [c \in Chunks |-> 0]
  /\ [][Next /\ Counted]_<<vars, recorded>>

\* A chunk is held under the lease of it that was recorded last.
HeldIn(m, count) ==
  [c \in Chunks |-> IF m.chunks[c].status = "leased" THEN count[c] ELSE 0]

L == INSTANCE JobLedger
       WITH state <- disk.state, holder <- HeldIn(disk, recorded), granted <- recorded,
            done <- DoneIn(disk)

\* The record of chunk d is kept, or its lease has expired.
Dropped(m, n, d) ==
  \/ n.chunks[d] = m.chunks[d]
  \/ m.chunks[d].status = "leased" /\ n.chunks[d] = PendingRecord

\* Manifest n is what an operation makes of manifest m.
LeaseOf(m, n, c) ==
  /\ m.state = "running" /\ n.state = "running"
  /\ m.chunks[c].status # "complete"
  /\ \E k \in Nat : n.chunks[c] = LeasedRecord(k) /\ k # m.chunks[c].lease
  /\ \A d \in Chunks \ {c} : Dropped(m, n, d)

ExpiryOf(m, n) ==
  /\ m.state # "running" /\ n.state = m.state
  /\ \A d \in Chunks : Dropped(m, n, d)

CommitOf(m, n, c) ==
  /\ m.chunks[c].status = "leased"
  /\ n.chunks[c].status = "complete"
  /\ \A d \in Chunks \ {c} : n.chunks[d] = m.chunks[d]
  /\ n.state = StateAfterCommit(m.state, n.chunks)

PauseOf(m, n) ==
  m.state = "running" /\ n.chunks = m.chunks /\ n.state = StateAfterPause(m.chunks)

ResumeOf(m, n) ==
  m.state = "paused" /\ n.chunks = m.chunks /\ n.state = "running"

RecoverOf(m, n) ==
  /\ \A d \in Chunks : n.chunks[d].status = "leased" => n.chunks[d] = m.chunks[d]
  /\ n.state = StateAfterRecover(m.state, n.chunks)

Operation(m, n) ==
  \/ \E c \in Chunks : LeaseOf(m, n, c) \/ CommitOf(m, n, c)
  \/ ExpiryOf(m, n) \/ PauseOf(m, n) \/ ResumeOf(m, n) \/ RecoverOf(m, n)

\* A command that is about to write has applied one operation to the manifest
\* it holds; one that writes a sidecar holds the lease it commits under.
Operates(r) ==
  /\ Writing(r) => Operation(r.mem, r.new)
  /\ r.at = "sidecar" => HoldsLease(r.mem.chunks[r.chunk], r.lease)

AllOperate == \A p \in Procs : Operates(proc[p])

\* One command moves; the others hold what they held.
LEMMA OneOperates ==
  ASSUME Inv, AllOperate, NEW p \in Procs, NEW r,
         proc' = [proc EXCEPT ![p] = r], Operates(r)
  PROVE  AllOperate'
  BY DEF AllOperate, Inv, AllConsistent

\* A point at which a command neither writes the manifest nor a sidecar.
LEMMA IdleOperates ==
  ASSUME NEW r, r.at \notin {"compare", "replace", "sidecar"}
  PROVE  Operates(r)
  BY DEF Operates, Writing

\* _persist is called with the outcome of one operation.
LEMMA PersistOperates ==
  ASSUME NEW r \in Proc, NEW new, NEW then, Operation(r.mem, new)
  PROVE  Operates(Persisting(r, new, then))
  <1> DEFINE q == Persisting(r, new, then)
  <1>1. q.at = "compare" /\ q.mem = r.mem /\ q.new = new
    BY DEF Persisting, Proc
  <1> HIDE DEF q
  <1>2. Operates(q)
    BY <1>1 DEF Operates
  <1>3. QED
    BY <1>2 DEF q

\* The same, for a command that has its manifest in hand.
LEMMA PersistStepOperates ==
  ASSUME NEW p, NEW new, NEW then,
         Inv, AllOperate, p \in Procs, Persist(p, new, then), Operation(proc[p].mem, new)
  PROVE  AllOperate'
  <1>1. proc[p] \in Proc
    BY CommandFacts
  <1>2. Operates(Persisting(proc[p], new, then))
    BY <1>1, PersistOperates
  <1>3. QED
    BY <1>2, OneOperates DEF Persist, Inv, AllConsistent

\* A command goes to a point that asks nothing, or from the comparison to the
\* replacement with what it held.
LEMMA GotoOperates ==
  ASSUME NEW p, NEW a,
         Inv, AllOperate, p \in Procs, Goto(p, a),
         \/ a \notin {"compare", "replace", "sidecar"}
         \/ a = "replace" /\ proc[p].at = "compare"
         \/ a = "sidecar" /\ HoldsLease(proc[p].mem.chunks[proc[p].chunk], proc[p].lease)
  PROVE  AllOperate'
  <1> DEFINE r == [proc[p] EXCEPT !.at = a]
  <1>1. proc[p] \in Proc /\ Operates(proc[p])
    BY CommandFacts DEF AllOperate
  <1>2. /\ r.at = a /\ r.mem = proc[p].mem /\ r.new = proc[p].new
        /\ r.chunk = proc[p].chunk /\ r.lease = proc[p].lease
    BY <1>1 DEF Proc
  <1>3. proc' = [proc EXCEPT ![p] = r]
    BY DEF Goto, Inv, AllConsistent
  <1> HIDE DEF r
  <1>4. Operates(r)
    BY <1>1, <1>2 DEF Operates, Writing
  <1>5. QED
    BY <1>3, <1>4, OneOperates

\* A command that ends asks nothing.
LEMMA ExitOperates ==
  ASSUME NEW p, NEW outcome, Inv, AllOperate, p \in Procs, Exit(p, outcome)
  PROVE  AllOperate'
  <1> DEFINE r == Ended(proc[p].command, outcome)
  <1>1. r.at = "idle" /\ proc' = [proc EXCEPT ![p] = r]
    BY DEF Ended, Exit, Inv, AllConsistent
  <1> HIDE DEF r
  <1>2. QED
    BY <1>1, IdleOperates, OneOperates

\* Coordinator.__init__ and recover read; the manifest that was compared is written.
LEMMA ReadAndWriteOperate ==
  ASSUME Inv, AllOperate, NEW p \in Procs,
         Begin(p) \/ Open(p) \/ Identify(p) \/ Create(p) \/ Reload(p) \/ Hash(p) \/ Replace(p)
  PROVE  AllOperate'
  <1>1. proc[p] \in Proc
    BY CommandFacts
  <1> DEFINE r == proc'[p]
  <1>2. proc' = [proc EXCEPT ![p] = r]
    BY DEF Begin, Open, Identify, Create, Reload, Hash, Replace, Inv, AllConsistent
  <1>3. r.at \notin {"compare", "replace", "sidecar"}
    <2>1. CASE Begin(p)
      <3>1. PICK name \in CommandNames, resume \in BOOLEAN, limit \in Limits :
              proc' = [proc EXCEPT ![p] = [Ended(name, "none") EXCEPT
                                             !.at = "open", !.resume = resume, !.limit = limit]]
        BY <2>1 DEF Begin
      <3>2. r.at = "open"
        BY <3>1 DEF Ended, Inv, AllConsistent
      <3>3. QED
        BY <3>2
    <2>2. CASE Open(p)
      BY <1>1, <2>2 DEF Open, Inv, AllConsistent, Proc
    <2>3. CASE Identify(p) \/ Create(p)
      <3>1. r.at = FirstPoint(proc[p].command)
        BY <1>1, <2>3 DEF Identify, Create, Inv, AllConsistent, Proc
      <3>2. QED
        BY <3>1, FirstPoints
    <2>4. CASE Reload(p) \/ Hash(p)
      BY <1>1, <2>4 DEF Reload, Hash, Inv, AllConsistent, Proc
    <2>5. CASE Replace(p)
      <3>1. r.at = proc[p].then
        BY <1>1, <2>5 DEF Replace, Inv, AllConsistent, Proc
      <3>2. proc[p].then \in Continuations
        BY <2>5, CommandFacts DEF Replace, At, Consistent, Writing, Derived
      <3>3. QED
        BY <3>1, <3>2 DEF Continuations
    <2>6. QED
      BY <2>1, <2>2, <2>3, <2>4, <2>5
  <1> HIDE DEF r
  <1>4. QED
    BY <1>2, <1>3, IdleOperates, OneOperates

\* recover.
LEMMA DecideOperates ==
  ASSUME Inv, AllOperate, NEW p \in Procs, Decide(p)
  PROVE  AllOperate'
  <1> DEFINE me == proc[p]
             mem == me.mem
             q == [me EXCEPT !.basis = disk]
             N == RecoverManifest(mem, lapsed, segment, sidecar)
  <1>1. /\ me \in Proc /\ Trusted(mem) /\ disk \in Manifest
        /\ sidecar \in [Chunks -> Sidecar]
    BY CommandFacts, TrustedIsManifest DEF Inv, FilesTyped
  <1>2. q \in Proc /\ q.mem = mem
    BY <1>1 DEF Proc
  <1>3. \/ proc' = [proc EXCEPT ![p] = Persisting(q, N, "resume")]
        \/ proc' = [proc EXCEPT ![p] = Moved(q, "resume")]
    BY DEF Decide, Moved, RecoverManifest
  <1>4. Moved(q, "resume").at = "resume"
    BY <1>1 DEF Moved, Proc
  <1> HIDE DEF q, mem
  <1>5. RecoverOf(mem, N)
    <2>1. /\ N.state = StateAfterRecover(mem.state, N.chunks)
          /\ \A c \in Chunks : N.chunks[c].status = "leased" => N.chunks[c] = mem.chunks[c]
      BY <1>1, TrustedAfterRecover
    <2> HIDE DEF N
    <2>2. QED
      BY <2>1 DEF RecoverOf
  <1> HIDE DEF N
  <1>6. Operates(Persisting(q, N, "resume"))
    BY <1>2, <1>5, PersistOperates DEF Operation
  <1>7. Operates(Moved(q, "resume"))
    BY <1>4, IdleOperates
  <1>8. QED
    BY <1>3, <1>6, <1>7, OneOperates

\* lease returns a lease.
LEMMA TakeLeaseOperates ==
  ASSUME Inv, MadeInv, AllOperate, NEW p \in Procs, TakeLease(p)
  PROVE  AllOperate'
  <1> DEFINE mem == proc[p].mem
  <1>1. PICK c \in Chunks :
          /\ IsFirstPending(Expire(mem.chunks, lapsed), c)
          /\ issued' = [issued EXCEPT ![c] = @ + 1]
          /\ proc' = [proc EXCEPT ![p] =
               [Persisting(@, NextManifest(mem, [Expire(mem.chunks, lapsed) EXCEPT
                                                   ![c] = LeasedRecord(issued'[c])],
                                           "running"), "encode")
                  EXCEPT !.chunk = c, !.lease = issued'[c], !.completion = NoCompletion]]
    BY DEF TakeLease
  <1> DEFINE n == issued[c] + 1
             q == [proc[p] EXCEPT !.chunk = c, !.lease = n, !.completion = NoCompletion]
             N == LeaseManifest(mem, lapsed, c, n)
  <1>2. n \in Nat \ {0} /\ issued'[c] = n
    BY <1>1 DEF Inv, FilesTyped
  <1>3. /\ proc[p] \in Proc /\ Trusted(mem) /\ GoodChunks(mem.chunks)
        /\ mem.state = "running"
    BY CommandFacts DEF TakeLease
  <1>4. q \in Proc /\ q.mem = mem
    BY <1>2, <1>3 DEF Proc
  <1>5. proc' = [proc EXCEPT ![p] = Persisting(q, N, "encode")]
    <2>1. \A new : Persisting(q, new, "encode")
                    = [Persisting(proc[p], new, "encode")
                         EXCEPT !.chunk = c, !.lease = n, !.completion = NoCompletion]
      BY <1>3 DEF Persisting, Proc
    <2>2. QED
      BY <1>1, <1>2, <2>1 DEF LeaseManifest, Inv, AllConsistent
  <1> HIDE DEF q, mem
  <1>6. LeaseOf(mem, N, c)
    <2>1. n # mem.chunks[c].lease
      <3>1. mem.chunks[c].lease <= issued[c] /\ mem.chunks[c].lease \in Nat /\ issued[c] \in Nat
        BY <1>3 DEF MadeInv, Knows, Numbered, mem, Inv, FilesTyped, GoodChunks, Record
      <3>2. QED
        BY <3>1
    <2> HIDE DEF n
    <2>2. /\ N.state = "running" /\ N.chunks[c] = LeasedRecord(n)
          /\ \A d \in Chunks \ {c} : N.chunks[d] = Expire(mem.chunks, lapsed)[d]
      BY <1>2, <1>3, TrustedAfterLease
    <2> HIDE DEF N
    <2>3. \A d \in Chunks : \/ Expire(mem.chunks, lapsed)[d] = mem.chunks[d]
                            \/ /\ mem.chunks[d].status = "leased"
                               /\ Expire(mem.chunks, lapsed)[d] = PendingRecord
      BY <1>3, GoodExpire
    <2>4. mem.chunks[c].status # "complete"
      BY <1>1, <2>3 DEF IsFirstPending
    <2>5. QED
      BY <1>2, <1>3, <2>1, <2>2, <2>3, <2>4 DEF LeaseOf, Dropped
  <1> HIDE DEF N, n
  <1>7. Operates(Persisting(q, N, "encode"))
    BY <1>4, <1>6, PersistOperates DEF Operation
  <1>8. QED
    BY <1>5, <1>7, OneOperates

\* lease returns nothing, resume reopens the job, request_pause stops it.
LEMMA StateMovesOperate ==
  ASSUME Inv, AllOperate, NEW p \in Procs, NoLease(p) \/ TryResume(p) \/ Pause(p)
  PROVE  AllOperate'
  <1> DEFINE mem == proc[p].mem
  <1>1. Trusted(mem) /\ GoodChunks(mem.chunks)
    BY CommandFacts
  <1>2. ASSUME NoLease(p)
        PROVE  AllOperate'
    <2> DEFINE N == ExpireManifest(mem, lapsed)
    <2>1. CASE mem.state # "running" /\ Persist(p, N, "finish")
      <3>1. ExpiryOf(mem, N)
        <4>1. N.state = mem.state /\ N.chunks = Expire(mem.chunks, lapsed)
          BY <1>1, TrustedAfterExpire
        <4> HIDE DEF N, mem
        <4>2. QED
          BY <1>1, <2>1, <4>1, GoodExpire DEF ExpiryOf, Dropped
      <3> HIDE DEF N
      <3>2. QED
        BY <2>1, <3>1, PersistStepOperates DEF Operation
    <2>2. CASE Goto(p, "finish")
      BY <2>2, GotoOperates
    <2>3. QED
      BY <1>2, <2>1, <2>2 DEF NoLease, ExpireManifest
  <1>3. ASSUME TryResume(p)
        PROVE  AllOperate'
    <2> DEFINE N == NextManifest(mem, mem.chunks, "running")
    <2>1. CASE mem.state = "paused" /\ Persist(p, N, "lease")
      <3>1. ResumeOf(mem, N)
        BY <2>1 DEF ResumeOf, NextManifest
      <3> HIDE DEF N
      <3>2. QED
        BY <2>1, <3>1, PersistStepOperates DEF Operation
    <2>2. CASE Goto(p, "lease")
      BY <2>2, GotoOperates
    <2>3. QED
      BY <1>3, <2>1, <2>2 DEF TryResume
  <1>4. ASSUME Pause(p)
        PROVE  AllOperate'
    <2> DEFINE N == NextManifest(mem, mem.chunks, StateAfterPause(mem.chunks))
    <2>1. CASE mem.state = "running" /\ Persist(p, N, "finish")
      <3>1. PauseOf(mem, N)
        BY <2>1 DEF PauseOf, NextManifest
      <3> HIDE DEF N
      <3>2. QED
        BY <2>1, <3>1, PersistStepOperates DEF Operation
    <2>2. CASE Fail(p)
      BY <2>2, ExitOperates DEF Fail
    <2>3. QED
      BY <1>4, <2>1, <2>2 DEF Pause
  <1>5. QED
    BY <1>2, <1>3, <1>4

\* commit, from the check of the lease to the manifest that records it.
LEMMA CommitOperates ==
  ASSUME Inv, AllOperate, NEW p \in Procs, Commit(p) \/ WriteSidecar(p)
  PROVE  AllOperate'
  <1> DEFINE me == proc[p]
  <1>1. CASE Commit(p)
    BY <1>1, GotoOperates, ExitOperates DEF Commit, Fail
  <1>2. CASE WriteSidecar(p)
    <2> DEFINE N == CommitManifest(me.mem, me.chunk, me.lease, me.completion)
    <2>1. /\ me.at = "sidecar" /\ Trusted(me.mem) /\ me.chunk \in Chunks /\ me.lease \in Nat
          /\ me.completion \in Exact /\ HoldsLease(me.mem.chunks[me.chunk], me.lease)
      <3>1. me.at = "sidecar"
        BY <1>2 DEF WriteSidecar, At
      <3>2. Consistent(me, segment) /\ Operates(me) /\ me \in Proc /\ me.lease \in Nat
        BY CommandFacts, ProcFields DEF AllOperate
      <3>3. Trusted(me.mem) /\ me.chunk \in Chunks
        BY CommandFacts
      <3> HIDE DEF me
      <3>4. QED
        BY <3>1, <3>2, <3>3 DEF Consistent, Operates
    <2>2. Persist(p, N, "committed")
      BY <1>2 DEF WriteSidecar, CommitManifest
    <2>3. CommitOf(me.mem, N, me.chunk)
      <3>1. /\ N.state = StateAfterCommit(me.mem.state, N.chunks)
            /\ N.chunks[me.chunk] = CompleteRecord(me.lease, me.completion)
            /\ \A d \in Chunks \ {me.chunk} : N.chunks[d] = me.mem.chunks[d]
        BY <2>1, TrustedAfterCommit
      <3> HIDE DEF N, me
      <3>2. QED
        BY <2>1, <3>1, BuiltFields DEF CommitOf, HoldsLease
    <2> HIDE DEF N
    <2>4. QED
      BY <2>1, <2>2, <2>3, PersistStepOperates DEF Operation
  <1>3. QED
    BY <1>1, <1>2

\* After a commit the command goes on, or asks for a pause.
LEMMA CommittedOperates ==
  ASSUME Inv, AllOperate, NEW p \in Procs, Committed(p)
  PROVE  AllOperate'
  <1> DEFINE r == proc[p]
             N == NextManifest(r.mem, r.mem.chunks, StateAfterPause(r.mem.chunks))
             g == [r EXCEPT !.at = "lease", !.count = @ + 1]
             e == Ended(r.command, "error")
  <1>1. r \in Proc
    BY CommandFacts
  <1>2. \/ proc' = [proc EXCEPT ![p] = g]
        \/ proc' = [proc EXCEPT ![p] = e]
        \/ r.mem.state = "running" /\ proc' = [proc EXCEPT ![p] = Persisting(r, N, "finish")]
    BY DEF Committed
  <1>3. g.at = "lease" /\ e.at = "idle"
    BY <1>1 DEF Proc, Ended
  <1> HIDE DEF g, e
  <1>4. Operates(g) /\ Operates(e)
    BY <1>3, IdleOperates
  <1>5. r.mem.state = "running" => Operation(r.mem, N)
    BY DEF Operation, PauseOf, NextManifest
  <1> HIDE DEF N
  <1>6. r.mem.state = "running" => Operates(Persisting(r, N, "finish"))
    BY <1>1, <1>5, PersistOperates
  <1>7. QED
    BY <1>2, <1>4, <1>6, OneOperates

\* The other points of the commands prepare nothing.
LEMMA OthersOperate ==
  ASSUME Inv, AllOperate, NEW p \in Procs,
         Encode(p) \/ Finish(p) \/ Concat(p) \/ Qa(p) \/ Compare(p) \/ Kill(p)
  PROVE  AllOperate'
  <1>1. CASE Encode(p)
    BY <1>1, GotoOperates DEF Encode
  <1>2. CASE Finish(p)
    BY <1>2, GotoOperates, ExitOperates DEF Finish, Fail
  <1>3. CASE Concat(p) \/ Qa(p) \/ Kill(p)
    BY <1>3, ExitOperates DEF Concat, Qa, Kill, Fail
  <1>4. CASE Compare(p)
    BY <1>4, GotoOperates, ExitOperates DEF Compare, Fail, At
  <1>5. QED
    BY <1>1, <1>2, <1>3, <1>4

\* Every step keeps what commands are about to write one operation away from
\* what they hold.
LEMMA OperatesNext ==
  ASSUME Inv, MadeInv, AllOperate, [Next]_vars
  PROVE  AllOperate'
  <1>1. ASSUME NEW p \in Procs, Begin(p) \/ Step(p) \/ Kill(p)
        PROVE  AllOperate'
    BY <1>1, ReadAndWriteOperate, DecideOperates, TakeLeaseOperates, StateMovesOperate,
       CommitOperates, CommittedOperates, OthersOperate DEF Step
  <1>2. ASSUME NEW c \in Chunks, Lapse(c)
        PROVE  AllOperate'
    BY <1>2 DEF Lapse, AllOperate
  <1>3. CASE UNCHANGED vars
    BY <1>3 DEF vars, AllOperate
  <1>4. QED
    BY <1>1, <1>2, <1>3 DEF Next

\* What a command is about to write is one operation on what it holds.
LEMMA OperatesInvariance == Spec => []AllOperate
  <1>1. Init => MadeInv /\ AllOperate
    BY MadeInit, IdleOperates DEF Init, AllOperate, Ended
  <1>2. Inv /\ MadeInv /\ [Next]_vars => MadeInv'
    BY MadeNext
  <1>3. Inv /\ MadeInv /\ AllOperate /\ [Next]_vars => AllOperate'
    BY OperatesNext
  <1>4. QED
    BY <1>1, <1>2, <1>3, Invariance, PTL DEF Spec

-----------------------------------------------------------------------------
\* In the ledger a chunk is held exactly if its record is leased: its lease was
\* recorded at least once.
Counts == recorded \in [Chunks -> Nat]

HeldWasCounted == \A c \in Chunks : disk.chunks[c].status = "leased" => recorded[c] # 0

\* Manifests in which no chunk is newly leased: holders are dropped at most.
LEMMA OnlyReleases ==
  ASSUME Counts, Counted,
         \A c \in Chunks : disk'.chunks[c].status = "leased" => disk'.chunks[c] = disk.chunks[c]
  PROVE  /\ recorded' = recorded
         /\ HeldWasCounted => HeldWasCounted'
         /\ \E R \in SUBSET Chunks : HeldIn(disk', recorded') = L!Without(R)
  <1>1. \A c \in Chunks : ~NewlyLeased(c)
    BY DEF NewlyLeased
  <1>2. recorded' = recorded
    BY <1>1 DEF Counted, Counts
  <1>3. HeldWasCounted => HeldWasCounted'
    BY <1>2 DEF HeldWasCounted
  <1> DEFINE R == {c \in Chunks : disk'.chunks[c].status # "leased"}
  <1>4. HeldIn(disk', recorded') = L!Without(R)
    BY <1>2 DEF HeldIn, L!Without
  <1>5. QED
    BY <1>2, <1>3, <1>4

\* A lease that is recorded grants a chunk of the ledger.
LEMMA LeaseGrants ==
  ASSUME Counts, Counted, HeldWasCounted, NEW c \in Chunks, LeaseOf(disk, disk', c)
  PROVE  L!Grant(c) /\ HeldWasCounted'
  <1> DEFINE R == {d \in Chunks : disk'.chunks[d].status # "leased" \/ d = c}
             g == [d \in Chunks |-> IF d \in R THEN 0 ELSE HeldIn(disk, recorded)[d]]
  <1>1. disk'.chunks[c].status = "leased" /\ NewlyLeased(c)
    BY BuiltFields DEF LeaseOf, NewlyLeased
  <1>2. ASSUME NEW d \in Chunks, d # c
        PROVE  /\ ~NewlyLeased(d)
               /\ disk'.chunks[d].status = "leased" => disk.chunks[d].status = "leased"
               /\ disk'.chunks[d].status = "complete" <=> disk.chunks[d].status = "complete"
    BY <1>2, BuiltFields DEF LeaseOf, Dropped, NewlyLeased
  <1>3. recorded' = [recorded EXCEPT ![c] = @ + 1]
    BY <1>1, <1>2 DEF Counted, Counts
  <1>4. \A d \in Chunks : HeldIn(disk', recorded')[d]
                            = IF d = c THEN recorded[c] + 1 ELSE g[d]
    BY <1>1, <1>2, <1>3 DEF HeldIn, Counts
  <1>5. HeldIn(disk', recorded') = [g EXCEPT ![c] = recorded[c] + 1]
    <2>1. HeldIn(disk', recorded') = [d \in Chunks |-> HeldIn(disk', recorded')[d]]
      BY DEF HeldIn
    <2>2. [g EXCEPT ![c] = recorded[c] + 1]
            = [d \in Chunks |-> IF d = c THEN recorded[c] + 1 ELSE g[d]]
      OBVIOUS
    <2> HIDE DEF g
    <2>3. QED
      BY <1>4, <2>1, <2>2
  <1>6. g[c] = 0 /\ L!Without(R) = g
    BY DEF L!Without
  <1>7. \E Q \in SUBSET Chunks :
          /\ L!Without(Q)[c] = 0
          /\ HeldIn(disk', recorded') = [L!Without(Q) EXCEPT ![c] = recorded[c] + 1]
    <2>1. R \in SUBSET Chunks
      OBVIOUS
    <2> HIDE DEF g, R
    <2>2. QED
      BY <1>5, <1>6, <2>1
  <1>8. c \notin DoneIn(disk) /\ DoneIn(disk') = DoneIn(disk)
    BY <1>1, <1>2 DEF DoneIn, LeaseOf
  <1>9. disk.state = "running" /\ disk'.state = disk.state
    BY DEF LeaseOf
  <1>10. HeldWasCounted'
    BY <1>2, <1>3 DEF HeldWasCounted, Counts
  <1>11. QED
    BY <1>3, <1>7, <1>8, <1>9, <1>10 DEF L!Grant

\* An expiry that is recorded reclaims grants of the ledger.
LEMMA ExpiryReclaims ==
  ASSUME Counts, Counted, HeldWasCounted, ExpiryOf(disk, disk')
  PROVE  L!Reclaim /\ HeldWasCounted'
  <1>1. \A c \in Chunks : disk'.chunks[c].status = "leased" => disk'.chunks[c] = disk.chunks[c]
    BY BuiltFields DEF ExpiryOf, Dropped
  <1>2. DoneIn(disk') = DoneIn(disk)
    BY BuiltFields DEF ExpiryOf, Dropped, DoneIn
  <1>3. disk.state # "running" /\ disk'.state = disk.state
    BY DEF ExpiryOf
  <1>4. QED
    BY <1>1, <1>2, <1>3, OnlyReleases DEF L!Reclaim

\* A commit that is recorded finishes a chunk of the ledger.
LEMMA CommitFinishes ==
  ASSUME Counts, Counted, HeldWasCounted, NEW c \in Chunks, CommitOf(disk, disk', c)
  PROVE  L!Finish(c) /\ HeldWasCounted'
  <1>1. \A d \in Chunks : disk'.chunks[d].status = "leased" => disk'.chunks[d] = disk.chunks[d]
    BY DEF CommitOf
  <1>2. recorded' = recorded /\ HeldWasCounted'
    BY <1>1, OnlyReleases
  <1>3. HeldIn(disk, recorded)[c] # 0 /\ c \notin DoneIn(disk)
    BY DEF CommitOf, HeldWasCounted, HeldIn, DoneIn
  <1>4. DoneIn(disk') = DoneIn(disk) \union {c}
    BY DEF CommitOf, DoneIn
  <1>5. HeldIn(disk', recorded') = [HeldIn(disk, recorded) EXCEPT ![c] = 0]
    BY <1>2 DEF CommitOf, HeldIn
  <1>6. DoneIn(disk') = Chunks <=> AllComplete(disk'.chunks)
    BY DoneFacts
  <1>7. QED
    BY <1>2, <1>3, <1>4, <1>5, <1>6 DEF CommitOf, L!Finish, StateAfterCommit

\* A pause or a resume that is recorded is one of the ledger.
LEMMA PausesAndResumes ==
  ASSUME Counts, Counted, HeldWasCounted, PauseOf(disk, disk') \/ ResumeOf(disk, disk')
  PROVE  (L!Pause \/ L!Resume) /\ HeldWasCounted'
  <1>1. disk'.chunks = disk.chunks
    BY DEF PauseOf, ResumeOf
  <1>2. recorded' = recorded /\ HeldWasCounted'
    BY <1>1, OnlyReleases
  <1>3. HeldIn(disk', recorded') = HeldIn(disk, recorded) /\ DoneIn(disk') = DoneIn(disk)
    BY <1>1, <1>2 DEF HeldIn, DoneIn
  <1>4. (\E c \in Chunks : HeldIn(disk, recorded)[c] # 0) <=> HasLease(disk.chunks)
    BY DEF HeldIn, HasLease, HeldWasCounted
  <1>5. QED
    BY <1>2, <1>3, <1>4 DEF PauseOf, ResumeOf, L!Pause, L!Resume, StateAfterPause

\* A recovery that is recorded is one of the ledger.
LEMMA RecoveryRecovers ==
  ASSUME Counts, Counted, HeldWasCounted, RecoverOf(disk, disk'), Trusted(disk)
  PROVE  L!Recover /\ HeldWasCounted'
  <1>1. \A c \in Chunks : disk'.chunks[c].status = "leased" => disk'.chunks[c] = disk.chunks[c]
    BY DEF RecoverOf
  <1>2. /\ recorded' = recorded /\ HeldWasCounted'
        /\ \E R \in SUBSET Chunks : HeldIn(disk', recorded') = L!Without(R)
    BY <1>1, OnlyReleases
  <1>3. DoneIn(disk') \in SUBSET {c \in Chunks : HeldIn(disk', recorded')[c] = 0}
    BY DEF HeldIn, DoneIn
  <1>4. DoneIn(disk') = Chunks <=> AllComplete(disk'.chunks)
    BY DoneFacts
  <1>5. disk.state # "failed"
    BY DEF Trusted, Sound
  <1>6. disk'.state = IF disk.state = "pause_requested" THEN "paused"
                      ELSE IF DoneIn(disk') = Chunks THEN "complete"
                      ELSE IF disk.state = "paused" THEN "paused" ELSE "running"
    BY <1>4, <1>5 DEF RecoverOf, StateAfterRecover
  <1>7. QED
    BY <1>2, <1>3, <1>6 DEF L!Recover

\* A step that does not write the manifest file is not seen in the ledger.
LEMMA OthersStutter ==
  ASSUME Counts, HeldWasCounted, Counted \/ recorded' = recorded, disk' = disk
  PROVE  UNCHANGED L!vars /\ HeldWasCounted'
  <1>1. \A c \in Chunks : ~NewlyLeased(c)
    BY DEF NewlyLeased
  <1>2. recorded' = recorded
    BY <1>1 DEF Counted, Counts
  <1>3. QED
    BY <1>2 DEF L!vars, HeldIn, DoneIn, HeldWasCounted

\* One step of any command, as long as nothing raced, is one step of the ledger.
LEMMA StepsAreLedgerSteps ==
  ASSUME Inv, AllOperate, ~raced, Counts, HeldWasCounted,
         [Next /\ Counted]_<<vars, recorded>>
  PROVE  [L!Next]_(L!vars) /\ HeldWasCounted'
  <1>1. CASE disk' = disk
    BY <1>1, OthersStutter
  <1>2. CASE disk' # disk
    <2>1. Next /\ Counted
      BY <1>2 DEF vars
    <2>2. PICK p \in Procs : /\ proc[p].at = "replace"
                             /\ proc[p].mem = disk
                             /\ disk' = proc[p].new
      BY <1>2, <2>1, WritesAreReplacements
    <2>3. Operation(disk, disk')
      BY <2>2 DEF AllOperate, Operates, Writing
    <2>4. Trusted(disk)
      BY DEF Inv, FilesTyped
    <2>5. QED
      BY <2>1, <2>3, <2>4, LeaseGrants, ExpiryReclaims, CommitFinishes, PausesAndResumes,
         RecoveryRecovers DEF Operation, L!Next
  <1>3. QED
    BY <1>1, <1>2

\* Recorded leases are counted.
LEMMA CountsNext ==
  ASSUME Counts, [Next /\ Counted]_<<vars, recorded>>
  PROVE  Counts'
  BY DEF Counts, Counted

\* Counting changes nothing.
LEMMA CountedIsSpec == CountedSpec => Spec
  <1>1. [Next /\ Counted]_<<vars, recorded>> => [Next]_vars
    BY DEF vars
  <1>2. QED
    BY <1>1, PTL DEF CountedSpec, Spec

\* Several commands on one manifest, killed at any step: as long as no write
\* falls between the accesses of another command's pair, the manifest file
\* moves by whole operations, each on the manifest that is on disk, although
\* every command decides on a manifest that it read earlier.
THEOREM CommandsImplementLedger == CountedSpec /\ []~raced => L!Spec
  <1>1. Init /\ recorded = [c \in Chunks |-> 0] => Counts /\ HeldWasCounted /\ L!Init
    BY BuiltFields DEF Init, FirstManifest, Counts, HeldWasCounted, L!Init, HeldIn, DoneIn
  <1>2. Counts /\ [Next /\ Counted]_<<vars, recorded>> => Counts'
    BY CountsNext
  <1>3. /\ Inv /\ AllOperate /\ ~raced /\ Counts /\ HeldWasCounted
        /\ [Next /\ Counted]_<<vars, recorded>>
        => [L!Next]_(L!vars) /\ HeldWasCounted'
    BY StepsAreLedgerSteps
  <1>4. QED
    BY <1>1, <1>2, <1>3, CountedIsSpec, Invariance, OperatesInvariance, PTL
       DEF CountedSpec, L!Spec

\* Commands that run one after the other implement the ledger, wherever they
\* are killed: without a second command no write falls between two accesses.
THEOREM LoneCommandsImplementLedger == CountedSpec /\ []OneAtATime => L!Spec
  <1>1. AloneInv => ~raced
    BY DEF AloneInv, FilesAgree
  <1>2. QED
    BY <1>1, CountedIsSpec, AloneInvariance, CommandsImplementLedger, PTL
=============================================================================
