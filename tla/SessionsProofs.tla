--------------------------- MODULE SessionsProofs ---------------------------
(***************************************************************************)
(* Theorems about Sessions, for every number of chunks, hosts, output      *)
(* roots, videos, sessions and archives: what is recorded as complete was  *)
(* made from the source of its job, the records next to a manifest are of  *)
(* its job, what is reported or accepted is the job's video, and an        *)
(* archive made while a run is at work holds the work that was done.       *)
(***************************************************************************)
EXTENDS Sessions, ManifestProofs, WellFoundedInduction

-----------------------------------------------------------------------------
(***************************************************************************)
(* Names and collections of files.                                         *)
(***************************************************************************)

TheManifest == Artifact("manifest")
TheTimeline == Artifact("timeline")
TheVideo == Artifact("enhanced-video")
TheSelection == Artifact("selection")

\* Names are told apart by their kind, and within a kind by their chunk.
LEMMA Kinds ==
  /\ TheManifest \in Names /\ TheManifest.kind = "manifest"
  /\ TheTimeline \in Names /\ TheTimeline.kind = "timeline"
  /\ TheVideo \in Names /\ TheVideo.kind = "enhanced-video"
  /\ TheSelection \in Names /\ TheSelection.kind = "selection"
  /\ \A c \in Chunks :
       /\ Partial(c) \in Names /\ Partial(c).kind = "partial" /\ Partial(c).chunk = c
       /\ Segment(c) \in Names /\ Segment(c).kind = "segment" /\ Segment(c).chunk = c
       /\ SidecarOf(c) \in Names /\ SidecarOf(c).kind = "sidecar" /\ SidecarOf(c).chunk = c
  <1>1. /\ TheManifest \in Names /\ TheManifest.kind = "manifest"
        /\ TheTimeline \in Names /\ TheTimeline.kind = "timeline"
        /\ TheVideo \in Names /\ TheVideo.kind = "enhanced-video"
        /\ TheSelection \in Names /\ TheSelection.kind = "selection"
    BY DEF TheManifest, TheTimeline, TheVideo, TheSelection, Artifact, Artifacts, Names, File_
  <1>2. ASSUME NEW c \in Chunks, NEW k \in {"partial", "segment", "sidecar"}
        PROVE  File_(k, c) \in Names /\ File_(k, c).kind = k /\ File_(k, c).chunk = c
    BY DEF Names, SegmentFiles, File_
  <1>3. QED
    BY <1>1, <1>2 DEF Partial, Segment, SidecarOf

\* What each kind of file holds.
LEMMA Contents ==
  /\ ContentOf("manifest") = StoredManifest
  /\ ContentOf("timeline") = Identity
  /\ ContentOf("enhanced-video") = [Chunks -> Payloads]
  /\ ContentOf("sidecar") = [lease : Nat, completion : Stored]
  /\ ContentOf("selection") = Payloads
  /\ ContentOf("partial") = Payloads
  /\ ContentOf("segment") = Payloads
  BY DEF ContentOf

\* Every name has a place in the order of sorted().
LEMMA PositionIsNatural ==
  ASSUME NEW n \in Names
  PROVE  Position(n) \in Nat
  BY ChunkAssumption DEF Position, Names, Artifacts, SegmentFiles, Artifact, File_, Chunks

\* Where a file is removed the others stay.
LEMMA WithoutFile ==
  ASSUME NEW files, NEW n
  PROVE  /\ DOMAIN Without(files, n) = DOMAIN files \ {n}
         /\ \A k \in DOMAIN files : k # n => Without(files, n)[k] = files[k]
  BY DEF Without

\* The empty directory has no files.
LEMMA NoFiles == DOMAIN Empty = {}
  BY DEF Empty

\* The order of sorted() has a first element in every set of names.
LEMMA FirstIsChosen ==
  ASSUME NEW names, names \subseteq Names, names # {}
  PROVE  FirstOf(names) \in names
  <1> DEFINE T == {Position(n) : n \in names}
             R == OpToRel(<, Nat)
  <1>1. T \subseteq Nat /\ T # {}
    BY PositionIsNatural
  <1>2. IsWellFoundedOn(R, Nat)
    BY NatLessThanWellFounded
  <1>3. \A x, y \in Nat : y < x => <<y, x>> \in R
    BY DEF OpToRel
  <1> HIDE DEF R
  <1>4. PICK x \in T : \A y \in T : <<y, x>> \notin R
    BY <1>1, <1>2, WFMin
  <1>5. \A y \in T : x \in Nat /\ y \in Nat /\ ~(y < x)
    <2> HIDE DEF T
    <2> QED
      BY <1>1, <1>3, <1>4
  <1>6. PICK n \in names : Position(n) = x
    BY <1>4
  <1>7. \A k \in names : Position(n) <= Position(k)
    BY <1>5, <1>6
  <1> HIDE DEF T
  <1>8. QED
    BY <1>6, <1>7 DEF FirstOf

-----------------------------------------------------------------------------
(***************************************************************************)
(* The inductive invariant.                                                *)
(***************************************************************************)

\* A manifest is accepted by the schema, and complete only if its chunks are.
GoodMem(m) ==
  /\ GoodManifest(m)
  /\ m.state = "complete" => AllComplete(m.chunks)

GoodStored(m) ==
  /\ m \in StoredManifest /\ RecordsWellFormed(m.body)
  /\ m.body.state = "complete" => AllComplete(m.body.chunks)

OfItsSource(m) ==
  \A c \in Chunks : m.body.chunks[c].status = "complete" =>
    m.body.chunks[c].completion.sha = m.identity.source

Sourced(chunks, identity, sw) ==
  \/ sw
  \/ \A c \in Chunks : chunks[c].status = "complete" => chunks[c].completion.sha = identity.source

\* A file has the content of its kind, and as long as no video was replaced
\* under a command (sw), what a manifest or a sidecar records was made from the
\* source of the identity it was recorded for.
Entry(n, x, sw) ==
  /\ n \in Names /\ x \in ContentOf(n.kind)
  /\ n.kind = "manifest" => GoodStored(x) /\ (sw \/ OfItsSource(x))
  /\ n.kind = "sidecar" => sw \/ x.completion.sha = x.completion.identity.source

Entries(files, sw) == \A n \in DOMAIN files : Entry(n, files[n], sw)

\* Timeline and video stand beside a manifest, and are of its job.
Whole(names) == TheTimeline \in names \/ TheVideo \in names => TheManifest \in names

MadeFrom(v, source) == \A c \in Chunks : v[c] = source

Agrees(files, sw) ==
  /\ Has(files, TheManifest) /\ Has(files, TheTimeline) =>
       files[TheTimeline] = files[TheManifest].identity
  /\ Has(files, TheManifest) /\ Has(files, TheVideo) =>
       sw \/ MadeFrom(files[TheVideo], files[TheManifest].identity.source)

Fits(files, sw) == Whole(DOMAIN files) /\ Agrees(files, sw)

\* The manifest in the directory is the one a command holds in memory, read
\* without regard to whether completions fit.
Mirrors(m, body) ==
  /\ body.state = m.state
  /\ \A c \in Chunks : /\ body.chunks[c].status = m.chunks[c].status
                       /\ body.chunks[c].completion.sha = m.chunks[c].completion.sha

RunType ==
  [at : RunPoints, seen : Nat, identity : AnyIdentity, mem : Manifest, chunk : Chunks,
   lease : Nat, outcome : Outcomes]

\* What a command has not yet done, by the point it is at.
Unhashed == {"idle", "stat", "hash"}
Unlaid == Unhashed \union {"selection"}
Unprobed == Unlaid \union {"probe"}
Unread == Unprobed \union {"construct"}

\* What a command (r) knows of the files, and of the video (v) it has hashed.
RunFits(r, files, v, sw, laid) ==
  /\ r \in RunType /\ GoodMem(r.mem)
  /\ r.at # "idle" => r.outcome = "none"
  /\ r.at \notin Unhashed => r.identity.source \in Payloads /\ (sw \/ r.identity.source = v)
  /\ r.at \notin Unlaid => laid
  /\ r.at \notin Unprobed => r.identity \in Identity
  /\ r.at \notin Unread =>
       /\ Has(files, TheManifest) /\ files[TheManifest].identity = r.identity
       /\ Mirrors(r.mem, files[TheManifest].body)
  /\ r.at = "publish" =>
       /\ Has(files, Partial(r.chunk))
       /\ sw \/ files[Partial(r.chunk)] = r.identity.source
  /\ r.at \in {"sidecar", "commit"} =>
       /\ Has(files, Segment(r.chunk))
       /\ sw \/ files[Segment(r.chunk)] = r.identity.source
  /\ r.at = "concat" =>
       \A c \in Chunks : /\ Has(files, Segment(c))
                         /\ r.mem.chunks[c].status = "complete"
                         /\ files[Segment(c)] = r.mem.chunks[c].completion.sha

\* A command that reported or accepted a video left it beside its manifest.
Reported(r, files, laid, sw, st) ==
  r.outcome \in {"complete", "accepted"} =>
    /\ r.at = "idle" /\ laid
    /\ \/ r.outcome = "accepted" /\ (st \/ sw)
       \/ \A c \in Chunks : files[TheVideo][c] = files[TheManifest].body.chunks[c].completion.sha

WorldInv ==
  /\ video.content \in Payloads /\ video.serial \in Nat
  /\ session \in [host : Hosts, root : Roots]
  /\ laidOut \in BOOLEAN /\ swapped \in BOOLEAN /\ stray \in BOOLEAN
  /\ issued \in Nat /\ lapsed \in 0..issued
  /\ archives \in Nat /\ sessions \in Nat /\ disturbances \in Nat

TreeInv ==
  /\ Entries(tree, swapped)
  /\ ~laidOut => tree = Empty
  /\ ~stray => Agrees(tree, swapped)
  /\ ~stray /\ unpack.at = "idle" => Whole(DOMAIN tree)

RunInv ==
  /\ RunFits(run, tree, video.content, swapped, laidOut)
  /\ Reported(run, tree, laidOut, swapped, stray)
  /\ unpack.at # "idle" => run.at = "idle" /\ run.outcome \notin {"complete", "accepted"}

ArchiveInv ==
  archive # NoArchive =>
    /\ archive.stray \in BOOLEAN
    /\ DOMAIN archive.files # {}
    /\ Entries(archive.files, swapped)
    /\ ~archive.stray => Fits(archive.files, swapped)

\* What was read belongs to the manifest that is in the directory, whose job
\* is the same as long as the session lasts.
ReadOfJob(read, files, sw) ==
  /\ Has(read, TheManifest) =>
       Has(files, TheManifest) /\ read[TheManifest].identity = files[TheManifest].identity
  /\ Has(read, TheTimeline) =>
       Has(files, TheManifest) /\ read[TheTimeline] = files[TheManifest].identity
  /\ Has(read, TheVideo) =>
       /\ Has(files, TheManifest)
       /\ sw \/ MadeFrom(read[TheVideo], files[TheManifest].identity.source)

\* The fields of the records of the archiver and the restorer.
IsPack(p) == p = [at |-> p.at, todo |-> p.todo, read |-> p.read, finished |-> p.finished,
                  stray |-> p.stray]
IsUnpack(u) == u = [at |-> u.at, todo |-> u.todo, files |-> u.files]

PackInv ==
  /\ IsPack(pack)
  /\ pack.at \in {"idle", "list", "read"} /\ pack.stray \in BOOLEAN
  /\ pack.at # "idle" =>
       /\ laidOut
       /\ pack.todo \subseteq Names
       /\ Entries(pack.read, swapped)
       /\ pack.at = "list" => pack.read = Empty
       /\ pack.at = "read" => pack.todo \union DOMAIN pack.read # {}
  /\ pack.at # "idle" /\ ~pack.stray =>
       /\ ~stray /\ unpack.at = "idle"
       /\ Whole(pack.todo \union DOMAIN pack.read)
       /\ ReadOfJob(pack.read, tree, swapped)

UnpackInv ==
  /\ IsUnpack(unpack)
  /\ unpack.at \in {"idle", "write"}
  /\ unpack.at = "write" =>
       /\ laidOut
       /\ Entries(unpack.files, swapped)
       /\ unpack.todo # {} /\ unpack.todo \subseteq DOMAIN unpack.files
       /\ DOMAIN unpack.files = DOMAIN tree \union unpack.todo
       /\ \A n \in DOMAIN tree : tree[n] = unpack.files[n]
       /\ ~stray => Fits(unpack.files, swapped)

Inv == WorldInv /\ TreeInv /\ RunInv /\ ArchiveInv /\ PackInv /\ UnpackInv

-----------------------------------------------------------------------------
(***************************************************************************)
(* Files and the invariant.                                                *)
(***************************************************************************)

\* What it takes to be a good file of each kind.
LEMMA EntryKinds ==
  ASSUME NEW x, NEW sw
  PROVE  /\ Entry(TheManifest, x, sw) <=> GoodStored(x) /\ (sw \/ OfItsSource(x))
         /\ Entry(TheTimeline, x, sw) <=> x \in Identity
         /\ Entry(TheVideo, x, sw) <=> x \in [Chunks -> Payloads]
         /\ Entry(TheSelection, x, sw) <=> x \in Payloads
         /\ \A c \in Chunks :
              /\ Entry(Partial(c), x, sw) <=> x \in Payloads
              /\ Entry(Segment(c), x, sw) <=> x \in Payloads
              /\ Entry(SidecarOf(c), x, sw) <=>
                   /\ x \in [lease : Nat, completion : Stored]
                   /\ sw \/ x.completion.sha = x.completion.identity.source
  <1>1. GoodStored(x) => x \in StoredManifest
    BY DEF GoodStored
  <1>2. QED
    BY <1>1, Kinds, Contents DEF Entry

\* A good sidecar records what was made from the source of its identity.
LEMMA SidecarEntry ==
  ASSUME NEW x, NEW sw, NEW c \in Chunks, Entry(SidecarOf(c), x, sw)
  PROVE  /\ x \in [lease : Nat, completion : Stored]
         /\ sw \/ x.completion.sha = x.completion.identity.source
  BY Kinds, Contents DEF Entry

\* Files stay good where a good one is written ...
LEMMA EntriesWith ==
  ASSUME NEW files, NEW sw, NEW n, NEW x, Entries(files, sw), Entry(n, x, sw)
  PROVE  Entries(With(files, n, x), sw)
  <1> DEFINE new == With(files, n, x)
  <1>1. /\ DOMAIN new = DOMAIN files \union {n} /\ new[n] = x
        /\ \A k \in DOMAIN files : k # n => new[k] = files[k]
    BY DEF With
  <1> HIDE DEF new
  <1>2. ASSUME NEW k \in DOMAIN new
        PROVE  Entry(k, new[k], sw)
    <2>1. CASE k = n
      BY <1>1, <2>1
    <2>2. CASE k # n
      BY <1>1, <2>2 DEF Entries
    <2>3. QED
      BY <2>1, <2>2
  <1>3. QED
    BY <1>2 DEF Entries, new

\* ... where one is removed ...
LEMMA EntriesWithout ==
  ASSUME NEW files, NEW sw, NEW n, Entries(files, sw)
  PROVE  Entries(Without(files, n), sw)
  BY WithoutFile, ZenonT(60) DEF Entries

\* ... and when less is asked of them.
LEMMA EntriesStay ==
  ASSUME NEW files, NEW sw, NEW later, Entries(files, sw), sw => later
  PROVE  Entries(files, later)
  BY DEF Entries, Entry

\* An empty directory has only good files.
LEMMA EntriesOfNothing ==
  ASSUME NEW sw
  PROVE  Entries(Empty, sw)
  BY NoFiles DEF Entries

\* Files other than the manifest, the timeline and the video may change.
LEMMA FitsStay ==
  ASSUME NEW old, NEW new, NEW sw, Fits(old, sw),
         \A n \in {TheManifest, TheTimeline, TheVideo} :
           /\ n \in DOMAIN new <=> n \in DOMAIN old
           /\ n \in DOMAIN old => new[n] = old[n]
  PROVE  Fits(new, sw)
  BY DEF Fits, Whole, Agrees, Has

-----------------------------------------------------------------------------
(***************************************************************************)
(* The manifest as it is read and written.                                 *)
(***************************************************************************)

\* A completion that is stored has a hash; what is read of it is a completion.
LEMMA CompletionsRead ==
  ASSUME NEW k \in Stored \union {NoCompletion}, NEW root, NEW identity
  PROVE  /\ AsRead(k, root, identity) \in Completion \union {NoCompletion}
         /\ AsRead(k, root, identity).sha = k.sha
         /\ AsRead(k, root, identity) = NoCompletion <=> k = NoCompletion
         /\ AsRead(k, root, identity).fits => k \in Stored /\ k.identity = identity
  BY PayloadAssumption DEF AsRead, Stored, NoCompletion, Completion

\* A completion that is written keeps its hash.
LEMMA CompletionsStored ==
  ASSUME NEW k \in Completion \union {NoCompletion}, NEW root \in Roots, NEW identity \in Identity
  PROVE  /\ AsStored(k, root, identity) \in Stored \union {NoCompletion}
         /\ AsStored(k, root, identity).sha = k.sha
         /\ AsStored(k, root, identity) = NoCompletion <=> k = NoCompletion
  BY PayloadAssumption DEF AsStored, Stored, NoCompletion, Completion

\* The manifest that a coordinator reads is accepted, and has the states and
\* hashes of the file.
LEMMA ManifestRead ==
  ASSUME NEW files, NEW root, NEW identity, GoodStored(files[TheManifest])
  PROVE  /\ GoodMem(ReadManifest(files, root, identity))
         /\ Mirrors(ReadManifest(files, root, identity), files[TheManifest].body)
         /\ \A c \in Chunks : ReadManifest(files, root, identity).chunks[c].completion
              = AsRead(files[TheManifest].body.chunks[c].completion, root, identity)
         /\ \A c \in Chunks : ReadManifest(files, root, identity).chunks[c].lease
              = files[TheManifest].body.chunks[c].lease
  <1> DEFINE b == files[TheManifest].body
             m == ReadManifest(files, root, identity)
             g == [c \in Chunks |->
                     [b.chunks[c] EXCEPT
                        !.completion = AsRead(b.chunks[c].completion, root, identity)]]
  <1>1. /\ b \in [gen : Nat, state : JobStates,
                  chunks : [Chunks -> [status : {"pending", "leased", "complete"}, lease : Nat,
                                       completion : Stored \union {NoCompletion}]]]
        /\ \A c \in Chunks : WellFormed(b.chunks[c])
        /\ b.state = "complete" => AllComplete(b.chunks)
    BY DEF GoodStored, StoredManifest, RecordsWellFormed
  <1>2. m = [b EXCEPT !.chunks = g]
    BY DEF ReadManifest, TheManifest
  <1> HIDE DEF b, m, g
  <1>3. /\ m.gen = b.gen /\ m.state = b.state /\ m.chunks = g
        /\ m = [gen |-> m.gen, state |-> m.state, chunks |-> m.chunks]
    BY <1>1, <1>2
  <1>4. ASSUME NEW c \in Chunks
        PROVE  /\ m.chunks[c] \in Record /\ WellFormed(m.chunks[c])
               /\ m.chunks[c].status = b.chunks[c].status /\ m.chunks[c].lease = b.chunks[c].lease
               /\ m.chunks[c].completion = AsRead(b.chunks[c].completion, root, identity)
               /\ m.chunks[c].completion.sha = b.chunks[c].completion.sha
    <2> DEFINE k == b.chunks[c].completion
               q == AsRead(k, root, identity)
    <2>1. k \in Stored \union {NoCompletion}
      BY <1>1
    <2>2. /\ q \in Completion \union {NoCompletion} /\ q.sha = k.sha
          /\ q = NoCompletion <=> k = NoCompletion
      BY <2>1, CompletionsRead
    <2>3. m.chunks[c] = [b.chunks[c] EXCEPT !.completion = q]
      BY <1>3 DEF g
    <2> HIDE DEF q
    <2>4. /\ m.chunks[c].status = b.chunks[c].status /\ m.chunks[c].lease = b.chunks[c].lease
          /\ m.chunks[c].completion = q
          /\ m.chunks[c] \in Record
      BY <1>1, <2>2, <2>3 DEF Record
    <2>5. WellFormed(m.chunks[c])
      BY <1>1, <2>2, <2>4 DEF WellFormed
    <2>6. QED
      BY <2>2, <2>4, <2>5 DEF q
  <1>5. m.chunks \in [Chunks -> Record]
    <2>1. m.chunks = [c \in Chunks |-> m.chunks[c]]
      BY <1>3 DEF g
    <2>2. QED
      BY <1>4, <2>1
  <1>6. GoodManifest(m)
    BY <1>1, <1>3, <1>4, <1>5 DEF GoodManifest, Manifest, RecordsWellFormed
  <1>7. GoodMem(m)
    BY <1>1, <1>3, <1>4, <1>6 DEF GoodMem, AllComplete
  <1>8. Mirrors(m, b)
    BY <1>3, <1>4 DEF Mirrors
  <1>9. QED
    BY <1>4, <1>7, <1>8 DEF m, b

\* What a coordinator of a job makes of the manifest that it writes.
Written(m, root, identity) ==
  [identity |-> identity,
   body |-> [m EXCEPT !.chunks =
     [c \in Chunks |-> [m.chunks[c] EXCEPT
                          !.completion = AsStored(m.chunks[c].completion, root, identity)]]]]

\* The manifest that a coordinator writes is good, and has the states and hashes
\* of the one in memory.
LEMMA ManifestWritten ==
  ASSUME NEW m, NEW root \in Roots, NEW identity \in Identity, NEW sw, GoodMem(m),
         Sourced(m.chunks, identity, sw)
  PROVE  /\ Entry(TheManifest, Written(m, root, identity), sw)
         /\ Written(m, root, identity).identity = identity
         /\ Mirrors(m, Written(m, root, identity).body)
  <1> DEFINE w == Written(m, root, identity)
             b == w.body
             g == [c \in Chunks |->
                     [m.chunks[c] EXCEPT
                        !.completion = AsStored(m.chunks[c].completion, root, identity)]]
  <1>1. /\ m \in Manifest /\ m.chunks \in [Chunks -> Record]
        /\ \A c \in Chunks : m.chunks[c] \in Record /\ WellFormed(m.chunks[c])
        /\ m.state = "complete" => AllComplete(m.chunks)
    BY DEF GoodMem, GoodManifest, Manifest, RecordsWellFormed
  <1>2. /\ w = [identity |-> identity, body |-> b] /\ w.identity = identity
        /\ b = [m EXCEPT !.chunks = g]
    BY DEF Written
  <1> HIDE DEF b, w, g
  <1>3. /\ b.gen = m.gen /\ b.state = m.state /\ b.chunks = g
        /\ b = [gen |-> b.gen, state |-> b.state, chunks |-> b.chunks]
    BY <1>1, <1>2 DEF Manifest
  <1>4. ASSUME NEW c \in Chunks
        PROVE  /\ b.chunks[c] \in [status : {"pending", "leased", "complete"}, lease : Nat,
                                   completion : Stored \union {NoCompletion}]
               /\ WellFormed(b.chunks[c])
               /\ b.chunks[c].status = m.chunks[c].status
               /\ b.chunks[c].completion.sha = m.chunks[c].completion.sha
    <2> DEFINE k == m.chunks[c].completion
               q == AsStored(k, root, identity)
    <2>1. k \in Completion \union {NoCompletion}
      BY <1>1 DEF Record
    <2>2. /\ q \in Stored \union {NoCompletion} /\ q.sha = k.sha
          /\ q = NoCompletion <=> k = NoCompletion
      BY <2>1, CompletionsStored
    <2>3. b.chunks[c] = [m.chunks[c] EXCEPT !.completion = q]
      BY <1>3 DEF g
    <2> HIDE DEF q
    <2>4. /\ b.chunks[c].status = m.chunks[c].status /\ b.chunks[c].lease = m.chunks[c].lease
          /\ b.chunks[c].completion = q
          /\ b.chunks[c] \in [status : {"pending", "leased", "complete"}, lease : Nat,
                              completion : Stored \union {NoCompletion}]
      BY <1>1, <2>2, <2>3 DEF Record
    <2>5. WellFormed(b.chunks[c])
      BY <1>1, <2>2, <2>4 DEF WellFormed
    <2>6. QED
      BY <2>2, <2>4, <2>5
  <1>5. b.chunks \in [Chunks -> [status : {"pending", "leased", "complete"}, lease : Nat,
                                 completion : Stored \union {NoCompletion}]]
    <2>1. b.chunks = [c \in Chunks |-> b.chunks[c]]
      BY <1>3 DEF g
    <2>2. QED
      BY <1>4, <2>1
  <1>6. w \in StoredManifest
    BY <1>1, <1>2, <1>3, <1>5 DEF StoredManifest, Manifest
  <1>7. GoodStored(w)
    <2>1. w.body = b
      BY <1>2
    <2>2. QED
      BY <1>1, <1>3, <1>4, <1>6, <2>1 DEF GoodStored, RecordsWellFormed, AllComplete
  <1>8. sw \/ OfItsSource(w)
    BY <1>2, <1>4 DEF OfItsSource, Sourced
  <1>9. Mirrors(m, b)
    BY <1>3, <1>4 DEF Mirrors
  <1>10. QED
    BY <1>2, <1>7, <1>8, <1>9, EntryKinds DEF b, w

\* What WriteManifest makes of the files, for the job whose manifest is there.
LEMMA ManifestIsWritten ==
  ASSUME NEW files, NEW m, NEW root, NEW identity,
         Has(files, TheManifest) => files[TheManifest].identity = identity
  PROVE  WriteManifest(files, m, root, identity)
           = With(files, TheManifest, Written(m, root, identity))
  BY DEF WriteManifest, Written, TheManifest

-----------------------------------------------------------------------------
(***************************************************************************)
(* Steps of a command.                                                     *)
(***************************************************************************)

\* What a step knows of the command that takes it.
LEMMA RunKnows ==
  ASSUME Inv, run.at # "idle"
  PROVE  /\ RunFits(run, tree, video.content, swapped, laidOut)
         /\ run \in RunType /\ GoodMem(run.mem) /\ run.outcome = "none"
         /\ unpack.at = "idle"
         /\ Entries(tree, swapped)
         /\ ~stray => Fits(tree, swapped)
         /\ session.root \in Roots /\ session.host \in Hosts
         /\ video.content \in Payloads /\ video.serial \in Nat
         /\ laidOut \in BOOLEAN /\ issued \in Nat
  BY DEF Inv, WorldInv, TreeInv, RunInv, UnpackInv, RunFits, Fits

\* The fields of a command.
LEMMA RunFields ==
  ASSUME NEW r \in RunType
  PROVE  /\ r.at \in RunPoints /\ r.identity \in AnyIdentity /\ r.mem \in Manifest
         /\ r.chunk \in Chunks /\ r.lease \in Nat /\ r.outcome \in Outcomes
  BY DEF RunType

\* A command goes to another point with what it holds.
LEMMA RunGoes ==
  ASSUME NEW r \in RunType, NEW a \in RunPoints
  PROVE  LET q == [r EXCEPT !.at = a] IN
         /\ q \in RunType /\ q.at = a /\ q.identity = r.identity /\ q.mem = r.mem
         /\ q.chunk = r.chunk /\ q.lease = r.lease /\ q.outcome = r.outcome
  BY DEF RunType

\* A manifest that the invariant speaks of is a manifest of accepted records.
LEMMA GoodMemIsManifest ==
  ASSUME NEW m, GoodMem(m)
  PROVE  m \in Manifest /\ GoodChunks(m.chunks) /\ m.state \in JobStates /\ GoodManifest(m)
  BY GoodManifestFields DEF GoodMem, GoodManifest

\* The manifest of a new job.
LEMMA FirstIsGood ==
  /\ GoodMem(FirstManifest)
  /\ \A c \in Chunks : FirstManifest.chunks[c].status # "complete"
  BY GoodFirstManifest DEF GoodMem, FirstManifest, PendingRecord

\* A command that has ended holds nothing.
LEMMA EndedFits ==
  ASSUME NEW o \in Outcomes, NEW files, NEW v, NEW sw, NEW laid
  PROVE  /\ RunFits(Ended(o), files, v, sw, laid)
         /\ Ended(o).at = "idle" /\ Ended(o).outcome = o
  <1>1. 1 \in Chunks
    BY ChunkAssumption DEF Chunks
  <1>2. FirstManifest \in Manifest
    BY FirstIsGood, GoodMemIsManifest
  <1>3. /\ Ended(o) \in RunType /\ Ended(o).at = "idle" /\ Ended(o).outcome = o
        /\ Ended(o).mem = FirstManifest
    BY <1>1, <1>2 DEF Ended, RunType, RunPoints, AnyIdentity, NoIdentity, File
  <1>4. QED
    BY <1>3, FirstIsGood DEF RunFits, Unhashed, Unlaid, Unprobed, Unread

\* A step of a command: the other processes stay as they are, because it never
\* removes a manifest or changes its identity, and none is at work restoring.
LEMMA RunMoves ==
  ASSUME Inv, run.at # "idle",
         UNCHANGED others, issued' \in Nat, issued <= issued',
         laidOut' \in BOOLEAN, laidOut => laidOut', laidOut' \/ tree' = Empty,
         Entries(tree', swapped),
         RunFits(run', tree', video.content, swapped, laidOut'),
         Reported(run', tree', laidOut', swapped, stray),
         Has(tree, TheManifest) =>
           /\ Has(tree', TheManifest)
           /\ tree'[TheManifest].identity = tree[TheManifest].identity,
         ~stray => Fits(tree', swapped)
  PROVE  Inv'
  <1>1. unpack.at = "idle"
    BY RunKnows
  <1>2. WorldInv'
    BY DEF Inv, WorldInv, others, world
  <1>3. TreeInv'
    BY DEF TreeInv, Fits, others, world
  <1>4. RunInv'
    BY <1>1 DEF RunInv, others, world
  <1>5. ArchiveInv'
    BY DEF Inv, ArchiveInv, others, world
  <1>6. UnpackInv'
    BY <1>1 DEF Inv, UnpackInv, others, world
  <1>7. ReadOfJob(pack.read, tree, swapped) => ReadOfJob(pack.read, tree', swapped)
    BY DEF ReadOfJob
  <1>8. PackInv'
    BY <1>7 DEF Inv, PackInv, others, world
  <1>9. QED
    BY <1>2, <1>3, <1>4, <1>5, <1>6, <1>8 DEF Inv

\* A step that changes no file.
LEMMA RunMovesOn ==
  ASSUME Inv, run.at # "idle",
         UNCHANGED others, issued' = issued, laidOut' = laidOut, tree' = tree,
         RunFits(run', tree, video.content, swapped, laidOut),
         Reported(run', tree, laidOut, swapped, stray)
  PROVE  Inv'
  <1>1. /\ issued' \in Nat /\ issued <= issued' /\ laidOut' \in BOOLEAN
        /\ Entries(tree', swapped)
        /\ ~stray => Fits(tree', swapped)
    BY RunKnows
  <1>2. laidOut' \/ tree' = Empty
    BY DEF Inv, TreeInv
  <1>3. QED
    BY <1>1, <1>2, RunMoves

\* A command ends: it was refused, or failed, or reports a state of the job.
LEMMA RunEnds ==
  ASSUME Inv, run.at # "idle", NEW o \in Outcomes \ {"complete", "accepted"}, run' = Ended(o),
         UNCHANGED others, issued' = issued, laidOut' = laidOut, tree' = tree
  PROVE  Inv'
  <1>1. /\ RunFits(run', tree, video.content, swapped, laidOut)
        /\ run'.outcome = o
    BY EndedFits
  <1>2. Reported(run', tree, laidOut, swapped, stray)
    BY <1>1 DEF Reported
  <1>3. QED
    BY <1>1, <1>2, RunMovesOn

\* A step that writes a file other than the manifest, the timeline and the video,
\* once the directories are laid out.
LEMMA RunWrites ==
  ASSUME Inv, run.at # "idle", NEW n \in Names, NEW x, Entry(n, x, swapped),
         n \notin {TheManifest, TheTimeline, TheVideo},
         UNCHANGED others, issued' = issued, laidOut' = TRUE, tree' = With(tree, n, x),
         RunFits(run', tree', video.content, swapped, TRUE), run'.outcome = "none"
  PROVE  Inv'
  <1>1. Entries(tree', swapped)
    BY RunKnows, EntriesWith
  <1>2. /\ DOMAIN tree' = DOMAIN tree \union {n}
        /\ \A k \in DOMAIN tree : k # n => tree'[k] = tree[k]
    BY DEF With
  <1>3. ~stray => Fits(tree', swapped)
    BY <1>2, RunKnows, FitsStay
  <1>4. Has(tree, TheManifest) =>
          /\ Has(tree', TheManifest)
          /\ tree'[TheManifest].identity = tree[TheManifest].identity
    BY <1>2 DEF Has
  <1>5. Reported(run', tree', laidOut', swapped, stray)
    BY DEF Reported
  <1>6. issued' \in Nat /\ issued <= issued'
    BY RunKnows
  <1>7. QED
    BY <1>1, <1>3, <1>4, <1>5, <1>6, RunMoves

\* prepare_phase0 looks at the source and hashes it.
LEMMA StatIsSafe == Inv /\ StatSource => Inv'
  <1> SUFFICES ASSUME Inv, StatSource
               PROVE  Inv'
    OBVIOUS
  <1>1. /\ run.at = "stat" /\ run' = [run EXCEPT !.at = "hash", !.seen = video.serial]
        /\ UNCHANGED others /\ issued' = issued /\ laidOut' = laidOut /\ tree' = tree
    BY DEF StatSource
  <1>2. run \in RunType /\ video.serial \in Nat /\ GoodMem(run.mem) /\ run.outcome = "none"
    BY <1>1, RunKnows
  <1>3. run' \in RunType /\ run'.at = "hash" /\ run'.mem = run.mem /\ run'.outcome = "none"
    BY <1>1, <1>2 DEF RunType, RunPoints
  <1>4. RunFits(run', tree, video.content, swapped, laidOut)
    BY <1>2, <1>3 DEF RunFits, Unhashed, Unlaid, Unprobed, Unread
  <1>5. Reported(run', tree, laidOut, swapped, stray)
    BY <1>3 DEF Reported
  <1>6. QED
    BY <1>1, <1>4, <1>5, RunMovesOn

\* The file that was hashed is the one that was looked at.
LEMMA HashIsSafe == Inv /\ HashSource => Inv'
  <1> SUFFICES ASSUME Inv, HashSource
               PROVE  Inv'
    OBVIOUS
  <1>1. /\ run.at = "hash"
        /\ UNCHANGED others /\ issued' = issued /\ laidOut' = laidOut /\ tree' = tree
    BY DEF HashSource
  <1>2. /\ run \in RunType /\ video.content \in Payloads
        /\ GoodMem(run.mem) /\ run.outcome = "none"
    BY <1>1, RunKnows
  <1>3. CASE run.seen = video.serial
    <2>1. run' = [run EXCEPT !.at = "selection", !.identity.source = video.content]
      BY <1>3 DEF HashSource
    <2>2. /\ run' \in RunType /\ run'.at = "selection" /\ run'.mem = run.mem
          /\ run'.outcome = "none" /\ run'.identity.source = video.content
      BY <1>2, <2>1 DEF RunType, RunPoints, AnyIdentity, File
    <2>3. RunFits(run', tree, video.content, swapped, laidOut)
      BY <1>2, <2>2 DEF RunFits, Unhashed, Unlaid, Unprobed, Unread
    <2>4. Reported(run', tree, laidOut, swapped, stray)
      BY <2>2 DEF Reported
    <2>5. QED
      BY <1>1, <2>3, <2>4, RunMovesOn
  <1>4. CASE run.seen # video.serial
    <2>1. run' = Ended("error") /\ "error" \in Outcomes \ {"complete", "accepted"}
      BY <1>4 DEF HashSource, Outcomes
    <2>2. QED
      BY <1>1, <2>1, RunEnds
  <1>5. QED
    BY <1>3, <1>4

\* The directories are laid out and the selection is written.
LEMMA SelectionIsSafe == Inv /\ WriteSelection => Inv'
  <1> SUFFICES ASSUME Inv, WriteSelection
               PROVE  Inv'
    OBVIOUS
  <1>1. /\ run.at = "selection" /\ run' = [run EXCEPT !.at = "probe"]
        /\ UNCHANGED others /\ issued' = issued /\ laidOut' = TRUE
        /\ tree' = With(tree, TheSelection, run.identity.source)
    BY DEF WriteSelection, Goto, TheSelection
  <1>2. RunFits(run, tree, video.content, swapped, laidOut) /\ run \in RunType
    BY <1>1, RunKnows
  <1>3. run.identity.source \in Payloads /\ (swapped \/ run.identity.source = video.content)
    BY <1>1, <1>2 DEF RunFits, Unhashed
  <1>4. Entry(TheSelection, run.identity.source, swapped)
    BY <1>3, EntryKinds
  <1>5. /\ run' \in RunType /\ run'.at = "probe" /\ run'.mem = run.mem
        /\ run'.identity = run.identity /\ run'.outcome = run.outcome
    BY <1>1, <1>2, RunGoes, ZenonT(60) DEF RunPoints
  <1>6. run'.outcome = "none" /\ GoodMem(run'.mem)
    BY <1>1, <1>5, RunKnows
  <1>7. RunFits(run', tree', video.content, swapped, TRUE)
    BY <1>3, <1>5, <1>6 DEF RunFits, Unhashed, Unlaid, Unprobed, Unread
  <1>8. TheSelection \in Names /\ TheSelection \notin {TheManifest, TheTimeline, TheVideo}
    BY Kinds
  <1>9. QED
    BY <1>1, <1>4, <1>6, <1>7, <1>8, RunWrites

\* The source is probed.
LEMMA ProbeIsSafe == Inv /\ Probe => Inv'
  <1> SUFFICES ASSUME Inv, Probe
               PROVE  Inv'
    OBVIOUS
  <1>1. /\ run.at = "probe"
        /\ run' = [run EXCEPT !.at = "construct", !.identity.timing = video.content,
                              !.identity.host = session.host]
        /\ UNCHANGED others /\ issued' = issued /\ laidOut' = laidOut /\ tree' = tree
    BY DEF Probe
  <1>2. /\ run \in RunType /\ video.content \in Payloads /\ session.host \in Hosts
        /\ GoodMem(run.mem) /\ run.outcome = "none"
        /\ RunFits(run, tree, video.content, swapped, laidOut)
    BY <1>1, RunKnows
  <1>3. /\ run.identity.source \in Payloads /\ (swapped \/ run.identity.source = video.content)
        /\ laidOut
    BY <1>1, <1>2 DEF RunFits, Unhashed, Unlaid
  <1>4. /\ run' \in RunType /\ run'.at = "construct" /\ run'.mem = run.mem
        /\ run'.outcome = "none" /\ run'.identity.source = run.identity.source
        /\ run'.identity \in Identity
    BY <1>1, <1>2, <1>3 DEF RunType, RunPoints, AnyIdentity, Identity, File
  <1>5. RunFits(run', tree, video.content, swapped, laidOut)
    BY <1>2, <1>3, <1>4 DEF RunFits, Unhashed, Unlaid, Unprobed, Unread
  <1>6. Reported(run', tree, laidOut, swapped, stray)
    BY <1>4 DEF Reported
  <1>7. QED
    BY <1>1, <1>5, <1>6, RunMovesOn
-----------------------------------------------------------------------------
(***************************************************************************)
(* Steps that read and write the manifest.                                 *)
(***************************************************************************)

\* A manifest is written that records only what was made from the source.
LEMMA WritesManifest ==
  ASSUME Inv, run.at \notin Unprobed,
         Has(tree, TheManifest) => tree[TheManifest].identity = run.identity,
         NEW m, GoodMem(m),
         Sourced(m.chunks, run.identity, swapped),
         UNCHANGED others, issued' \in Nat, issued <= issued', laidOut' = laidOut,
         tree' = WriteManifest(tree, m, session.root, run.identity),
         run' \in RunType, run'.mem = m, run'.identity = run.identity, run'.outcome = "none",
         run'.at \in {"timeline", "recover", "reopen", "lease", "encode", "committed", "finish"}
  PROVE  Inv'
  <1> DEFINE w == Written(m, session.root, run.identity)
  <1>1. /\ run.at # "idle" /\ run.at \notin Unhashed /\ run.at \notin Unlaid
    BY DEF Unprobed, Unlaid, Unhashed
  <1>2. RunFits(run, tree, video.content, swapped, laidOut) /\ session.root \in Roots
    BY <1>1, RunKnows
  <1>3. /\ laidOut /\ run.identity \in Identity
        /\ run.identity.source \in Payloads /\ (swapped \/ run.identity.source = video.content)
    BY <1>1, <1>2 DEF RunFits
  <1>4. /\ Entry(TheManifest, w, swapped) /\ w.identity = run.identity
        /\ Mirrors(m, w.body)
    BY <1>2, <1>3, ManifestWritten
  <1>5. tree' = With(tree, TheManifest, w)
    BY ManifestIsWritten
  <1> HIDE DEF w
  <1>6. /\ DOMAIN tree' = DOMAIN tree \union {TheManifest} /\ tree'[TheManifest] = w
        /\ \A k \in DOMAIN tree : k # TheManifest => tree'[k] = tree[k]
    BY <1>5 DEF With
  <1>7. Entries(tree', swapped)
    BY <1>1, <1>4, <1>5, RunKnows, EntriesWith
  <1>8. ASSUME ~stray
        PROVE  Fits(tree', swapped)
    <2>1. Fits(tree, swapped)
      BY <1>1, <1>8, RunKnows
    <2>2. TheTimeline # TheManifest /\ TheVideo # TheManifest
      BY Kinds
    <2>3. Whole(DOMAIN tree')
      BY <1>6 DEF Whole
    <2>4. CASE Has(tree, TheManifest)
      BY <1>4, <1>6, <2>1, <2>2, <2>3, <2>4 DEF Fits, Agrees, Has
    <2>5. CASE ~Has(tree, TheManifest)
      BY <1>6, <2>1, <2>2, <2>3, <2>5 DEF Fits, Whole, Agrees, Has
    <2>6. QED
      BY <2>4, <2>5
  <1>9. RunFits(run', tree', video.content, swapped, laidOut')
    BY <1>3, <1>4, <1>6 DEF RunFits, Unhashed, Unlaid, Unprobed, Unread, Has
  <1>10. Reported(run', tree', laidOut', swapped, stray)
    BY DEF Reported
  <1>11. Has(tree, TheManifest) =>
           /\ Has(tree', TheManifest)
           /\ tree'[TheManifest].identity = tree[TheManifest].identity
    BY <1>4, <1>6 DEF Has
  <1>12. laidOut' \in BOOLEAN /\ (laidOut => laidOut') /\ laidOut'
    BY <1>3 DEF Inv, WorldInv
  <1>13. QED
    BY <1>1, <1>7, <1>8, <1>9, <1>10, <1>11, <1>12, RunMoves

\* What a command past the constructor knows.
LEMMA ReadKnows ==
  ASSUME Inv, run.at \notin Unread
  PROVE  /\ run.at # "idle" /\ run.at \notin Unprobed
         /\ run \in RunType /\ GoodMem(run.mem) /\ run.outcome = "none"
         /\ Has(tree, TheManifest) /\ tree[TheManifest].identity = run.identity
         /\ Mirrors(run.mem, tree[TheManifest].body)
         /\ laidOut /\ run.identity \in Identity
         /\ run.identity.source \in Payloads
         /\ swapped \/ run.identity.source = video.content
         /\ Entries(tree, swapped) /\ GoodStored(tree[TheManifest])
         /\ Sourced(run.mem.chunks, run.identity, swapped)
  <1>1. /\ run.at # "idle" /\ run.at \notin Unhashed /\ run.at \notin Unlaid
        /\ run.at \notin Unprobed
    BY DEF Unread, Unprobed, Unlaid, Unhashed
  <1>2. /\ RunFits(run, tree, video.content, swapped, laidOut)
        /\ Entries(tree, swapped) /\ run.outcome = "none"
    BY <1>1, RunKnows
  <1>3. /\ run \in RunType /\ GoodMem(run.mem)
        /\ Has(tree, TheManifest) /\ tree[TheManifest].identity = run.identity
        /\ Mirrors(run.mem, tree[TheManifest].body)
        /\ laidOut /\ run.identity \in Identity
        /\ run.identity.source \in Payloads
        /\ swapped \/ run.identity.source = video.content
    BY <1>1, <1>2 DEF RunFits
  <1>4. Entry(TheManifest, tree[TheManifest], swapped)
    BY <1>2, <1>3 DEF Entries, Has
  <1>5. GoodStored(tree[TheManifest]) /\ (swapped \/ OfItsSource(tree[TheManifest]))
    BY <1>4, EntryKinds
  <1>6. Sourced(run.mem.chunks, run.identity, swapped)
    BY <1>3, <1>5 DEF OfItsSource, Mirrors, Sourced
  <1>7. QED
    BY <1>1, <1>2, <1>3, <1>5, <1>6

\* Coordinator.__init__: a manifest is written, or read, or refused.
LEMMA ConstructIsSafe == Inv /\ Construct => Inv'
  <1> SUFFICES ASSUME Inv, Construct
               PROVE  Inv'
    OBVIOUS
  <1>1. /\ run.at = "construct" /\ UNCHANGED others /\ issued' = issued /\ laidOut' = laidOut
    BY DEF Construct
  <1>2. /\ run.at # "idle" /\ run.at \notin Unprobed /\ run.at \notin Unhashed
        /\ run.at \notin Unlaid
    BY <1>1 DEF Unprobed, Unlaid, Unhashed
  <1>3. /\ run \in RunType /\ run.outcome = "none" /\ issued \in Nat
        /\ RunFits(run, tree, video.content, swapped, laidOut) /\ Entries(tree, swapped)
    BY <1>2, RunKnows
  <1>4. "timeline" \in RunPoints /\ "refused" \in Outcomes \ {"complete", "accepted"}
    BY DEF RunPoints, Outcomes
  <1>5. CASE ~Has(tree, TheManifest)
    <2>1. /\ tree' = WriteManifest(tree, FirstManifest, session.root, run.identity)
          /\ run' = [run EXCEPT !.at = "timeline", !.mem = FirstManifest]
      BY <1>5 DEF Construct, TheManifest
    <2>2. /\ GoodMem(FirstManifest) /\ FirstManifest \in Manifest
          /\ \A c \in Chunks : FirstManifest.chunks[c].status # "complete"
      BY FirstIsGood, GoodMemIsManifest
    <2> DEFINE m == FirstManifest
    <2> HIDE DEF m
    <2>3. /\ run' \in RunType /\ run'.at = "timeline" /\ run'.mem = m
          /\ run'.identity = run.identity /\ run'.outcome = "none"
      BY <1>3, <1>4, <2>1, <2>2 DEF m, RunType
    <2>4. /\ GoodMem(m) /\ \A c \in Chunks : m.chunks[c].status # "complete"
          /\ tree' = WriteManifest(tree, m, session.root, run.identity)
      BY <2>1, <2>2 DEF m
    <2>5. Sourced(m.chunks, run.identity, swapped)
      BY <2>4 DEF Sourced
    <2>6. issued' \in Nat /\ issued <= issued'
      BY <1>1, <1>3
    <2>7. run'.at \in {"timeline", "recover", "reopen", "lease", "encode", "committed", "finish"}
      BY <2>3
    <2>8. QED
      BY <1>1, <1>2, <1>5, <2>3, <2>4, <2>5, <2>6, <2>7, WritesManifest
  <1>6. CASE Has(tree, TheManifest) /\ tree[TheManifest].identity = run.identity
    <2> DEFINE m == ReadManifest(tree, session.root, run.identity)
    <2>1. tree' = tree /\ run' = [run EXCEPT !.at = "timeline", !.mem = m]
      BY <1>6 DEF Construct, TheManifest
    <2>2. Entry(TheManifest, tree[TheManifest], swapped)
      BY <1>3, <1>6 DEF Entries, Has
    <2>3. GoodStored(tree[TheManifest])
      BY <2>2, EntryKinds
    <2>4. GoodMem(m) /\ Mirrors(m, tree[TheManifest].body)
      BY <2>3, ManifestRead
    <2>5. m \in Manifest
      BY <2>4, GoodMemIsManifest
    <2> HIDE DEF m
    <2>6. /\ run' \in RunType /\ run'.at = "timeline" /\ run'.mem = m
          /\ run'.identity = run.identity /\ run'.outcome = "none"
      BY <1>3, <1>4, <2>1, <2>5 DEF RunType
    <2>7. RunFits(run', tree, video.content, swapped, laidOut)
      BY <1>2, <1>3, <1>6, <2>4, <2>6 DEF RunFits, Unhashed, Unlaid, Unprobed, Unread
    <2>8. Reported(run', tree, laidOut, swapped, stray)
      BY <2>6 DEF Reported
    <2>9. QED
      BY <1>1, <1>2, <2>1, <2>7, <2>8, RunMovesOn
  <1>7. CASE Has(tree, TheManifest) /\ tree[TheManifest].identity # run.identity
    <2>1. tree' = tree /\ run' = Ended("refused")
      BY <1>7 DEF Construct, TheManifest
    <2>2. QED
      BY <1>1, <1>2, <1>4, <2>1, RunEnds
  <1>8. QED
    BY <1>5, <1>6, <1>7

\* The timeline and the other records are of the job whose manifest is there.
LEMMA RecordsAreSafe == Inv /\ WriteRecords => Inv'
  <1> SUFFICES ASSUME Inv, WriteRecords
               PROVE  Inv'
    OBVIOUS
  <1>1. /\ run.at = "timeline" /\ run' = [run EXCEPT !.at = "recover"]
        /\ UNCHANGED others /\ issued' = issued /\ laidOut' = laidOut
        /\ tree' = With(tree, TheTimeline, run.identity)
    BY DEF WriteRecords, Goto, TheTimeline
  <1>2. run.at \notin Unread /\ "recover" \in RunPoints
    BY <1>1 DEF Unread, Unprobed, Unlaid, Unhashed, RunPoints
  <1>3. /\ run.at # "idle" /\ run \in RunType /\ GoodMem(run.mem) /\ run.outcome = "none"
        /\ Has(tree, TheManifest) /\ tree[TheManifest].identity = run.identity
        /\ Mirrors(run.mem, tree[TheManifest].body)
        /\ laidOut /\ run.identity \in Identity /\ run.identity.source \in Payloads
        /\ swapped \/ run.identity.source = video.content
        /\ Entries(tree, swapped)
    BY <1>2, ReadKnows
  <1>4. /\ run' \in RunType /\ run'.at = "recover" /\ run'.mem = run.mem
        /\ run'.identity = run.identity /\ run'.outcome = "none"
    BY <1>1, <1>2, <1>3, RunGoes
  <1>5. Entries(tree', swapped)
    BY <1>1, <1>3, EntryKinds, EntriesWith
  <1>6. /\ DOMAIN tree' = DOMAIN tree \union {TheTimeline}
        /\ tree'[TheTimeline] = run.identity
        /\ \A k \in DOMAIN tree : k # TheTimeline => tree'[k] = tree[k]
    BY <1>1 DEF With
  <1>7. TheManifest # TheTimeline /\ TheVideo # TheTimeline
    BY Kinds
  <1>8. Has(tree', TheManifest) /\ tree'[TheManifest] = tree[TheManifest]
    BY <1>3, <1>6, <1>7 DEF Has
  <1>9. ASSUME ~stray
        PROVE  Fits(tree', swapped)
    <2>1. Fits(tree, swapped)
      BY <1>3, <1>9, RunKnows
    <2>2. Whole(DOMAIN tree')
      BY <1>8 DEF Whole, Has
    <2>3. QED
      BY <1>3, <1>6, <1>7, <1>8, <2>1, <2>2 DEF Fits, Agrees, Has
  <1>10. RunFits(run', tree', video.content, swapped, laidOut')
    BY <1>1, <1>3, <1>4, <1>8 DEF RunFits
  <1>11. Reported(run', tree', laidOut', swapped, stray)
    BY <1>4 DEF Reported
  <1>12. issued' \in Nat /\ issued <= issued' /\ laidOut' \in BOOLEAN
    BY <1>1, <1>3, RunKnows
  <1>13. QED
    BY <1>1, <1>3, <1>5, <1>8, <1>9, <1>10, <1>11, <1>12, RunMoves

\* recover: a record is complete only as it was before, with a segment that
\* matches, or from a sidecar that was written for this job.
LEMMA RecordsRecovered ==
  ASSUME NEW root, NEW identity, NEW newest, NEW sw, NEW files,
         Entries(files, sw), Has(files, TheManifest), files[TheManifest].identity = identity
  PROVE  /\ GoodChunks(Recovered(files, root, identity, newest))
         /\ Sourced(Recovered(files, root, identity, newest), identity, sw)
  <1> DEFINE mem == ReadManifest(files, root, identity)
             bound == [c \in Chunks |-> newest]
             seg == [c \in Chunks |-> Content(files, Segment(c))]
             side == [c \in Chunks |->
               IF Has(files, SidecarOf(c))
                 THEN [files[SidecarOf(c)] EXCEPT !.completion = AsRead(@, root, identity)]
                 ELSE NoSidecar]
             E == Expire(mem.chunks, bound)
             R == RecoveredChunks(mem.chunks, bound, seg, side)
  <1>1. R = Recovered(files, root, identity, newest)
    BY DEF Recovered
  <1>2. Entry(TheManifest, files[TheManifest], sw)
    BY DEF Entries, Has
  <1>3. GoodStored(files[TheManifest]) /\ (sw \/ OfItsSource(files[TheManifest]))
    BY <1>2, EntryKinds
  <1>4. GoodMem(mem) /\ Mirrors(mem, files[TheManifest].body)
    BY <1>3, ManifestRead
  <1>5. GoodChunks(mem.chunks)
    BY <1>4, GoodMemIsManifest
  <1>6. ASSUME NEW c \in Chunks
        PROVE  /\ side[c] \in Sidecar
               /\ side[c].completion \in Exact =>
                    sw \/ side[c].completion.sha = identity.source
    <2>1. CASE Has(files, SidecarOf(c))
      <3> DEFINE s == files[SidecarOf(c)]
                 k == s.completion
                 q == AsRead(k, root, identity)
      <3>1. Entry(SidecarOf(c), s, sw)
        BY <2>1 DEF Entries, Has
      <3>2. s \in [lease : Nat, completion : Stored] /\ (sw \/ k.sha = k.identity.source)
        BY <3>1, SidecarEntry
      <3>3. k \in Stored \union {NoCompletion}
        BY <3>2
      <3>4. /\ q \in Completion \union {NoCompletion} /\ q.sha = k.sha
            /\ q.fits => k.identity = identity
        BY <3>3, CompletionsRead
      <3>5. side[c] = [s EXCEPT !.completion = q]
        BY <2>1
      <3> HIDE DEF q, s, side
      <3>6. side[c] \in Sidecar /\ side[c].completion = q
        BY <3>2, <3>4, <3>5 DEF Sidecar
      <3>7. QED
        BY <3>2, <3>4, <3>6 DEF Exact
    <2>2. CASE ~Has(files, SidecarOf(c))
      <3>1. side[c] = NoSidecar
        BY <2>2
      <3>2. NoSidecar \in Sidecar /\ NoSidecar.completion \notin Exact
        BY PayloadAssumption DEF NoSidecar, Sidecar, NoCompletion, Exact, Completion
      <3> HIDE DEF side
      <3>3. QED
        BY <3>1, <3>2
    <2>3. QED
      BY <2>1, <2>2
  <1>7. side \in [Chunks -> Sidecar]
    BY <1>6
  <1> HIDE DEF side, seg, bound, mem
  <1>8. GoodChunks(R)
    BY <1>5, <1>7, GoodRecovered
  <1>9. ASSUME NEW c \in Chunks, R[c].status = "complete", ~sw
        PROVE  R[c].completion.sha = identity.source
    <2>1. E[c] = mem.chunks[c] \/ E[c] = PendingRecord
      BY <1>5, GoodExpire
    <2>2. Revalidate(E[c], seg[c]) \in {E[c], PendingRecord}
      BY DEF Revalidate
    <2>3. R[c] = Repair(Revalidate(E[c], seg[c]), seg[c], side[c])
      BY DEF RecoveredChunks
    <2> HIDE DEF E, R
    <2>4. \/ R[c] = Revalidate(E[c], seg[c])
          \/ /\ R[c] = CompleteRecord(side[c].lease, side[c].completion)
             /\ side[c].completion \in Exact
      BY <2>3 DEF Repair, SegmentMatches
    <2>5. CASE R[c] = CompleteRecord(side[c].lease, side[c].completion)
               /\ side[c].completion \in Exact
      <3>1. side[c].completion.sha = identity.source
        BY <1>6, <1>9, <2>5
      <3>2. R[c].completion = side[c].completion
        BY <2>5, BuiltFields
      <3>3. QED
        BY <3>1, <3>2
    <2>6. CASE R[c] = Revalidate(E[c], seg[c])
      <3>1. R[c] = mem.chunks[c]
        BY <1>9, <2>1, <2>2, <2>6, BuiltFields
      <3>2. QED
        BY <1>3, <1>4, <1>9, <3>1 DEF Mirrors, OfItsSource
    <2>7. QED
      BY <2>4, <2>5, <2>6
  <1> HIDE DEF R
  <1>10. QED
    BY <1>1, <1>8, <1>9 DEF Sourced

\* A generation is written that a command holds in its memory from then on.
LEMMA PersistIsSafe ==
  ASSUME Inv, run.at \notin Unread, UNCHANGED others, laidOut' = laidOut, issued' = issued,
         NEW m, GoodMem(m),
         Sourced(m.chunks, run.identity, swapped),
         NEW next \in {"reopen", "lease", "committed", "finish"}, Persisted(m, next)
  PROVE  Inv'
  <1>1. /\ run.at # "idle" /\ run.at \notin Unprobed /\ run \in RunType /\ run.outcome = "none"
        /\ Has(tree, TheManifest) /\ tree[TheManifest].identity = run.identity
    BY ReadKnows
  <1>2. /\ tree' = WriteManifest(tree, m, session.root, run.identity)
        /\ run' = [run EXCEPT !.at = next, !.mem = m]
    BY DEF Persisted
  <1>3. m \in Manifest /\ next \in RunPoints
    BY GoodMemIsManifest DEF RunPoints
  <1>4. /\ run' \in RunType /\ run'.at = next /\ run'.mem = m
        /\ run'.identity = run.identity /\ run'.outcome = "none"
    BY <1>1, <1>2, <1>3 DEF RunType
  <1>5. issued' \in Nat /\ issued <= issued'
    BY <1>1, RunKnows
  <1>6. run'.at \in {"timeline", "recover", "reopen", "lease", "encode", "committed", "finish"}
    BY <1>4
  <1>7. QED
    BY <1>1, <1>2, <1>4, <1>5, <1>6, WritesManifest

\* A command goes on with the manifest it holds, or with the one it reads again.
LEMMA GoesOn ==
  ASSUME Inv, run.at \notin Unread, UNCHANGED others, laidOut' = laidOut, issued' = issued,
         tree' = tree, NEW m, GoodMem(m), Mirrors(m, tree[TheManifest].body),
         run' \in RunType, run'.mem = m, run'.identity = run.identity, run'.outcome = "none",
         run'.at \in {"recover", "reopen", "lease", "encode", "committed", "finish"}
  PROVE  Inv'
  <1>1. /\ run.at # "idle"
        /\ Has(tree, TheManifest) /\ tree[TheManifest].identity = run.identity
        /\ laidOut /\ run.identity \in Identity /\ run.identity.source \in Payloads
        /\ swapped \/ run.identity.source = video.content
    BY ReadKnows
  <1>2. RunFits(run', tree, video.content, swapped, laidOut)
    BY <1>1 DEF RunFits
  <1>3. Reported(run', tree, laidOut, swapped, stray)
    BY DEF Reported
  <1>4. QED
    BY <1>1, <1>2, <1>3, RunMovesOn

\* recover.
LEMMA RecoverIsSafe == Inv /\ RecoverJob => Inv'
  <1> SUFFICES ASSUME Inv, RecoverJob
               PROVE  Inv'
    OBVIOUS
  <1> DEFINE mem == ReadManifest(tree, session.root, run.identity)
             records == Recovered(tree, session.root, run.identity, lapsed)
             state == StateAfterRecover(mem.state, records)
             m == NextManifest(mem, records, state)
  <1>1. /\ run.at = "recover"
        /\ UNCHANGED others /\ issued' = issued /\ laidOut' = laidOut
        /\ \/ Persisted(m, "reopen")
           \/ run' = [run EXCEPT !.at = "reopen", !.mem = mem] /\ tree' = tree
    BY DEF RecoverJob
  <1>2. run.at \notin Unread /\ "reopen" \in RunPoints
    BY <1>1 DEF Unread, Unprobed, Unlaid, Unhashed, RunPoints
  <1>3. /\ run \in RunType /\ run.outcome = "none"
        /\ Has(tree, TheManifest) /\ tree[TheManifest].identity = run.identity
        /\ Entries(tree, swapped) /\ GoodStored(tree[TheManifest])
    BY <1>2, ReadKnows
  <1>4. GoodMem(mem) /\ Mirrors(mem, tree[TheManifest].body)
    BY <1>3, ManifestRead
  <1>5. mem \in Manifest /\ mem.state \in JobStates /\ GoodManifest(mem)
    BY <1>4, GoodMemIsManifest
  <1>6. /\ GoodChunks(records)
        /\ Sourced(records, run.identity, swapped)
    BY <1>3, RecordsRecovered
  <1> HIDE DEF mem, records
  <1>7. state \in JobStates /\ (state = "complete" => AllComplete(records))
    BY <1>5, StateTypes DEF StateAfterRecover
  <1> HIDE DEF state
  <1>8. GoodManifest(m) /\ m.state = state /\ m.chunks = records
    BY <1>5, <1>6, <1>7, GoodNextManifest
  <1> HIDE DEF m
  <1>9. CASE Persisted(m, "reopen")
    <2>1. GoodMem(m)
      BY <1>7, <1>8 DEF GoodMem
    <2>2. Sourced(m.chunks, run.identity, swapped)
      BY <1>6, <1>8
    <2>3. QED
      BY <1>1, <1>2, <1>9, <2>1, <2>2, PersistIsSafe
  <1>10. CASE run' = [run EXCEPT !.at = "reopen", !.mem = mem] /\ tree' = tree
    <2>1. /\ run' \in RunType /\ run'.at = "reopen" /\ run'.mem = mem
          /\ run'.identity = run.identity /\ run'.outcome = "none"
      BY <1>2, <1>3, <1>5, <1>10 DEF RunType
    <2>2. run'.at \in {"recover", "reopen", "lease", "encode", "committed", "finish"}
      BY <2>1
    <2>3. QED
      BY <1>1, <1>2, <1>4, <1>10, <2>1, <2>2, GoesOn
  <1>11. QED
    BY <1>1, <1>9, <1>10

\* A change of the job state alone.
LEMMA StateIsSafe ==
  ASSUME Inv, run.at \notin Unread, UNCHANGED others, laidOut' = laidOut, issued' = issued,
         NEW s \in {"running", "pause_requested", "paused"},
         NEW next \in {"reopen", "lease", "committed", "finish"},
         Persisted(NextManifest(run.mem, run.mem.chunks, s), next)
  PROVE  Inv'
  <1> DEFINE m == NextManifest(run.mem, run.mem.chunks, s)
  <1>1. /\ GoodMem(run.mem)
        /\ Sourced(run.mem.chunks, run.identity, swapped)
    BY ReadKnows
  <1>2. GoodManifest(run.mem) /\ GoodChunks(run.mem.chunks) /\ s \in JobStates
    BY <1>1, GoodMemIsManifest DEF JobStates
  <1>3. GoodManifest(m) /\ m.state = s /\ m.chunks = run.mem.chunks
    BY <1>2, GoodNextManifest
  <1> HIDE DEF m
  <1>4. GoodMem(m)
    BY <1>3 DEF GoodMem
  <1>5. Sourced(m.chunks, run.identity, swapped)
    BY <1>1, <1>3
  <1>6. Persisted(m, next)
    BY DEF m
  <1>7. QED
    BY <1>4, <1>5, <1>6, PersistIsSafe

\* A command goes on with the manifest it holds.
LEMMA GotoIsSafe ==
  ASSUME Inv, run.at \notin Unread, UNCHANGED others, laidOut' = laidOut, issued' = issued,
         tree' = tree, NEW next \in {"lease", "finish"}, Goto(next)
  PROVE  Inv'
  <1>1. /\ run \in RunType /\ GoodMem(run.mem) /\ run.outcome = "none"
        /\ Mirrors(run.mem, tree[TheManifest].body)
    BY ReadKnows
  <1>2. run' = [run EXCEPT !.at = next] /\ next \in RunPoints
    BY DEF Goto, RunPoints
  <1>3. /\ run' \in RunType /\ run'.at = next /\ run'.mem = run.mem
        /\ run'.identity = run.identity /\ run'.outcome = "none"
    BY <1>1, <1>2, RunGoes
  <1>4. run'.at \in {"recover", "reopen", "lease", "encode", "committed", "finish"}
    BY <1>3
  <1>5. QED
    BY <1>1, <1>3, <1>4, GoesOn

\* resume_paused.
LEMMA ReopenIsSafe == Inv /\ Reopen => Inv'
  <1> SUFFICES ASSUME Inv, Reopen
               PROVE  Inv'
    OBVIOUS
  <1>1. /\ run.at = "reopen" /\ UNCHANGED others /\ issued' = issued /\ laidOut' = laidOut
        /\ \/ Persisted(NextManifest(run.mem, run.mem.chunks, "running"), "lease")
           \/ Goto("lease") /\ tree' = tree
    BY DEF Reopen
  <1>2. run.at \notin Unread
    BY <1>1 DEF Unread, Unprobed, Unlaid, Unhashed
  <1>3. CASE Persisted(NextManifest(run.mem, run.mem.chunks, "running"), "lease")
    BY <1>1, <1>2, <1>3, StateIsSafe
  <1>4. CASE Goto("lease") /\ tree' = tree
    BY <1>1, <1>2, <1>4, GotoIsSafe
  <1>5. QED
    BY <1>1, <1>3, <1>4

\* A pause after each chunk.
LEMMA CommittedIsSafe == Inv /\ Committed => Inv'
  <1> SUFFICES ASSUME Inv, Committed
               PROVE  Inv'
    OBVIOUS
  <1> DEFINE s == StateAfterPause(run.mem.chunks)
  <1>1. /\ run.at = "committed" /\ UNCHANGED others /\ issued' = issued /\ laidOut' = laidOut
        /\ \/ Persisted(NextManifest(run.mem, run.mem.chunks, s), "finish")
           \/ Goto("lease") /\ tree' = tree
    BY DEF Committed
  <1>2. run.at \notin Unread
    BY <1>1 DEF Unread, Unprobed, Unlaid, Unhashed
  <1>3. s \in {"running", "pause_requested", "paused"}
    BY DEF StateAfterPause
  <1> HIDE DEF s
  <1>4. CASE Persisted(NextManifest(run.mem, run.mem.chunks, s), "finish")
    BY <1>1, <1>2, <1>3, <1>4, StateIsSafe
  <1>5. CASE Goto("lease") /\ tree' = tree
    BY <1>1, <1>2, <1>5, GotoIsSafe
  <1>6. QED
    BY <1>1, <1>4, <1>5

\* lease: nothing is left to do, or the first pending chunk is leased.
LEMMA LeaseIsSafe == Inv /\ Lease => Inv'
  <1> SUFFICES ASSUME Inv, Lease
               PROVE  Inv'
    OBVIOUS
  <1> DEFINE records == Expire(run.mem.chunks, [c \in Chunks |-> lapsed])
             m(c) == NextManifest(run.mem, [records EXCEPT ![c] = LeasedRecord(issued')], "running")
  <1>1. /\ run.at = "lease" /\ UNCHANGED others /\ laidOut' = laidOut
        /\ \/ Goto("finish") /\ tree' = tree /\ issued' = issued
           \/ \E c \in Chunks :
                /\ issued' = issued + 1
                /\ tree' = WriteManifest(tree, m(c), session.root, run.identity)
                /\ run' = [run EXCEPT !.at = "encode", !.mem = m(c), !.chunk = c,
                                      !.lease = issued']
    BY DEF Lease
  <1>2. run.at \notin Unread /\ "encode" \in RunPoints
    BY <1>1 DEF Unread, Unprobed, Unlaid, Unhashed, RunPoints
  <1>3. CASE Goto("finish") /\ tree' = tree /\ issued' = issued
    BY <1>1, <1>2, <1>3, GotoIsSafe
  <1>4. ASSUME NEW c \in Chunks, issued' = issued + 1,
               tree' = WriteManifest(tree, m(c), session.root, run.identity),
               run' = [run EXCEPT !.at = "encode", !.mem = m(c), !.chunk = c, !.lease = issued']
        PROVE  Inv'
    <2> DEFINE R == [records EXCEPT ![c] = LeasedRecord(issued')]
               n == m(c)
    <2>1. /\ run \in RunType /\ GoodMem(run.mem) /\ run.outcome = "none"
          /\ run.at # "idle" /\ run.at \notin Unprobed
          /\ Has(tree, TheManifest) /\ tree[TheManifest].identity = run.identity
          /\ Sourced(run.mem.chunks, run.identity, swapped)
      BY <1>2, ReadKnows
    <2>2. issued' \in Nat \ {0} /\ issued <= issued'
      BY <1>4, <2>1, RunKnows
    <2>3. GoodChunks(run.mem.chunks) /\ GoodManifest(run.mem)
      BY <2>1, GoodMemIsManifest
    <2>4. /\ GoodChunks(records)
          /\ \A d \in Chunks : records[d] = run.mem.chunks[d] \/ records[d] = PendingRecord
      BY <2>3, GoodExpire
    <2> HIDE DEF records
    <2>5. /\ LeasedRecord(issued') \in Record /\ WellFormed(LeasedRecord(issued'))
      BY <2>2, RecordTypes
    <2>6. /\ GoodChunks(R) /\ R[c] = LeasedRecord(issued')
          /\ \A d \in Chunks \ {c} : R[d] = records[d]
      BY <2>4, <2>5, GoodUpdate
    <2>7. Sourced(R, run.identity, swapped)
      <3> HIDE DEF R
      <3>1. ASSUME NEW d \in Chunks, R[d].status = "complete"
            PROVE  R[d] = run.mem.chunks[d]
        BY <2>4, <2>6, <3>1, BuiltFields
      <3>2. QED
        BY <2>1, <3>1 DEF Sourced
    <2> HIDE DEF R
    <2>8. n = NextManifest(run.mem, R, "running")
      BY DEF R
    <2> HIDE DEF n
    <2>9. GoodManifest(n) /\ n.state = "running" /\ n.chunks = R
      <3>1. "running" \in JobStates
        BY DEF JobStates
      <3>2. QED
        BY <2>3, <2>6, <2>8, <3>1, GoodNextManifest
    <2>10. GoodMem(n) /\ Sourced(n.chunks, run.identity, swapped)
      BY <2>7, <2>9 DEF GoodMem
    <2>11. n \in Manifest
      BY <2>10, GoodMemIsManifest
    <2>12. /\ tree' = WriteManifest(tree, n, session.root, run.identity)
           /\ run' = [run EXCEPT !.at = "encode", !.mem = n, !.chunk = c, !.lease = issued']
      BY <1>4 DEF n
    <2>13. /\ run' \in RunType /\ run'.at = "encode" /\ run'.mem = n
           /\ run'.identity = run.identity /\ run'.outcome = "none"
      BY <1>2, <2>1, <2>2, <2>11, <2>12 DEF RunType
    <2>14. run'.at \in {"timeline", "recover", "reopen", "lease", "encode", "committed", "finish"}
      BY <2>13
    <2>15. issued' \in Nat
      BY <2>2
    <2>16. QED
      BY <1>1, <2>1, <2>2, <2>10, <2>12, <2>13, <2>14, <2>15, WritesManifest
  <1>5. QED
    BY <1>1, <1>3, <1>4

-----------------------------------------------------------------------------
(***************************************************************************)
(* Steps that write and assemble segments.                                 *)
(***************************************************************************)

\* A command at a point past the lease and before the assembly, after a step
\* that left the manifest alone.
LEMMA StillFits ==
  ASSUME Inv, run.at \notin Unread, NEW a \in RunPoints \ {"idle", "concat"},
         run' = [run EXCEPT !.at = a],
         Has(tree', TheManifest), tree'[TheManifest] = tree[TheManifest],
         a = "publish" =>
           /\ Has(tree', Partial(run.chunk))
           /\ swapped \/ tree'[Partial(run.chunk)] = run.identity.source,
         a \in {"sidecar", "commit"} =>
           /\ Has(tree', Segment(run.chunk))
           /\ swapped \/ tree'[Segment(run.chunk)] = run.identity.source
  PROVE  RunFits(run', tree', video.content, swapped, TRUE) /\ run'.outcome = "none"
  <1>1. /\ run \in RunType /\ GoodMem(run.mem) /\ run.outcome = "none"
        /\ tree[TheManifest].identity = run.identity
        /\ Mirrors(run.mem, tree[TheManifest].body)
        /\ run.identity \in Identity
        /\ run.identity.source \in Payloads
        /\ swapped \/ run.identity.source = video.content
    BY ReadKnows
  <1>2. /\ run' \in RunType /\ run'.at = a /\ run'.mem = run.mem /\ run'.chunk = run.chunk
        /\ run'.identity = run.identity /\ run'.outcome = "none"
    BY <1>1, RunGoes
  <1>3. QED
    BY <1>1, <1>2 DEF RunFits

\* The source is decoded into a partial file.
LEMMA EncodeIsSafe == Inv /\ Encode => Inv'
  <1> SUFFICES ASSUME Inv, Encode
               PROVE  Inv'
    OBVIOUS
  <1> DEFINE n == Partial(run.chunk)
  <1>1. /\ run.at = "encode" /\ UNCHANGED others /\ issued' = issued /\ laidOut' = laidOut
        /\ tree' = With(tree, n, video.content) /\ run' = [run EXCEPT !.at = "publish"]
    BY DEF Encode, Goto
  <1>2. run.at \notin Unread /\ "publish" \in RunPoints
    BY <1>1 DEF Unread, Unprobed, Unlaid, Unhashed, RunPoints
  <1>3. /\ run \in RunType /\ Has(tree, TheManifest) /\ laidOut /\ run.at # "idle"
        /\ swapped \/ run.identity.source = video.content
    BY <1>2, ReadKnows
  <1>4. run.chunk \in Chunks /\ video.content \in Payloads
    BY <1>3, RunFields, RunKnows
  <1>5. /\ n \in Names /\ n \notin {TheManifest, TheTimeline, TheVideo}
        /\ Entry(n, video.content, swapped)
    BY <1>4, Kinds, Contents DEF Entry
  <1>6. tree'[n] = video.content /\ Has(tree', n)
    BY <1>1 DEF With, Has
  <1>7. Has(tree', TheManifest) /\ tree'[TheManifest] = tree[TheManifest]
    BY <1>1, <1>3, <1>5 DEF With, Has
  <1>8. RunFits(run', tree', video.content, swapped, TRUE) /\ run'.outcome = "none"
    <2> HIDE DEF n
    <2>1. Has(tree', Partial(run.chunk)) /\ tree'[Partial(run.chunk)] = video.content
      BY <1>6 DEF n
    <2>2. QED
      BY <1>1, <1>2, <1>3, <1>7, <2>1, StillFits
  <1>9. laidOut' = TRUE
    BY <1>1, <1>3 DEF Inv, WorldInv
  <1>10. QED
    BY <1>1, <1>3, <1>5, <1>8, <1>9, RunWrites

\* The partial file is renamed to the segment.
LEMMA PublishIsSafe == Inv /\ Publish => Inv'
  <1> SUFFICES ASSUME Inv, Publish
               PROVE  Inv'
    OBVIOUS
  <1> DEFINE p == Partial(run.chunk)
             n == Segment(run.chunk)
             rest == Without(tree, p)
  <1>1. /\ run.at = "publish" /\ UNCHANGED others /\ issued' = issued /\ laidOut' = laidOut
        /\ tree' = With(rest, n, tree[p]) /\ run' = [run EXCEPT !.at = "sidecar"]
    BY DEF Publish, Goto
  <1>2. run.at \notin Unread /\ "sidecar" \in RunPoints
    BY <1>1 DEF Unread, Unprobed, Unlaid, Unhashed, RunPoints
  <1>3. /\ run \in RunType /\ Has(tree, TheManifest) /\ laidOut /\ run.at # "idle"
        /\ Entries(tree, swapped)
    BY <1>2, ReadKnows
  <1>4. /\ Has(tree, p) /\ (swapped \/ tree[p] = run.identity.source)
        /\ run.chunk \in Chunks
    BY <1>1, <1>3, RunKnows, RunFields DEF RunFits
  <1>5. /\ p \notin {TheManifest, TheTimeline, TheVideo}
        /\ n \notin {TheManifest, TheTimeline, TheVideo}
        /\ n \in Names
    BY <1>4, Kinds
  <1>6. Entry(p, tree[p], swapped)
    BY <1>3, <1>4 DEF Entries, Has
  <1>7. Entry(n, tree[p], swapped)
    BY <1>4, <1>6, Kinds, Contents DEF Entry
  <1>8. Entries(tree', swapped)
    <2>1. Entries(rest, swapped)
      BY <1>3, EntriesWithout
    <2> HIDE DEF rest, n, p
    <2>2. QED
      BY <1>1, <1>7, <2>1, EntriesWith
  <1>9. /\ DOMAIN tree' = (DOMAIN tree \ {p}) \union {n} /\ tree'[n] = tree[p]
        /\ \A k \in DOMAIN tree : k # p /\ k # n => tree'[k] = tree[k]
    BY <1>1 DEF With, Without
  <1>10. ~stray => Fits(tree', swapped)
    BY <1>3, <1>5, <1>9, RunKnows, FitsStay
  <1>11. Has(tree', TheManifest) /\ tree'[TheManifest] = tree[TheManifest]
    BY <1>3, <1>5, <1>9 DEF Has
  <1>12. RunFits(run', tree', video.content, swapped, TRUE) /\ run'.outcome = "none"
    <2>1. Has(tree', Segment(run.chunk)) /\ tree'[Segment(run.chunk)] = tree[p]
      BY <1>9 DEF Has
    <2> HIDE DEF p
    <2>2. QED
      BY <1>1, <1>2, <1>4, <1>11, <2>1, StillFits
  <1>13. Reported(run', tree', laidOut', swapped, stray)
    BY <1>12 DEF Reported
  <1>14. laidOut' = TRUE /\ issued' \in Nat /\ issued <= issued'
    BY <1>1, <1>3, RunKnows
  <1>15. QED
    BY <1>1, <1>3, <1>8, <1>10, <1>11, <1>12, <1>13, <1>14, RunMoves

\* The completion is written next to the segment.
LEMMA SidecarIsSafe == Inv /\ WriteSidecar => Inv'
  <1> SUFFICES ASSUME Inv, WriteSidecar
               PROVE  Inv'
    OBVIOUS
  <1> DEFINE n == SidecarOf(run.chunk)
             s == Segment(run.chunk)
             x == [lease |-> run.lease,
                   completion |-> [sha |-> tree[s], root |-> session.root,
                                   identity |-> run.identity]]
  <1>1. /\ run.at = "sidecar" /\ UNCHANGED others /\ issued' = issued /\ laidOut' = laidOut
        /\ tree' = With(tree, n, x) /\ run' = [run EXCEPT !.at = "commit"]
    BY DEF WriteSidecar, Goto
  <1>2. run.at \notin Unread /\ "commit" \in RunPoints
    BY <1>1 DEF Unread, Unprobed, Unlaid, Unhashed, RunPoints
  <1>3. /\ run \in RunType /\ Has(tree, TheManifest) /\ laidOut /\ run.at # "idle"
        /\ Entries(tree, swapped) /\ run.identity \in Identity
    BY <1>2, ReadKnows
  <1>4. /\ Has(tree, s) /\ (swapped \/ tree[s] = run.identity.source)
        /\ run.chunk \in Chunks /\ run.lease \in Nat /\ session.root \in Roots
    BY <1>1, <1>3, RunKnows, RunFields DEF RunFits
  <1>5. /\ n \notin {TheManifest, TheTimeline, TheVideo} /\ n # s /\ n \in Names
    BY <1>4, Kinds
  <1>6. Entry(s, tree[s], swapped)
    BY <1>3, <1>4 DEF Entries, Has
  <1>7. tree[s] \in Payloads
    BY <1>4, <1>6, Kinds, Contents DEF Entry
  <1>8. Entry(n, x, swapped)
    <2>1. /\ x \in [lease : Nat, completion : Stored]
          /\ swapped \/ x.completion.sha = x.completion.identity.source
      BY <1>3, <1>4, <1>7 DEF Stored
    <2> HIDE DEF x
    <2>2. n.kind = "sidecar"
      BY <1>4, Kinds
    <2>3. QED
      BY <1>5, <2>1, <2>2, Contents DEF Entry
  <1> HIDE DEF x
  <1>9. Has(tree', s) /\ tree'[s] = tree[s]
    BY <1>1, <1>4, <1>5 DEF With, Has
  <1>10. Has(tree', TheManifest) /\ tree'[TheManifest] = tree[TheManifest]
    BY <1>1, <1>3, <1>5 DEF With, Has
  <1>11. RunFits(run', tree', video.content, swapped, TRUE) /\ run'.outcome = "none"
    BY <1>1, <1>2, <1>4, <1>9, <1>10, StillFits
  <1>12. laidOut' = TRUE
    BY <1>1, <1>3 DEF Inv, WorldInv
  <1>13. QED
    BY <1>1, <1>3, <1>5, <1>8, <1>11, <1>12, RunWrites

\* commit: the segment was made from the source.
LEMMA CommitIsSafe == Inv /\ Commit => Inv'
  <1> SUFFICES ASSUME Inv, Commit
               PROVE  Inv'
    OBVIOUS
  <1> DEFINE s == Segment(run.chunk)
             k == [sha |-> tree[s], fits |-> TRUE]
             R == [run.mem.chunks EXCEPT ![run.chunk] = CompleteRecord(run.lease, k)]
             state == StateAfterCommit(run.mem.state, R)
             m == NextManifest(run.mem, R, state)
  <1>1. /\ run.at = "commit" /\ UNCHANGED others /\ issued' = issued /\ laidOut' = laidOut
        /\ Persisted(m, "committed")
    BY DEF Commit
  <1>2. run.at \notin Unread
    BY <1>1 DEF Unread, Unprobed, Unlaid, Unhashed
  <1>3. /\ run \in RunType /\ run.at # "idle" /\ GoodMem(run.mem)
        /\ Entries(tree, swapped) /\ Sourced(run.mem.chunks, run.identity, swapped)
    BY <1>2, ReadKnows
  <1>4. /\ Has(tree, s) /\ (swapped \/ tree[s] = run.identity.source)
        /\ run.chunk \in Chunks /\ run.lease \in Nat
    BY <1>1, <1>3, RunKnows, RunFields DEF RunFits
  <1>5. Entry(s, tree[s], swapped)
    BY <1>3, <1>4 DEF Entries, Has
  <1>6. tree[s] \in Payloads
    BY <1>4, <1>5, Kinds, Contents DEF Entry
  <1>7. k \in Exact /\ k.sha = tree[s]
    BY <1>6 DEF Exact, Completion
  <1> HIDE DEF k, s
  <1>8. /\ CompleteRecord(run.lease, k) \in Record /\ WellFormed(CompleteRecord(run.lease, k))
    BY <1>4, <1>7, RecordTypes
  <1>9. GoodChunks(run.mem.chunks) /\ GoodManifest(run.mem) /\ run.mem.state \in JobStates
    BY <1>3, GoodMemIsManifest
  <1>10. /\ GoodChunks(R) /\ R[run.chunk] = CompleteRecord(run.lease, k)
         /\ \A d \in Chunks \ {run.chunk} : R[d] = run.mem.chunks[d]
    BY <1>4, <1>8, <1>9, GoodUpdate
  <1> HIDE DEF R
  <1>11. Sourced(R, run.identity, swapped)
    <2>1. ASSUME NEW d \in Chunks, d = run.chunk
          PROVE  R[d].completion.sha = tree[s]
      BY <1>7, <1>10, <2>1, BuiltFields
    <2>2. QED
      BY <1>3, <1>4, <1>10, <2>1 DEF Sourced
  <1>12. state \in JobStates /\ (state = "complete" => AllComplete(R))
    BY <1>9, StateTypes DEF StateAfterCommit
  <1> HIDE DEF state
  <1>13. GoodManifest(m) /\ m.state = state /\ m.chunks = R
    BY <1>9, <1>10, <1>12, GoodNextManifest
  <1> HIDE DEF m
  <1>14. GoodMem(m) /\ Sourced(m.chunks, run.identity, swapped)
    BY <1>11, <1>12, <1>13 DEF GoodMem
  <1>15. QED
    BY <1>1, <1>2, <1>14, PersistIsSafe

\* The job is reported, or its segments are checked against the manifest.
LEMMA FinishIsSafe == Inv /\ Finish => Inv'
  <1> SUFFICES ASSUME Inv, Finish
               PROVE  Inv'
    OBVIOUS
  <1>1. /\ run.at = "finish" /\ UNCHANGED others /\ issued' = issued /\ laidOut' = laidOut
        /\ tree' = tree
    BY DEF Finish
  <1>2. run.at \notin Unread /\ "concat" \in RunPoints
    BY <1>1 DEF Unread, Unprobed, Unlaid, Unhashed, RunPoints
  <1>3. /\ run \in RunType /\ run.at # "idle" /\ GoodMem(run.mem) /\ run.outcome = "none"
        /\ RunFits(run, tree, video.content, swapped, laidOut)
    BY <1>2, ReadKnows, RunKnows
  <1>4. /\ GoodChunks(run.mem.chunks) /\ run.mem.state \in JobStates
    BY <1>3, GoodMemIsManifest
  <1>5. CASE run.mem.state # "complete"
    <2>1. run' = Ended(run.mem.state)
      BY <1>5 DEF Finish
    <2>2. run.mem.state \in Outcomes \ {"complete", "accepted"}
      BY <1>4, <1>5 DEF Outcomes, JobStates
    <2>3. QED
      BY <1>1, <1>3, <2>1, <2>2, RunEnds
  <1>6. CASE /\ run.mem.state = "complete"
             /\ \A c \in Chunks : Content(tree, Segment(c)) = run.mem.chunks[c].completion.sha
    <2>1. run' = [run EXCEPT !.at = "concat"]
      BY <1>6 DEF Finish, Goto
    <2>2. /\ run' \in RunType /\ run'.at = "concat" /\ run'.mem = run.mem
          /\ run'.identity = run.identity /\ run'.outcome = "none"
      BY <1>2, <1>3, <2>1, RunGoes
    <2>3. ASSUME NEW c \in Chunks
          PROVE  /\ Has(tree, Segment(c))
                 /\ run.mem.chunks[c].status = "complete"
                 /\ tree[Segment(c)] = run.mem.chunks[c].completion.sha
      <3>1. run.mem.chunks[c].status = "complete"
        BY <1>3, <1>6 DEF GoodMem, AllComplete
      <3>2. run.mem.chunks[c].completion.sha # NoFile
        BY <1>4, <3>1, PayloadAssumption DEF GoodChunks, WellFormed, Record, Completion
      <3>3. QED
        BY <1>6, <3>1, <3>2 DEF Content
    <2>4. RunFits(run', tree, video.content, swapped, laidOut)
      <3>1. /\ laidOut /\ run.identity \in Identity /\ run.identity.source \in Payloads
            /\ swapped \/ run.identity.source = video.content
            /\ Has(tree, TheManifest) /\ tree[TheManifest].identity = run.identity
            /\ Mirrors(run.mem, tree[TheManifest].body)
        BY <1>2, ReadKnows
      <3>2. QED
        BY <1>3, <2>2, <2>3, <3>1 DEF RunFits
    <2>5. Reported(run', tree, laidOut, swapped, stray)
      BY <2>2 DEF Reported
    <2>6. QED
      BY <1>1, <1>3, <2>4, <2>5, RunMovesOn
  <1>7. CASE /\ run.mem.state = "complete"
             /\ ~\A c \in Chunks : Content(tree, Segment(c)) = run.mem.chunks[c].completion.sha
    <2>1. run' = Ended("error") /\ "error" \in Outcomes \ {"complete", "accepted"}
      BY <1>7 DEF Finish, Outcomes
    <2>2. QED
      BY <1>1, <1>3, <2>1, RunEnds
  <1>8. QED
    BY <1>5, <1>6, <1>7

\* The segments are assembled: as the manifest records them, and from the source.
LEMMA ConcatIsSafe == Inv /\ Concat => Inv'
  <1> SUFFICES ASSUME Inv, Concat
               PROVE  Inv'
    OBVIOUS
  <1> DEFINE v == [c \in Chunks |-> tree[Segment(c)]]
  <1>1. /\ run.at = "concat" /\ UNCHANGED others /\ issued' = issued /\ laidOut' = laidOut
        /\ tree' = With(tree, TheVideo, v) /\ run' = Ended("complete")
    BY DEF Concat, TheVideo
  <1>2. run.at \notin Unread /\ "complete" \in Outcomes
    BY <1>1 DEF Unread, Unprobed, Unlaid, Unhashed, Outcomes, JobStates
  <1>3. /\ run.at # "idle" /\ laidOut /\ Entries(tree, swapped)
        /\ Has(tree, TheManifest) /\ tree[TheManifest].identity = run.identity
        /\ Mirrors(run.mem, tree[TheManifest].body)
        /\ Sourced(run.mem.chunks, run.identity, swapped)
        /\ RunFits(run, tree, video.content, swapped, laidOut)
    BY <1>2, ReadKnows, RunKnows
  <1>4. ASSUME NEW c \in Chunks
        PROVE  /\ Has(tree, Segment(c)) /\ v[c] = tree[Segment(c)]
               /\ run.mem.chunks[c].status = "complete"
               /\ tree[Segment(c)] = run.mem.chunks[c].completion.sha
    BY <1>1, <1>3 DEF RunFits
  <1>5. ASSUME NEW c \in Chunks
        PROVE  tree[Segment(c)] \in Payloads
    <2>1. Entry(Segment(c), tree[Segment(c)], swapped)
      BY <1>3, <1>4 DEF Entries, Has
    <2>2. QED
      BY <2>1, Kinds, Contents DEF Entry
  <1>6. v \in [Chunks -> Payloads]
    BY <1>5
  <1> HIDE DEF v
  <1>7. Entries(tree', swapped)
    BY <1>1, <1>3, <1>6, EntryKinds, EntriesWith
  <1>8. /\ DOMAIN tree' = DOMAIN tree \union {TheVideo} /\ tree'[TheVideo] = v
        /\ \A k \in DOMAIN tree : k # TheVideo => tree'[k] = tree[k]
    BY <1>1 DEF With
  <1>9. TheManifest # TheVideo /\ TheTimeline # TheVideo
    BY Kinds
  <1>10. Has(tree', TheManifest) /\ tree'[TheManifest] = tree[TheManifest]
    BY <1>3, <1>8, <1>9 DEF Has
  <1>11. swapped \/ MadeFrom(v, tree[TheManifest].identity.source)
    BY <1>3, <1>4 DEF MadeFrom, Sourced
  <1>12. ASSUME ~stray
         PROVE  Fits(tree', swapped)
    <2>1. Fits(tree, swapped)
      BY <1>3, <1>12, RunKnows
    <2>2. Whole(DOMAIN tree')
      BY <1>10 DEF Whole, Has
    <2>3. QED
      BY <1>8, <1>9, <1>10, <1>11, <2>1, <2>2 DEF Fits, Agrees, Has
  <1>13. /\ RunFits(run', tree', video.content, swapped, laidOut')
         /\ run'.at = "idle" /\ run'.outcome = "complete"
    BY <1>1, <1>2, EndedFits
  <1>14. Reported(run', tree', laidOut', swapped, stray)
    <2>1. ASSUME NEW c \in Chunks
          PROVE  tree'[TheVideo][c] = tree'[TheManifest].body.chunks[c].completion.sha
      BY <1>3, <1>4, <1>8, <1>10 DEF Mirrors
    <2>2. QED
      BY <1>1, <1>3, <1>13, <2>1 DEF Reported
  <1>15. laidOut' \in BOOLEAN /\ laidOut' /\ issued' \in Nat /\ issued <= issued'
    BY <1>1, <1>3, RunKnows
  <1>16. QED
    BY <1>1, <1>3, <1>7, <1>10, <1>12, <1>13, <1>14, <1>15, RunMoves

\* qa accepts the video of a complete job: both are of the source.
LEMMA QaIsSafe == Inv /\ Qa => Inv'
  <1> SUFFICES ASSUME Inv, Qa
               PROVE  Inv'
    OBVIOUS
  <1>1. /\ run.at = "recover" /\ UNCHANGED others /\ issued' = issued /\ laidOut' = laidOut
        /\ tree' = tree /\ run' = Ended("accepted")
        /\ run.mem.state = "complete" /\ Has(tree, TheVideo)
    BY DEF Qa, TheVideo
  <1>2. run.at \notin Unread /\ "accepted" \in Outcomes
    BY <1>1 DEF Unread, Unprobed, Unlaid, Unhashed, Outcomes
  <1>3. /\ run.at # "idle" /\ laidOut /\ GoodMem(run.mem)
        /\ Has(tree, TheManifest) /\ tree[TheManifest].identity = run.identity
        /\ Mirrors(run.mem, tree[TheManifest].body)
        /\ Sourced(run.mem.chunks, run.identity, swapped)
    BY <1>2, ReadKnows
  <1>4. ASSUME NEW c \in Chunks, ~stray, ~swapped
        PROVE  tree[TheVideo][c] = tree[TheManifest].body.chunks[c].completion.sha
    <2>1. Fits(tree, swapped)
      BY <1>3, <1>4, RunKnows
    <2>2. tree[TheVideo][c] = run.identity.source
      BY <1>1, <1>3, <1>4, <2>1 DEF Fits, Agrees, MadeFrom
    <2>3. run.mem.chunks[c].status = "complete"
      BY <1>1, <1>3 DEF GoodMem, AllComplete
    <2>4. run.mem.chunks[c].completion.sha = run.identity.source
      BY <1>3, <1>4, <2>3 DEF Sourced
    <2>5. QED
      BY <1>3, <2>2, <2>4 DEF Mirrors
  <1>5. /\ RunFits(run', tree, video.content, swapped, laidOut)
        /\ run'.at = "idle" /\ run'.outcome = "accepted"
    BY <1>1, <1>2, EndedFits
  <1>6. Reported(run', tree, laidOut, swapped, stray)
    BY <1>3, <1>4, <1>5 DEF Reported
  <1>7. QED
    BY <1>1, <1>3, <1>5, <1>6, RunMovesOn

\* Every step of a command.
LEMMA RunIsSafe == Inv /\ RunStep => Inv'
  BY StatIsSafe, HashIsSafe, SelectionIsSafe, ProbeIsSafe, ConstructIsSafe, RecordsAreSafe,
     RecoverIsSafe, ReopenIsSafe, LeaseIsSafe, EncodeIsSafe, PublishIsSafe, SidecarIsSafe,
     CommitIsSafe, CommittedIsSafe, FinishIsSafe, ConcatIsSafe, QaIsSafe
     DEF RunStep

\* A command is started.
LEMMA StartIsSafe == Inv /\ StartRun => Inv'
  <1> SUFFICES ASSUME Inv, StartRun
               PROVE  Inv'
    OBVIOUS
  <1>1. /\ run' = [Ended("none") EXCEPT !.at = "stat"] /\ unpack.at = "idle"
        /\ UNCHANGED <<others, laidOut, tree, issued>>
    BY DEF StartRun
  <1>2. "none" \in Outcomes /\ "stat" \in RunPoints
    BY DEF Outcomes, RunPoints
  <1>3. /\ Ended("none") \in RunType /\ GoodMem(Ended("none").mem)
        /\ Ended("none").outcome = "none"
    BY <1>2, EndedFits DEF RunFits
  <1> DEFINE e == Ended("none")
  <1> HIDE DEF e
  <1>4. /\ run' \in RunType /\ run'.at = "stat" /\ GoodMem(run'.mem) /\ run'.outcome = "none"
    <2>1. e \in RunType /\ GoodMem(e.mem) /\ e.outcome = "none" /\ run' = [e EXCEPT !.at = "stat"]
      BY <1>1, <1>3 DEF e
    <2>2. QED
      BY <1>2, <2>1, RunGoes
  <1>5. RunFits(run', tree, video.content, swapped, laidOut)
    BY <1>4 DEF RunFits, Unhashed, Unlaid, Unprobed, Unread
  <1>6. Reported(run', tree, laidOut, swapped, stray)
    BY <1>4 DEF Reported
  <1>7. WorldInv' /\ TreeInv' /\ ArchiveInv' /\ PackInv' /\ UnpackInv'
    BY <1>1 DEF Inv, WorldInv, TreeInv, ArchiveInv, PackInv, UnpackInv, others, world
  <1>8. RunInv'
    BY <1>1, <1>5, <1>6 DEF RunInv, others, world
  <1>9. QED
    BY <1>7, <1>8 DEF Inv
-----------------------------------------------------------------------------
(***************************************************************************)
(* Steps of the archiver.                                                  *)
(***************************************************************************)

\* The archiver changes no file of the directory.
LEMMA PackMoves ==
  ASSUME Inv, UNCHANGED <<world, tree, run, unpack, issued, lapsed>>,
         laidOut' \in BOOLEAN, laidOut => laidOut', archives' \in Nat, ArchiveInv', PackInv'
  PROVE  Inv'
  <1>1. WorldInv'
    BY DEF Inv, WorldInv, world
  <1>2. TreeInv'
    BY DEF Inv, TreeInv, world
  <1>3. RunInv'
    <2>1. /\ RunFits(run, tree, video.content, swapped, laidOut)
          /\ Reported(run, tree, laidOut, swapped, stray)
      BY DEF Inv, RunInv
    <2>2. RunFits(run, tree, video.content, swapped, laidOut')
      BY <2>1 DEF RunFits
    <2>3. Reported(run, tree, laidOut', swapped, stray)
      BY <2>1 DEF Reported
    <2>4. QED
      BY <2>2, <2>3 DEF Inv, RunInv, world
  <1>4. UnpackInv'
    BY DEF Inv, UnpackInv, world
  <1>5. QED
    BY <1>1, <1>2, <1>3, <1>4 DEF Inv

\* The command may end without an archive.
LEMMA NoPackIsSafe == pack' = NoPack => PackInv'
  BY DEF PackInv, NoPack, IsPack

\* artifacts/ is listed: a timeline or a video with its manifest, unless the
\* directory is that of an unfinished restore.
LEMMA BeginPackIsSafe == Inv /\ BeginPack => Inv'
  <1> SUFFICES ASSUME Inv, BeginPack
               PROVE  Inv'
    OBVIOUS
  <1>1. /\ UNCHANGED <<world, tree, archive, run, unpack, issued, lapsed>>
        /\ laidOut' = TRUE /\ archives' = archives + 1
        /\ pack'.at = "list" /\ pack'.todo = Present(Artifacts) /\ pack'.read = Empty
        /\ pack'.stray = (stray \/ unpack.at # "idle") /\ IsPack(pack')
    BY DEF BeginPack, IsPack
  <1>2. Entries(Empty, swapped) /\ DOMAIN Empty = {}
    BY EntriesOfNothing, NoFiles
  <1>3. Present(Artifacts) \subseteq Names
    BY DEF Present, Names
  <1>4. {TheManifest, TheTimeline, TheVideo} \subseteq Artifacts
    BY DEF TheManifest, TheTimeline, TheVideo, Artifacts
  <1>5. ASSUME ~stray, unpack.at = "idle"
        PROVE  /\ Whole(Present(Artifacts) \union DOMAIN Empty)
               /\ ReadOfJob(Empty, tree, swapped)
    <2>1. Whole(DOMAIN tree)
      BY <1>5 DEF Inv, TreeInv
    <2>2. Whole(Present(Artifacts) \union DOMAIN Empty)
      BY <1>2, <1>4, <2>1 DEF Whole, Present
    <2>3. ReadOfJob(Empty, tree, swapped)
      BY <1>2 DEF ReadOfJob, Has
    <2>4. QED
      BY <2>2, <2>3
  <1>6. pack'.stray \in BOOLEAN /\ (~pack'.stray => ~stray /\ unpack.at = "idle")
    BY <1>1 DEF Inv, WorldInv
  <1>7. PackInv'
    BY <1>1, <1>2, <1>3, <1>5, <1>6 DEF PackInv, world
  <1>8. ArchiveInv'
    BY <1>1 DEF Inv, ArchiveInv, world
  <1>9. archives' \in Nat
    BY <1>1 DEF Inv, WorldInv
  <1>10. QED
    BY <1>1, <1>7, <1>8, <1>9, PackMoves

\* segments/ is listed.
LEMMA ListIsSafe == Inv /\ ListSegments => Inv'
  <1> SUFFICES ASSUME Inv, ListSegments
               PROVE  Inv'
    OBVIOUS
  <1> DEFINE names == pack.todo \union Present(SegmentFiles)
  <1>1. /\ UNCHANGED <<world, laidOut, tree, archive, run, unpack, issued, lapsed, archives>>
        /\ pack.at = "list"
        /\ pack' = IF names = {} THEN NoPack ELSE [pack EXCEPT !.at = "read", !.todo = names]
    BY DEF ListSegments
  <1>2. ArchiveInv' /\ laidOut' \in BOOLEAN /\ archives' \in Nat
    BY <1>1 DEF Inv, ArchiveInv, WorldInv, world
  <1>3. PackInv'
    <2>1. CASE names = {}
      BY <1>1, <2>1, NoPackIsSafe
    <2>2. CASE names # {}
      <3>1. TheTimeline \notin SegmentFiles /\ TheVideo \notin SegmentFiles
        BY Kinds DEF SegmentFiles, File_
      <3>2. names \subseteq Names
        BY <1>1 DEF Inv, PackInv, Present, Names
      <3>3. ~pack.stray => Whole(names \union DOMAIN pack.read)
        BY <1>1, <3>1 DEF Inv, PackInv, Whole, Present
      <3>4. /\ pack'.at = "read" /\ pack'.todo = names /\ pack'.read = pack.read
            /\ pack'.stray = pack.stray /\ IsPack(pack')
        BY <1>1, <2>2 DEF Inv, PackInv, IsPack
      <3> HIDE DEF names
      <3>5. QED
        BY <1>1, <2>2, <3>2, <3>3, <3>4 DEF Inv, PackInv, world
    <2>3. QED
      BY <2>1, <2>2
  <1>4. QED
    BY <1>1, <1>2, <1>3, PackMoves

\* A file is read as it is then: an older manifest may be packed with a newer
\* segment, but never the records of another job.
LEMMA MemberIsSafe == Inv /\ ReadMember => Inv'
  <1> SUFFICES ASSUME Inv, ReadMember
               PROVE  Inv'
    OBVIOUS
  <1> DEFINE name == FirstOf(pack.todo)
             read == With(pack.read, name, tree[name])
             todo == pack.todo \ {name}
  <1>1. /\ UNCHANGED <<world, laidOut, tree, archive, run, unpack, issued, lapsed, archives>>
        /\ pack.at = "read" /\ pack.todo # {}
        /\ pack' = IF Has(tree, name) THEN [pack EXCEPT !.todo = todo, !.read = read] ELSE NoPack
    BY DEF ReadMember
  <1>2. ArchiveInv' /\ laidOut' \in BOOLEAN /\ archives' \in Nat
    BY <1>1 DEF Inv, ArchiveInv, WorldInv, world
  <1>3. PackInv'
    <2>1. CASE ~Has(tree, name)
      BY <1>1, <2>1, NoPackIsSafe
    <2>2. CASE Has(tree, name)
      <3>1. /\ pack.todo \subseteq Names /\ Entries(pack.read, swapped) /\ Entries(tree, swapped)
            /\ IsPack(pack) /\ laidOut /\ pack.stray \in BOOLEAN
        BY <1>1 DEF Inv, PackInv, TreeInv
      <3>2. name \in pack.todo
        BY <1>1, <3>1, FirstIsChosen
      <3> HIDE DEF name
      <3>3. Entry(name, tree[name], swapped)
        BY <2>2, <3>1 DEF Entries, Has
      <3>4. Entries(read, swapped)
        BY <3>1, <3>3, EntriesWith
      <3>5. /\ DOMAIN read = DOMAIN pack.read \union {name} /\ read[name] = tree[name]
            /\ \A k \in DOMAIN pack.read : k # name => read[k] = pack.read[k]
        BY DEF With
      <3>6. /\ todo \union DOMAIN read = pack.todo \union DOMAIN pack.read
            /\ name \in DOMAIN read
        BY <3>2, <3>5
      <3> HIDE DEF read, todo
      <3>7. /\ pack'.at = "read" /\ pack'.todo = todo /\ pack'.read = read
            /\ pack'.stray = pack.stray /\ IsPack(pack')
        BY <1>1, <2>2, <3>1 DEF IsPack
      <3>8. ASSUME ~pack.stray
            PROVE  /\ ~stray /\ unpack.at = "idle"
                   /\ Whole(todo \union DOMAIN read)
                   /\ ReadOfJob(read, tree, swapped)
        <4>1. /\ ~stray /\ unpack.at = "idle"
              /\ Whole(pack.todo \union DOMAIN pack.read) /\ ReadOfJob(pack.read, tree, swapped)
          BY <1>1, <3>8 DEF Inv, PackInv
        <4>2. Whole(DOMAIN tree) /\ Agrees(tree, swapped)
          BY <4>1 DEF Inv, TreeInv
        <4>3. Has(read, TheManifest) =>
                /\ Has(tree, TheManifest)
                /\ read[TheManifest].identity = tree[TheManifest].identity
          BY <2>2, <3>5, <4>1 DEF ReadOfJob, Has
        <4>4. Has(read, TheTimeline) =>
                /\ Has(tree, TheManifest)
                /\ read[TheTimeline] = tree[TheManifest].identity
          BY <2>2, <3>5, <4>1, <4>2 DEF ReadOfJob, Has, Whole, Agrees
        <4>5. Has(read, TheVideo) =>
                /\ Has(tree, TheManifest)
                /\ swapped \/ MadeFrom(read[TheVideo], tree[TheManifest].identity.source)
          BY <2>2, <3>5, <4>1, <4>2 DEF ReadOfJob, Has, Whole, Agrees
        <4>6. ReadOfJob(read, tree, swapped)
          BY <4>3, <4>4, <4>5 DEF ReadOfJob
        <4>7. QED
          BY <3>6, <4>1, <4>6
      <3>9. todo \subseteq Names /\ todo \union DOMAIN read # {}
        BY <3>1, <3>6 DEF todo
      <3>10. QED
        BY <1>1, <3>1, <3>4, <3>7, <3>8, <3>9 DEF PackInv, world
    <2>3. QED
      BY <2>1, <2>2
  <1>4. QED
    BY <1>1, <1>2, <1>3, PackMoves

\* What was read becomes the archive.
LEMMA PublishArchiveIsSafe == Inv /\ PublishArchive => Inv'
  <1> SUFFICES ASSUME Inv, PublishArchive
               PROVE  Inv'
    OBVIOUS
  <1>1. /\ UNCHANGED <<world, laidOut, tree, run, unpack, issued, lapsed, archives>>
        /\ pack.at = "read" /\ pack.todo = {} /\ pack' = NoPack
        /\ archive'.files = pack.read /\ archive'.stray = pack.stray
    BY DEF PublishArchive
  <1>2. /\ Entries(pack.read, swapped) /\ pack.stray \in BOOLEAN /\ DOMAIN pack.read # {}
    BY <1>1 DEF Inv, PackInv
  <1>3. ASSUME ~pack.stray
        PROVE  Fits(pack.read, swapped)
    <2>1. Whole(DOMAIN pack.read) /\ ReadOfJob(pack.read, tree, swapped)
      BY <1>1, <1>3 DEF Inv, PackInv, Whole
    <2>2. QED
      BY <2>1 DEF Fits, Agrees, ReadOfJob
  <1>4. ArchiveInv'
    BY <1>1, <1>2, <1>3 DEF ArchiveInv, world
  <1>5. PackInv' /\ laidOut' \in BOOLEAN /\ archives' \in Nat
    BY <1>1, NoPackIsSafe DEF Inv, WorldInv
  <1>6. QED
    BY <1>1, <1>4, <1>5, PackMoves

\* The steps of the archiver that follow its beginning.
LEMMA PackIsSafe == Inv /\ PackStep => Inv'
  BY ListIsSafe, MemberIsSafe, PublishArchiveIsSafe DEF PackStep

-----------------------------------------------------------------------------
(***************************************************************************)
(* Steps of the restorer.                                                  *)
(***************************************************************************)

\* The archive is opened over an empty directory.
LEMMA BeginUnpackIsSafe == Inv /\ BeginUnpack => Inv'
  <1> SUFFICES ASSUME Inv, BeginUnpack
               PROVE  Inv'
    OBVIOUS
  <1>1. /\ run.at = "idle" /\ archive # NoArchive /\ ~laidOut /\ laidOut' = TRUE
        /\ unpack'.at = "write" /\ unpack'.todo = DOMAIN archive.files
        /\ unpack'.files = archive.files /\ IsUnpack(unpack') /\ stray' = archive.stray
        /\ UNCHANGED <<video, session, sessions, disturbances, swapped, tree, archive, run, pack,
                       issued, lapsed, archives>>
    BY DEF BeginUnpack, IsUnpack
  <1>2. /\ archive.stray \in BOOLEAN /\ DOMAIN archive.files # {}
        /\ Entries(archive.files, swapped)
        /\ ~archive.stray => Fits(archive.files, swapped)
    BY <1>1 DEF Inv, ArchiveInv
  <1>3. tree = Empty /\ DOMAIN tree = {} /\ Entries(tree, swapped)
    BY <1>1, NoFiles DEF Inv, TreeInv
  <1>4. pack.at = "idle" /\ run.outcome \notin {"complete", "accepted"}
    BY <1>1 DEF Inv, PackInv, RunInv, Reported
  <1>5. WorldInv'
    BY <1>1, <1>2 DEF Inv, WorldInv
  <1>6. TreeInv'
    BY <1>1, <1>3 DEF TreeInv, Agrees, Has
  <1>7. RunInv'
    <2>1. RunFits(run, tree, video.content, swapped, laidOut)
      BY DEF Inv, RunInv
    <2>2. RunFits(run, tree, video.content, swapped, TRUE)
      BY <2>1 DEF RunFits
    <2>3. Reported(run, tree, TRUE, swapped, stray')
      BY <1>4 DEF Reported
    <2>4. QED
      BY <1>1, <1>4, <2>2, <2>3 DEF RunInv
  <1>8. ArchiveInv'
    BY <1>1 DEF Inv, ArchiveInv
  <1>9. PackInv'
    BY <1>1, <1>4 DEF Inv, PackInv
  <1>10. UnpackInv'
    BY <1>1, <1>2, <1>3 DEF UnpackInv
  <1>11. QED
    BY <1>5, <1>6, <1>7, <1>8, <1>9, <1>10 DEF Inv

\* A member is written; with the last one the directory is what was archived.
LEMMA WriteMemberIsSafe == Inv /\ WriteMember => Inv'
  <1> SUFFICES ASSUME Inv, WriteMember
               PROVE  Inv'
    OBVIOUS
  <1> DEFINE name == FirstOf(unpack.todo)
             todo == unpack.todo \ {name}
             files == unpack.files
  <1>1. /\ unpack.at = "write" /\ tree' = With(tree, name, files[name])
        /\ unpack' = IF unpack.todo = {name} THEN NoUnpack ELSE [unpack EXCEPT !.todo = todo]
        /\ UNCHANGED <<world, laidOut, archive, run, pack, issued, lapsed, archives>>
    BY DEF WriteMember
  <1>2. /\ laidOut /\ Entries(files, swapped) /\ IsUnpack(unpack)
        /\ unpack.todo # {} /\ unpack.todo \subseteq DOMAIN files
        /\ DOMAIN files = DOMAIN tree \union unpack.todo
        /\ \A n \in DOMAIN tree : tree[n] = files[n]
        /\ ~stray => Fits(files, swapped)
    BY <1>1 DEF Inv, UnpackInv
  <1>3. unpack.todo \subseteq Names
    BY <1>2 DEF Entries, Entry
  <1>4. name \in unpack.todo
    BY <1>2, <1>3, FirstIsChosen
  <1> HIDE DEF name
  <1>5. Entry(name, files[name], swapped)
    BY <1>2, <1>4 DEF Entries
  <1> HIDE DEF files
  <1>6. Entries(tree', swapped)
    <2>1. Entries(tree, swapped)
      BY DEF Inv, TreeInv
    <2>2. QED
      BY <1>1, <1>5, <2>1, EntriesWith
  <1>7. /\ DOMAIN tree' = DOMAIN tree \union {name}
        /\ \A n \in DOMAIN tree' : tree'[n] = files[n]
        /\ DOMAIN files = DOMAIN tree' \union todo
    BY <1>1, <1>2, <1>4 DEF With
  <1>8. \/ unpack' = NoUnpack /\ DOMAIN tree' = DOMAIN files
        \/ /\ todo # {} /\ unpack'.at = "write" /\ unpack'.todo = todo
           /\ unpack'.files = files /\ IsUnpack(unpack')
    <2>1. CASE unpack.todo = {name}
      BY <1>1, <1>7, <2>1
    <2>2. CASE unpack.todo # {name}
      <3>1. unpack' = [unpack EXCEPT !.todo = todo] /\ todo # {}
        BY <1>1, <1>4, <2>2
      <3> HIDE DEF todo
      <3>2. QED
        BY <1>1, <1>2, <3>1 DEF IsUnpack, files
    <2>3. QED
      BY <2>1, <2>2
  <1>9. ASSUME ~stray
        PROVE  Agrees(tree', swapped)
    BY <1>2, <1>7, <1>9 DEF Fits, Agrees, Has
  <1>10. ASSUME ~stray, unpack'.at = "idle"
         PROVE  Whole(DOMAIN tree')
    BY <1>2, <1>8, <1>10 DEF Fits
  <1>11. TreeInv'
    BY <1>1, <1>2, <1>6, <1>9, <1>10 DEF TreeInv, world
  <1>12. WorldInv' /\ ArchiveInv'
    BY <1>1 DEF Inv, WorldInv, ArchiveInv, world
  <1>13. RunInv'
    <2>1. /\ RunFits(run, tree, video.content, swapped, laidOut)
          /\ run.at = "idle" /\ run.outcome \notin {"complete", "accepted"}
      BY <1>1 DEF Inv, RunInv
    <2>2. RunFits(run, tree', video.content, swapped, laidOut)
      BY <2>1 DEF RunFits, Unhashed, Unlaid, Unprobed, Unread
    <2>3. Reported(run, tree', laidOut, swapped, stray)
      BY <2>1 DEF Reported
    <2>4. QED
      BY <1>1, <2>1, <2>2, <2>3 DEF RunInv, world
  <1>14. PackInv'
    BY <1>1 DEF Inv, PackInv, world
  <1>15. UnpackInv'
    <2>1. CASE unpack' = NoUnpack
      BY <2>1 DEF UnpackInv, NoUnpack, IsUnpack
    <2>2. CASE /\ todo # {} /\ unpack'.at = "write" /\ unpack'.todo = todo
               /\ unpack'.files = files /\ IsUnpack(unpack')
      BY <1>1, <1>2, <1>7, <2>2 DEF UnpackInv, world
    <2>3. QED
      BY <1>8, <2>1, <2>2
  <1>16. QED
    BY <1>11, <1>12, <1>13, <1>14, <1>15 DEF Inv

-----------------------------------------------------------------------------
(***************************************************************************)
(* What happens to the processes.                                          *)
(***************************************************************************)

\* A session ends: the next one starts from nothing.
LEMMA EndSessionIsSafe == Inv /\ EndSession => Inv'
  <1> SUFFICES ASSUME Inv, EndSession
               PROVE  Inv'
    OBVIOUS
  <1>1. /\ sessions' = sessions + 1 /\ session' \in [host : Hosts, root : Roots]
        /\ laidOut' = FALSE /\ tree' = Empty /\ run' = Ended("none") /\ pack' = NoPack
        /\ unpack' = NoUnpack /\ stray' = FALSE
        /\ UNCHANGED <<video, archive, issued, lapsed, archives, disturbances, swapped>>
    BY DEF EndSession
  <1>2. "none" \in Outcomes /\ DOMAIN Empty = {}
    BY NoFiles DEF Outcomes
  <1>3. /\ RunFits(run', tree', video.content, swapped, FALSE)
        /\ run'.at = "idle" /\ run'.outcome = "none"
    BY <1>1, <1>2, EndedFits
  <1>4. WorldInv'
    <2>1. sessions' \in Nat
      BY <1>1 DEF Inv, WorldInv
    <2>2. QED
      BY <1>1, <2>1 DEF Inv, WorldInv
  <1>5. ArchiveInv'
    BY <1>1 DEF Inv, ArchiveInv
  <1>6. TreeInv'
    BY <1>1, <1>2 DEF TreeInv, Entries, Agrees, Whole, Has
  <1>7. PackInv' /\ UnpackInv'
    BY <1>1 DEF PackInv, UnpackInv, NoPack, NoUnpack, IsPack, IsUnpack
  <1>8. RunInv'
    BY <1>1, <1>3 DEF RunInv, Reported, NoUnpack
  <1>9. QED
    BY <1>4, <1>6, <1>7, <1>8, <1>5 DEF Inv

\* A process is killed: what it wrote stays.
LEMMA KillIsSafe == Inv /\ Kill => Inv'
  <1> SUFFICES ASSUME Inv, Kill
               PROVE  Inv'
    OBVIOUS
  <1>1. /\ disturbances' = disturbances + 1
        /\ UNCHANGED <<video, session, sessions, laidOut, tree, archive, issued, lapsed, archives,
                       swapped>>
    BY DEF Kill, Disturb
  <1>2. disturbances' \in Nat
    BY <1>1 DEF Inv, WorldInv
  <1>3. ArchiveInv'
    BY <1>1 DEF Inv, ArchiveInv
  <1>4. CASE run' = Ended("error") /\ UNCHANGED <<pack, unpack, stray>>
    <2>1. "error" \in Outcomes
      BY DEF Outcomes
    <2>2. /\ RunFits(run', tree, video.content, swapped, laidOut)
          /\ run'.at = "idle" /\ run'.outcome = "error"
      BY <1>4, <2>1, EndedFits
    <2>3. RunInv'
      BY <1>1, <1>4, <2>2 DEF RunInv, Reported
    <2>4. WorldInv' /\ TreeInv' /\ PackInv' /\ UnpackInv'
      BY <1>1, <1>2, <1>4 DEF Inv, WorldInv, TreeInv, PackInv, UnpackInv
    <2>5. QED
      BY <1>3, <2>3, <2>4 DEF Inv
  <1>5. CASE pack' = NoPack /\ UNCHANGED <<run, unpack, stray>>
    <2>1. PackInv'
      BY <1>5, NoPackIsSafe
    <2>2. WorldInv' /\ TreeInv' /\ RunInv' /\ UnpackInv'
      BY <1>1, <1>2, <1>5 DEF Inv, WorldInv, TreeInv, RunInv, UnpackInv
    <2>3. QED
      BY <1>3, <2>1, <2>2 DEF Inv
  <1>6. CASE unpack.at # "idle" /\ unpack' = NoUnpack /\ stray' = TRUE /\ UNCHANGED <<run, pack>>
    <2>1. /\ RunFits(run, tree, video.content, swapped, laidOut)
          /\ run.outcome \notin {"complete", "accepted"}
      BY <1>6 DEF Inv, RunInv
    <2>2. RunInv'
      BY <1>1, <1>6, <2>1 DEF RunInv, Reported, NoUnpack
    <2>3. WorldInv' /\ TreeInv'
      BY <1>1, <1>2, <1>6 DEF Inv, WorldInv, TreeInv
    <2>4. PackInv'
      BY <1>1, <1>6 DEF Inv, PackInv
    <2>5. UnpackInv'
      BY <1>6 DEF UnpackInv, NoUnpack, IsUnpack
    <2>6. QED
      BY <1>3, <2>2, <2>3, <2>4, <2>5 DEF Inv
  <1>7. QED
    BY <1>4, <1>5, <1>6 DEF Kill

\* What is said of files becomes weaker when a video is replaced under a command.
LEMMA MoreIsAllowed ==
  ASSUME NEW files, NEW old, NEW sw, NEW later, sw => later
  PROVE  /\ Agrees(files, sw) => Agrees(files, later)
         /\ Fits(files, sw) => Fits(files, later)
         /\ ReadOfJob(files, old, sw) => ReadOfJob(files, old, later)
  BY DEF Agrees, Fits, ReadOfJob

\* Another video is put in the place of the source: no command has hashed the
\* old one, or the history records it.
LEMMA SwapIsSafe == Inv /\ SwapVideo => Inv'
  <1> SUFFICES ASSUME Inv, SwapVideo
               PROVE  Inv'
    OBVIOUS
  <1>1. /\ disturbances' = disturbances + 1
        /\ swapped' = (swapped \/ run.at \notin Unhashed)
        /\ UNCHANGED <<session, sessions, laidOut, tree, archive, run, pack, unpack, issued,
                       lapsed, archives, stray>>
    BY DEF SwapVideo, Disturb, Unhashed
  <1>2. PICK v \in Payloads : video' = [serial |-> video.serial + 1, content |-> v]
    BY DEF SwapVideo
  <1>3. swapped => swapped'
    BY <1>1
  <1>4. WorldInv'
    BY <1>1, <1>2 DEF Inv, WorldInv
  <1>5. ASSUME NEW files
        PROVE  /\ Entries(files, swapped) => Entries(files, swapped')
               /\ Agrees(files, swapped) => Agrees(files, swapped')
               /\ Fits(files, swapped) => Fits(files, swapped')
               /\ ReadOfJob(files, tree, swapped) => ReadOfJob(files, tree, swapped')
    BY <1>3, EntriesStay, MoreIsAllowed
  <1>6. TreeInv'
    BY <1>1, <1>5 DEF Inv, TreeInv
  <1>7. ArchiveInv'
    BY <1>1, <1>5 DEF Inv, ArchiveInv
  <1>8. PackInv'
    BY <1>1, <1>5 DEF Inv, PackInv
  <1>9. UnpackInv'
    BY <1>1, <1>5 DEF Inv, UnpackInv
  <1>10. RunInv'
    <2>1. /\ RunFits(run, tree, video.content, swapped, laidOut)
          /\ Reported(run, tree, laidOut, swapped, stray)
      BY DEF Inv, RunInv
    <2>2. RunFits(run, tree, video.content', swapped', laidOut)
      <3>1. CASE run.at \in Unhashed
        BY <2>1, <3>1 DEF RunFits, Unhashed, Unlaid, Unprobed, Unread
      <3>2. CASE run.at \notin Unhashed
        BY <1>1, <2>1, <3>2 DEF RunFits
      <3>3. QED
        BY <3>1, <3>2
    <2>3. Reported(run, tree, laidOut, swapped', stray)
      BY <1>3, <2>1 DEF Reported
    <2>4. QED
      BY <1>1, <2>2, <2>3 DEF Inv, RunInv
  <1>11. QED
    BY <1>4, <1>6, <1>7, <1>8, <1>9, <1>10 DEF Inv

\* Deadlines pass.
LEMMA LapseIsSafe == Inv /\ Lapse => Inv'
  BY DEF Lapse, Inv, WorldInv, TreeInv, RunInv, ArchiveInv, PackInv, UnpackInv, world
-----------------------------------------------------------------------------
(***************************************************************************)
(* Theorems.                                                               *)
(***************************************************************************)

\* A first session starts with nothing.
LEMMA InitInv == Init => Inv
  <1> SUFFICES ASSUME Init
               PROVE  Inv
    OBVIOUS
  <1>1. FirstVideo \in Payloads
    BY SourceAssumption DEF FirstVideo
  <1>2. FirstSession \in [host : Hosts, root : Roots]
    <2>1. \E s \in [host : Hosts, root : Roots] : TRUE
      <3>1. PICK e \in Environments, p \in Paths, r \in Roots : TRUE
        BY HostAssumption
      <3>2. [environment |-> e, path |-> p] \in Hosts
        BY <3>1 DEF Hosts
      <3> DEFINE h == [environment |-> e, path |-> p]
      <3>3. [host |-> h, root |-> r] \in [host : Hosts, root : Roots]
        BY <3>1, <3>2
      <3>4. QED
        BY <3>3
    <2>2. QED
      BY <2>1 DEF FirstSession
  <1>3. WorldInv
    <2>1. /\ video.content = FirstVideo /\ video.serial = 0 /\ session = FirstSession
          /\ issued = 0 /\ lapsed = 0 /\ archives = 0 /\ sessions = 1 /\ disturbances = 0
          /\ laidOut = FALSE /\ swapped = FALSE /\ stray = FALSE
      BY DEF Init
    <2>2. /\ lapsed \in 0..issued /\ video.serial \in Nat /\ issued \in Nat
          /\ archives \in Nat /\ sessions \in Nat /\ disturbances \in Nat
      BY <2>1
    <2>3. laidOut \in BOOLEAN /\ swapped \in BOOLEAN /\ stray \in BOOLEAN
      BY <2>1
    <2>4. video.content \in Payloads /\ session \in [host : Hosts, root : Roots]
      BY <1>1, <1>2, <2>1
    <2>5. QED
      BY <2>2, <2>3, <2>4 DEF WorldInv
  <1>4. "none" \in Outcomes /\ DOMAIN Empty = {}
    BY NoFiles DEF Outcomes
  <1>5. TreeInv
    BY <1>4 DEF Init, TreeInv, Entries, Agrees, Whole, Has
  <1>6. /\ RunFits(run, tree, video.content, swapped, laidOut)
        /\ run.at = "idle" /\ run.outcome = "none"
    BY <1>4, EndedFits DEF Init
  <1>7. RunInv
    BY <1>6 DEF Init, RunInv, Reported, NoUnpack
  <1>8. ArchiveInv /\ PackInv /\ UnpackInv
    BY DEF Init, ArchiveInv, PackInv, UnpackInv, NoPack, NoUnpack, IsPack, IsUnpack
  <1>9. QED
    BY <1>3, <1>5, <1>7, <1>8 DEF Inv

\* Every step keeps the invariant.
LEMMA NextInv == Inv /\ [Next]_vars => Inv'
  <1> SUFFICES ASSUME Inv, [Next]_vars
               PROVE  Inv'
    OBVIOUS
  <1>1. CASE Next
    BY <1>1, StartIsSafe, RunIsSafe, BeginPackIsSafe, PackIsSafe, BeginUnpackIsSafe,
       WriteMemberIsSafe, EndSessionIsSafe, KillIsSafe, SwapIsSafe, LapseIsSafe DEF Next
  <1>2. CASE UNCHANGED vars
    BY <1>2 DEF vars, Inv, WorldInv, TreeInv, RunInv, ArchiveInv, PackInv, UnpackInv
  <1>3. QED
    BY <1>1, <1>2

\* The invariant holds throughout.
THEOREM Invariance == Spec => []Inv
  BY InitInv, NextInv, PTL DEF Spec

\* Every file that a directory or an archive ever holds is one that the schemas
\* admit, and so is the manifest in memory.
THEOREM TypeCorrect == Spec => []TypeOK
  <1>1. ASSUME Inv
        PROVE  TypeOK
    <2>1. WorldInv /\ TreeInv /\ RunInv /\ ArchiveInv /\ UnpackInv
      BY <1>1 DEF Inv
    <2>2. /\ IsTree(tree)
          /\ archive # NoArchive => IsTree(archive.files)
      BY <2>1 DEF TreeInv, ArchiveInv, Entries, Entry, IsTree
    <2>3. run \in RunType /\ GoodMem(run.mem)
      BY <2>1 DEF RunInv, RunFits
    <2>4. /\ run.at \in RunPoints /\ run.outcome \in Outcomes /\ run.identity \in AnyIdentity
          /\ run.mem \in Manifest /\ \A c \in Chunks : WellFormed(run.mem.chunks[c])
      BY <2>3, RunFields DEF GoodMem, GoodManifest, RecordsWellFormed
    <2>5. /\ video.content \in Payloads /\ video.serial \in Nat
          /\ session \in [host : Hosts, root : Roots]
          /\ laidOut \in BOOLEAN /\ lapsed \in 0..issued
      BY <2>1 DEF WorldInv
    <2>6. (tree # Empty => laidOut) /\ unpack.at \in {"idle", "write"}
      BY <2>1 DEF TreeInv, UnpackInv
    <2>7. QED
      BY <2>2, <2>4, <2>5, <2>6 DEF TypeOK
  <1>2. QED
    BY <1>1, Invariance, PTL

\* What the directory, or the archive, records as complete was made from the
\* video that the identity of the job names, whatever sessions end, processes
\* are killed and archives are made and restored: unless a video was replaced
\* under a command that had hashed it.
THEOREM WorkIsOfTheSource == Spec => []SegmentsAreOfTheSource
  <1>1. ASSUME Inv
        PROVE  SegmentsAreOfTheSource
    <2>1. ASSUME NEW files, Entries(files, swapped), ~swapped
          PROVE  HoldsItsSource(files)
      <3>1. Has(files, TheManifest) => OfItsSource(files[TheManifest])
        BY <2>1, Kinds DEF Entries, Entry, Has
      <3>2. QED
        BY <3>1 DEF HoldsItsSource, OfItsSource, TheManifest
    <2>2. Entries(tree, swapped) /\ (archive # NoArchive => Entries(archive.files, swapped))
      BY <1>1 DEF Inv, TreeInv, ArchiveInv
    <2>3. QED
      BY <2>1, <2>2 DEF SegmentsAreOfTheSource
  <1>2. QED
    BY <1>1, Invariance, PTL

\* The records next to a manifest are those of its job, in the directory and in
\* the archive, unless they come from a restore that was not finished.
THEOREM RecordsStayOfTheJob == Spec => []RecordsDescribeJob
  <1>1. ASSUME Inv
        PROVE  RecordsDescribeJob
    <2>1. ASSUME NEW files, Agrees(files, swapped)
          PROVE  Describes(files)
      BY <2>1 DEF Agrees, Describes, TheManifest, TheTimeline
    <2>2. /\ ~stray => Agrees(tree, swapped)
          /\ archive # NoArchive /\ ~archive.stray => Agrees(archive.files, swapped)
      BY <1>1 DEF Inv, TreeInv, ArchiveInv, Fits
    <2>3. QED
      BY <2>1, <2>2 DEF RecordsDescribeJob
  <1>2. QED
    BY <1>1, Invariance, PTL

\* A video that run reports is made of the segments that the manifest next to it
\* records; so is one that qa accepts, in whatever session, although qa looks at
\* no segment: unless what is there was left by an unfinished restore, or a video
\* was replaced under a command.
THEOREM AcceptedVideosAreTrue == Spec => []AcceptedVideoIsTheJobs
  <1>1. ASSUME Inv
        PROVE  AcceptedVideoIsTheJobs
    <2>1. Reported(run, tree, laidOut, swapped, stray)
      BY <1>1 DEF Inv, RunInv
    <2>2. QED
      BY <2>1 DEF Reported, AcceptedVideoIsTheJobs, TheManifest, TheVideo
  <1>2. QED
    BY <1>1, Invariance, PTL

-----------------------------------------------------------------------------
(***************************************************************************)
(* The work that is done for a chunk.                                      *)
(***************************************************************************)

\* The sidecar of a chunk, if there is one.
SideIn(files, c) == IF Has(files, SidecarOf(c)) THEN files[SidecarOf(c)] ELSE NoSidecar

\* The manifest records the chunk as complete, for a segment of this content.
Stands(m, root, content, c) ==
  /\ m.body.chunks[c].status = "complete"
  /\ SegmentMatches(content, AsRead(m.body.chunks[c].completion, root, m.identity))

\* A recovery would complete the chunk from its sidecar.
Vouches(m, root, content, side, c) ==
  /\ m.body.chunks[c].status = "leased" => m.body.chunks[c].lease = side.lease
  /\ SegmentMatches(content, AsRead(side.completion, root, m.identity))

\* Either way a recovery finds the chunk done.
Evident(m, root, content, side, c) ==
  Stands(m, root, content, c) \/ Vouches(m, root, content, side, c)

EvidentIn(files, root, c) ==
  Evident(files[TheManifest], root, Content(files, Segment(c)), SideIn(files, c), c)

\* No sidecar completes nothing.
LEMMA NoSidecarVouches ==
  ASSUME NEW m, NEW root, NEW content, NEW c
  PROVE  ~Vouches(m, root, content, NoSidecar, c)
  <1>1. NoCompletion \notin Exact
    BY PayloadAssumption DEF NoCompletion, Exact, Completion
  <1>2. AsRead(NoSidecar.completion, root, m.identity) = NoCompletion
    BY DEF NoSidecar, AsRead
  <1>3. QED
    BY <1>1, <1>2 DEF Vouches, SegmentMatches

\* What matches a completion is a file.
LEMMA MatchIsFile ==
  ASSUME NEW files, NEW n, NEW k, SegmentMatches(Content(files, n), k)
  PROVE  Has(files, n)
  BY PayloadAssumption DEF SegmentMatches, Content, Exact, Completion

\* Where there is evidence there is a segment.
LEMMA EvidenceIsFile ==
  ASSUME NEW m, NEW root, NEW files, NEW n, NEW side, NEW c,
         Evident(m, root, Content(files, n), side, c)
  PROVE  Has(files, n) /\ Content(files, n) = files[n]
  <1>1. Has(files, n)
    BY MatchIsFile DEF Evident, Stands, Vouches
  <1>2. QED
    BY <1>1 DEF Content

\* recover completes the chunks that there is evidence for, whatever leases have
\* lapsed, and where none has no others; what it completes matches the segment, and
\* a record it leaves leased is as it was.
RightlyRecovered(files, root, identity, newest, c) ==
  LET r == Recovered(files, root, identity, newest)[c]
  IN /\ EvidentIn(files, root, c) => r.status = "complete"
     /\ r.status = "complete" => SegmentMatches(Content(files, Segment(c)), r.completion)
     /\ r.status = "leased" => r = ReadManifest(files, root, identity).chunks[c]
     /\ newest = 0 /\ r.status = "complete" => EvidentIn(files, root, c)

\* Where a manifest is of the identity that recovers, recover puts it right so.
LEMMA RecoveredRecord ==
  ASSUME NEW root, NEW identity, NEW newest, NEW sw, NEW files,
         Entries(files, sw), Has(files, TheManifest), files[TheManifest].identity = identity,
         NEW c \in Chunks
  PROVE  RightlyRecovered(files, root, identity, newest, c)
  <1> DEFINE mem == ReadManifest(files, root, identity)
             bound == [d \in Chunks |-> newest]
             seg == [d \in Chunks |-> Content(files, Segment(d))]
             sides == [d \in Chunks |->
               IF Has(files, SidecarOf(d))
                 THEN [files[SidecarOf(d)] EXCEPT !.completion = AsRead(@, root, identity)]
                 ELSE NoSidecar]
  <1>1. PICK x : x = Content(files, Segment(c))
    OBVIOUS
  <1>2. PICK f : f = files[TheManifest]
    OBVIOUS
  <1>3. Entry(TheManifest, f, sw) /\ GoodStored(f) /\ f.identity = identity
    <2>1. Entry(TheManifest, f, sw)
      BY <1>2 DEF Entries, Has
    <2>2. QED
      BY <1>2, <2>1, EntryKinds
  <1>4. PICK r : r = mem.chunks[c]
    OBVIOUS
  <1>5. /\ r \in Record /\ WellFormed(r)
        /\ r.status = f.body.chunks[c].status /\ r.lease = f.body.chunks[c].lease
        /\ r.completion = AsRead(f.body.chunks[c].completion, root, identity)
    <2>1. GoodStored(files[TheManifest])
      BY <1>2, <1>3
    <2>2. GoodMem(mem)
      BY <2>1, ManifestRead
    <2>3. Mirrors(mem, files[TheManifest].body)
      BY <2>1, ManifestRead
    <2>4. mem.chunks[c].completion
            = AsRead(files[TheManifest].body.chunks[c].completion, root, identity)
      BY <2>1, ManifestRead
    <2>5. mem.chunks[c].lease = files[TheManifest].body.chunks[c].lease
      BY <2>1, ManifestRead
    <2>6. GoodChunks(mem.chunks)
      BY <2>2, GoodMemIsManifest
    <2> HIDE DEF mem
    <2>7. QED
      BY <1>2, <1>4, <2>3, <2>4, <2>5, <2>6 DEF Mirrors, GoodChunks
  <1>6. PICK s : s = SideIn(files, c)
    OBVIOUS
  <1>7. PICK t : t = sides[c]
    OBVIOUS
  <1>8. t.lease = s.lease /\ t.completion = AsRead(s.completion, root, identity)
    <2>1. CASE Has(files, SidecarOf(c))
      <3>1. s = files[SidecarOf(c)] /\ t = [s EXCEPT !.completion = AsRead(@, root, identity)]
        BY <1>6, <1>7, <2>1 DEF SideIn
      <3>2. Entry(SidecarOf(c), s, sw)
        BY <2>1, <3>1 DEF Entries, Has
      <3>3. s \in [lease : Nat, completion : Stored]
        BY <3>2, SidecarEntry
      <3>4. QED
        BY <3>1, <3>3
    <2>2. CASE ~Has(files, SidecarOf(c))
      <3>1. s = NoSidecar /\ t = NoSidecar
        BY <1>6, <1>7, <2>2 DEF SideIn
      <3>2. QED
        BY <3>1 DEF NoSidecar, AsRead
    <2>3. QED
      BY <2>1, <2>2
  <1>9. PICK e : e = Expire(mem.chunks, bound)[c]
    OBVIOUS
  <1>10. /\ e = r \/ (r.status = "leased" /\ e = PendingRecord)
         /\ newest = 0 => e = r
    <2>1. e = IF r.status = "leased" /\ r.lease <= newest THEN PendingRecord ELSE r
      BY <1>4, <1>9 DEF Expire
    <2>2. newest = 0 /\ r.status = "leased" => ~(r.lease <= newest)
      BY <1>5 DEF WellFormed, Record
    <2>3. QED
      BY <2>1, <2>2
  <1>11. PICK v : v = Revalidate(e, x)
    OBVIOUS
  <1>12. PICK q : q = Recovered(files, root, identity, newest)[c]
    OBVIOUS
  <1>13. q = Repair(v, x, t)
    <2>1. q = RecoveredChunks(mem.chunks, bound, seg, sides)[c]
      BY <1>12 DEF Recovered
    <2>2. seg[c] = x
      BY <1>1
    <2> HIDE DEF mem, bound, sides, seg
    <2>3. QED
      BY <1>7, <1>9, <1>11, <2>1, <2>2 DEF RecoveredChunks
  <1> HIDE DEF mem, bound, sides, seg
  <1>14. \/ v = e /\ (e.status = "complete" => SegmentMatches(x, e.completion))
         \/ v = PendingRecord /\ e.status = "complete" /\ ~SegmentMatches(x, e.completion)
    BY <1>11 DEF Revalidate
  <1>15. \/ q = v /\ ~(/\ v.status # "complete" /\ t.completion # NoCompletion
                       /\ v.status = "leased" => v.lease = t.lease
                       /\ SegmentMatches(x, t.completion))
         \/ /\ q = CompleteRecord(t.lease, t.completion) /\ SegmentMatches(x, t.completion)
            /\ v.status = "leased" => v.lease = t.lease
    BY <1>13 DEF Repair, HoldsLease
  <1>16. PICK a : a = SegmentMatches(x, r.completion)
    OBVIOUS
  <1>17. PICK g : g = SegmentMatches(x, t.completion)
    OBVIOUS
  <1>18. /\ Stands(f, root, x, c) <=> r.status = "complete" /\ SegmentMatches(x, r.completion)
         /\ Vouches(f, root, x, s, c) <=> /\ r.status = "leased" => r.lease = t.lease
                                          /\ SegmentMatches(x, t.completion)
    BY <1>3, <1>5, <1>8 DEF Stands, Vouches
  <1>19. SegmentMatches(x, t.completion) => t.completion # NoCompletion
    BY PayloadAssumption DEF SegmentMatches, Exact, Completion, NoCompletion
  <1>20. EvidentIn(files, root, c) <=> Stands(f, root, x, c) \/ Vouches(f, root, x, s, c)
    BY <1>1, <1>2, <1>6 DEF EvidentIn, Evident
  <1>21. EvidentIn(files, root, c) => q.status = "complete"
    BY <1>10, <1>14, <1>15, <1>18, <1>19, <1>20, BuiltFields
  <1>22. q.status = "complete" => SegmentMatches(x, q.completion)
    BY <1>14, <1>15, BuiltFields
  <1>23. q.status = "leased" => q = r
    BY <1>10, <1>14, <1>15, BuiltFields
  <1>24. newest = 0 /\ q.status = "complete" => EvidentIn(files, root, c)
    BY <1>10, <1>14, <1>15, <1>18, <1>20, BuiltFields
  <1>25. QED
    BY <1>1, <1>4, <1>12, <1>21, <1>22, <1>23, <1>24 DEF mem, RightlyRecovered

\* Where a recovery would find work done, there is evidence for it.
LEMMA FinishedIsEvident ==
  ASSUME NEW root, NEW sw, NEW files, Entries(files, sw), NEW c
  PROVE  c \in Finished(files, root) <=>
           c \in Chunks /\ Has(files, TheManifest) /\ EvidentIn(files, root, c)
  <1>1. CASE ~Has(files, TheManifest)
    BY <1>1 DEF Finished, TheManifest
  <1>2. CASE Has(files, TheManifest)
    <2>1. PICK i : files[TheManifest].identity = i
      OBVIOUS
    <2>2. c \in Finished(files, root) <=>
            c \in Chunks /\ Recovered(files, root, i, 0)[c].status = "complete"
      BY <1>2, <2>1 DEF Finished, TheManifest
    <2>3. ASSUME c \in Chunks
          PROVE  Recovered(files, root, i, 0)[c].status = "complete" <=> EvidentIn(files, root, c)
      <3>1. RightlyRecovered(files, root, i, 0, c)
        BY <1>2, <2>1, <2>3, RecoveredRecord
      <3>2. QED
        BY <3>1 DEF RightlyRecovered
    <2>4. QED
      BY <1>2, <2>2, <2>3
  <1>3. QED
    BY <1>1, <1>2

-----------------------------------------------------------------------------
(***************************************************************************)
(* What a step leaves alone, and the leases that sidecars name.            *)
(***************************************************************************)

\* A file is as it was, or as little there as it was.
Keeps(old, new, n) ==
  /\ n \in DOMAIN new <=> n \in DOMAIN old
  /\ n \in DOMAIN old => new[n] = old[n]

\* What a recovery looks at, of the files of a chunk.
KeepsWork(old, new, c) == Keeps(old, new, Segment(c)) /\ Keeps(old, new, SidecarOf(c))

\* Writing or removing one file keeps the others.
LEMMA OthersKept ==
  ASSUME NEW files, NEW n, NEW x, NEW k, k # n
  PROVE  Keeps(files, With(files, n, x), k) /\ Keeps(files, Without(files, n), k)
  BY DEF Keeps, With, Without

\* A file kept twice is kept.
LEMMA KeptTwice ==
  ASSUME NEW a, NEW b, NEW d, NEW n, Keeps(a, b, n), Keeps(b, d, n)
  PROVE  Keeps(a, d, n)
  BY DEF Keeps

\* Where nothing changes everything is kept.
LEMMA AllKept ==
  ASSUME NEW files, NEW n
  PROVE  Keeps(files, files, n)
  BY DEF Keeps

\* What a recovery sees of a chunk is in its segment and its sidecar.
LEMMA WorkKept ==
  ASSUME NEW old, NEW new, NEW c, KeepsWork(old, new, c)
  PROVE  /\ Content(new, Segment(c)) = Content(old, Segment(c))
         /\ SideIn(new, c) = SideIn(old, c)
         /\ Has(new, Segment(c)) <=> Has(old, Segment(c))
         /\ Has(old, Segment(c)) => new[Segment(c)] = old[Segment(c)]
         /\ Has(new, SidecarOf(c)) <=> Has(old, SidecarOf(c))
         /\ Has(old, SidecarOf(c)) => new[SidecarOf(c)] = old[SidecarOf(c)]
  BY DEF KeepsWork, Keeps, Content, SideIn, Has

\* The names of the files of different chunks, and of different kinds.
LEMMA NamesDiffer ==
  ASSUME NEW c \in Chunks, NEW d \in Chunks
  PROVE  /\ Segment(c) # SidecarOf(d) /\ Segment(c) # Partial(d) /\ SidecarOf(c) # Partial(d)
         /\ c # d => Segment(c) # Segment(d) /\ SidecarOf(c) # SidecarOf(d)
         /\ \A n \in {TheManifest, TheTimeline, TheVideo, TheSelection} :
              Segment(c) # n /\ SidecarOf(c) # n
         /\ TheManifest # Segment(c) /\ TheManifest # SidecarOf(c) /\ TheManifest # Partial(c)
         /\ TheManifest # TheTimeline /\ TheManifest # TheVideo /\ TheManifest # TheSelection
  BY Kinds

\* Writing one of the records of the job keeps the work.
LEMMA RecordWritten ==
  ASSUME NEW files, NEW n \in {TheManifest, TheTimeline, TheVideo, TheSelection}, NEW x,
         NEW c \in Chunks
  PROVE  KeepsWork(files, With(files, n, x), c)
  BY OthersKept, NamesDiffer DEF KeepsWork

\* The manifest is written as one file.
LEMMA ManifestIsOneFile ==
  ASSUME NEW files, NEW m, NEW root, NEW identity
  PROVE  \E x : WriteManifest(files, m, root, identity) = With(files, TheManifest, x)
  BY DEF WriteManifest, TheManifest

\* The leases that the sidecars name are older than n.
Below(files, n) ==
  \A c \in Chunks : Has(files, SidecarOf(c)) => files[SidecarOf(c)].lease < n

\* No sidecar anywhere names a lease that has not been made, and before a command
\* has written its own sidecar none names its lease.
FreshInv ==
  /\ Below(tree, issued + 1)
  /\ archive # NoArchive => Below(archive.files, issued + 1)
  /\ pack.at # "idle" => Below(pack.read, issued + 1)
  /\ unpack.at # "idle" => Below(unpack.files, issued + 1)
  /\ run.at \in {"encode", "publish", "sidecar"} =>
       run.lease \in Nat /\ run.lease <= issued /\ Below(tree, run.lease)

\* Leases of sidecars are numbers.
LEMMA SidecarLease ==
  ASSUME NEW files, NEW sw, Entries(files, sw), NEW c \in Chunks, Has(files, SidecarOf(c))
  PROVE  files[SidecarOf(c)].lease \in Nat
  <1>1. PICK x : x = files[SidecarOf(c)]
    OBVIOUS
  <1>2. Entry(SidecarOf(c), x, sw)
    BY <1>1 DEF Entries, Has
  <1>3. x \in [lease : Nat, completion : Stored]
    BY <1>2, SidecarEntry
  <1>4. QED
    BY <1>1, <1>3

\* What is older than n is older than a later lease ...
LEMMA BelowMore ==
  ASSUME NEW files, NEW sw, Entries(files, sw), NEW n \in Nat, NEW k \in Nat, n <= k,
         Below(files, n)
  PROVE  Below(files, k)
  <1> SUFFICES ASSUME NEW c \in Chunks, Has(files, SidecarOf(c))
               PROVE  files[SidecarOf(c)].lease < k
    BY DEF Below
  <1>1. files[SidecarOf(c)].lease \in Nat
    BY SidecarLease
  <1>2. files[SidecarOf(c)].lease < n
    BY DEF Below
  <1>3. QED
    BY <1>1, <1>2

\* ... and stays so where the sidecars are kept, ...
LEMMA BelowKept ==
  ASSUME NEW old, NEW new, NEW n, Below(old, n), \A c \in Chunks : Keeps(old, new, SidecarOf(c))
  PROVE  Below(new, n)
  BY DEF Below, Keeps, Has

\* ... where a file is written that names no newer lease ...
LEMMA BelowWith ==
  ASSUME NEW files, NEW n, NEW x, NEW k, Below(files, n),
         \A c \in Chunks : k = SidecarOf(c) => x.lease < n
  PROVE  Below(With(files, k, x), n)
  BY DEF Below, With, Has

\* ... and where there is no file.
LEMMA BelowNothing ==
  ASSUME NEW n
  PROVE  Below(Empty, n)
  BY NoFiles DEF Below, Has

\* The step that a command takes at each point past the preparation.
LEMMA StepAtPoint ==
  ASSUME RunStep
  PROVE  /\ run.at # "idle"
         /\ run.at = "recover" => RecoverJob \/ Qa
         /\ run.at = "reopen" => Reopen
         /\ run.at = "lease" => Lease
         /\ run.at = "encode" => Encode
         /\ run.at = "publish" => Publish
         /\ run.at = "sidecar" => WriteSidecar
         /\ run.at = "commit" => Commit
         /\ run.at = "committed" => Committed
         /\ run.at = "finish" => Finish
         /\ run.at = "concat" => Concat
  BY DEF RunStep, StatSource, HashSource, WriteSelection, Probe, Construct, WriteRecords,
         RecoverJob, Reopen, Lease, Encode, Publish, WriteSidecar, Commit, Committed, Finish,
         Concat, Qa

\* The command is not about to replace the segment or the sidecar of the chunk.
Unhanded(r, c) == c = r.chunk => r.at \notin {"publish", "sidecar"}

\* A step of a command keeps the work of every chunk but the one it publishes or
\* writes a sidecar for, and of that one it keeps the other file.
LEMMA RunKeepsWork ==
  ASSUME Inv, RunStep
  PROVE  /\ \A c \in Chunks : Unhanded(run, c) => KeepsWork(tree, tree', c)
         /\ run.at = "publish" => Keeps(tree, tree', SidecarOf(run.chunk))
         /\ run.at = "sidecar" => Keeps(tree, tree', Segment(run.chunk))
  <1>1. run.at # "idle" /\ run.chunk \in Chunks
    <2>1. run.at # "idle"
      BY StepAtPoint
    <2>2. QED
      BY <2>1, RunKnows, RunFields
  <1>2. ASSUME tree' = tree
        PROVE  \A n : Keeps(tree, tree', n)
    BY <1>2, AllKept
  <1>3. ASSUME NEW n \in {TheManifest, TheTimeline, TheVideo, TheSelection}, NEW x,
               tree' = With(tree, n, x)
        PROVE  \A c \in Chunks : KeepsWork(tree, tree', c)
    BY <1>3, RecordWritten
  <1>4. ASSUME NEW m, NEW root, NEW identity, tree' = WriteManifest(tree, m, root, identity)
        PROVE  \A c \in Chunks : KeepsWork(tree, tree', c)
    <2>1. PICK x : WriteManifest(tree, m, root, identity) = With(tree, TheManifest, x)
      BY ManifestIsOneFile
    <2>2. QED
      BY <1>3, <1>4, <2>1
  <1>5. CASE run.at \notin {"encode", "publish", "sidecar"}
    <2> DEFINE Plain ==
          \/ tree' = tree
          \/ \E n \in {TheManifest, TheTimeline, TheVideo, TheSelection} :
               \E x : tree' = With(tree, n, x)
          \/ \E m, root, identity : tree' = WriteManifest(tree, m, root, identity)
    <2>1. Plain
      <3>1. StatSource \/ HashSource \/ Probe \/ Finish \/ Qa => Plain
        BY DEF StatSource, HashSource, Probe, Finish, Qa
      <3>2. WriteSelection \/ WriteRecords \/ Concat => Plain
        BY DEF WriteSelection, WriteRecords, Concat, TheTimeline, TheVideo, TheSelection
      <3>3. ASSUME NEW m, NEW next, Persisted(m, next)
            PROVE  Plain
        BY <3>3 DEF Persisted
      <3>4. Construct => Plain
        BY DEF Construct
      <3>5. RecoverJob \/ Reopen \/ Commit \/ Committed => Plain
        <4> HIDE DEF Plain
        <4>1. RecoverJob => Plain
          <5>1. RecoverJob => (\E m, next : Persisted(m, next)) \/ tree' = tree
            BY DEF RecoverJob
          <5>2. QED
            BY <3>3, <5>1 DEF Plain
        <4>2. Reopen \/ Committed => Plain
          <5>1. Reopen \/ Committed => (\E m, next : Persisted(m, next)) \/ tree' = tree
            BY DEF Reopen, Committed
          <5>2. QED
            BY <3>3, <5>1 DEF Plain
        <4>3. Commit => Plain
          BY <3>3 DEF Commit
        <4>4. QED
          BY <4>1, <4>2, <4>3
      <3>6. ASSUME Lease
            PROVE  Plain
        <4> DEFINE records == Expire(run.mem.chunks, [c \in Chunks |-> lapsed])
                   m(c) == NextManifest(run.mem, [records EXCEPT ![c] = LeasedRecord(issued')],
                                        "running")
        <4>1. \/ tree' = tree
              \/ \E c \in Chunks : tree' = WriteManifest(tree, m(c), session.root, run.identity)
          BY <3>6 DEF Lease
        <4> HIDE DEF m
        <4>2. QED
          BY <4>1
      <3>7. ~Encode /\ ~Publish /\ ~WriteSidecar
        BY <1>5 DEF Encode, Publish, WriteSidecar
      <3> HIDE DEF Plain
      <3>8. QED
        BY <3>1, <3>2, <3>4, <3>5, <3>6, <3>7 DEF RunStep
    <2>2. QED
      BY <1>2, <1>3, <1>4, <1>5, <2>1 DEF KeepsWork
  <1>6. CASE run.at = "encode"
    <2>1. tree' = With(tree, Partial(run.chunk), video.content)
      BY <1>6, StepAtPoint DEF Encode
    <2>2. QED
      BY <1>1, <1>6, <2>1, NamesDiffer, OthersKept DEF KeepsWork
  <1>7. CASE run.at = "publish"
    <2>1. tree' = With(Without(tree, Partial(run.chunk)), Segment(run.chunk),
                       tree[Partial(run.chunk)])
      BY <1>7, StepAtPoint DEF Publish
    <2>2. ASSUME NEW n, n # Partial(run.chunk), n # Segment(run.chunk)
          PROVE  Keeps(tree, tree', n)
      BY <2>1, <2>2, OthersKept, KeptTwice
    <2>3. QED
      BY <1>1, <1>7, <2>2, NamesDiffer DEF KeepsWork, Unhanded
  <1>8. CASE run.at = "sidecar"
    <2>1. \E x : tree' = With(tree, SidecarOf(run.chunk), x)
      BY <1>8, StepAtPoint DEF WriteSidecar
    <2>2. ASSUME NEW n, n # SidecarOf(run.chunk)
          PROVE  Keeps(tree, tree', n)
      BY <2>1, <2>2, OthersKept
    <2>3. QED
      BY <1>1, <1>8, <2>2, NamesDiffer DEF KeepsWork, Unhanded
  <1>9. QED
    BY <1>5, <1>6, <1>7, <1>8

\* Where each step of a command leads.
LEMMA PointsReached ==
  ASSUME Inv, run.at # "idle"
  PROVE  /\ StatSource \/ HashSource \/ WriteSelection \/ Probe \/ Construct =>
              run'.at \in {"idle", "hash", "selection", "probe", "construct", "timeline"}
         /\ WriteRecords => run'.at = "recover"
         /\ RecoverJob => run'.at = "reopen"
         /\ Reopen => run'.at = "lease"
         /\ Lease => run'.at \in {"finish", "encode"}
         /\ Encode => run'.at = "publish"
         /\ Publish => run'.at = "sidecar"
         /\ WriteSidecar => run'.at = "commit"
         /\ Commit => run'.at = "committed"
         /\ Committed => run'.at \in {"finish", "lease"}
         /\ Finish => run'.at \in {"idle", "concat"}
         /\ Concat \/ Qa => run'.at = "idle"
  <1>1. run \in RunType
    BY RunKnows
  <1>2. \A a : [run EXCEPT !.at = a].at = a
    BY <1>1 DEF RunType
  <1>3. \A o : Ended(o).at = "idle"
    BY DEF Ended
  <1>4. StatSource => run'.at = "hash"
    BY <1>1 DEF StatSource, RunType
  <1>5. HashSource => run'.at \in {"selection", "idle"}
    BY <1>1, <1>3 DEF HashSource, RunType
  <1>6. WriteSelection => run'.at = "probe"
    BY <1>2 DEF WriteSelection, Goto
  <1>7. Probe => run'.at = "construct"
    BY <1>1 DEF Probe, RunType
  <1>8. Construct => run'.at \in {"timeline", "idle"}
    BY <1>1, <1>3 DEF Construct, RunType
  <1>9. WriteRecords => run'.at = "recover"
    BY <1>2 DEF WriteRecords, Goto
  <1>10. ASSUME NEW m, NEW next, Persisted(m, next)
         PROVE  run'.at = next
    BY <1>1, <1>10 DEF Persisted, RunType
  <1>11. RecoverJob => run'.at = "reopen"
    <2>1. RecoverJob => \/ \E m : Persisted(m, "reopen")
                        \/ \E m : run' = [run EXCEPT !.at = "reopen", !.mem = m]
      BY DEF RecoverJob
    <2>2. ASSUME NEW m, run' = [run EXCEPT !.at = "reopen", !.mem = m]
          PROVE  run'.at = "reopen"
      BY <1>1, <2>2 DEF RunType
    <2>3. QED
      BY <1>10, <2>1, <2>2
  <1>12. Reopen => run'.at = "lease"
    BY <1>2, <1>10 DEF Reopen, Goto
  <1>13. Lease => run'.at \in {"finish", "encode"}
    <2> SUFFICES ASSUME Lease
                 PROVE  run'.at \in {"finish", "encode"}
      OBVIOUS
    <2> DEFINE records == Expire(run.mem.chunks, [c \in Chunks |-> lapsed])
               m(c) == NextManifest(run.mem, [records EXCEPT ![c] = LeasedRecord(issued')],
                                    "running")
    <2>1. \/ Goto("finish")
          \/ \E c \in Chunks : run' = [run EXCEPT !.at = "encode", !.mem = m(c), !.chunk = c,
                                                  !.lease = issued']
      BY DEF Lease
    <2> HIDE DEF m
    <2>2. QED
      BY <1>1, <1>2, <2>1 DEF Goto, RunType
  <1>14. Encode => run'.at = "publish"
    BY <1>2 DEF Encode, Goto
  <1>15. Publish => run'.at = "sidecar"
    BY <1>2 DEF Publish, Goto
  <1>16. WriteSidecar => run'.at = "commit"
    BY <1>2 DEF WriteSidecar, Goto
  <1>17. Commit => run'.at = "committed"
    BY <1>10 DEF Commit
  <1>18. Committed => run'.at \in {"finish", "lease"}
    BY <1>2, <1>10 DEF Committed, Goto
  <1>19. Finish => run'.at \in {"idle", "concat"}
    BY <1>2, <1>3 DEF Finish, Goto
  <1>20. Concat \/ Qa => run'.at = "idle"
    BY <1>3 DEF Concat, Qa
  <1>21. QED
    BY <1>4, <1>5, <1>6, <1>7, <1>8, <1>9, <1>11, <1>12, <1>13, <1>14, <1>15, <1>16, <1>17,
       <1>18, <1>19, <1>20

\* A lease: the manifest that is written, and the command that holds it.
LEMMA LeaseStep ==
  ASSUME Inv, Lease
  PROVE  \/ Goto("finish") /\ tree' = tree /\ issued' = issued
         \/ \E c \in Chunks :
              LET records == Expire(run.mem.chunks, [d \in Chunks |-> lapsed])
                  m == NextManifest(run.mem, [records EXCEPT ![c] = LeasedRecord(issued + 1)],
                                    "running")
              IN /\ issued' = issued + 1 /\ records[c].status = "pending"
                 /\ tree' = WriteManifest(tree, m, session.root, run.identity)
                 /\ run' = [run EXCEPT !.at = "encode", !.mem = m, !.chunk = c,
                                       !.lease = issued + 1]
  BY DEF Lease, IsFirstPending

\* What else a step of a command changes.
LEMMA RunLeavesOthers ==
  ASSUME RunStep
  PROVE  /\ UNCHANGED others
         /\ issued' = issued \/ (run.at = "lease" /\ issued' = issued + 1)
  BY DEF RunStep, StatSource, HashSource, WriteSelection, Probe, Construct, WriteRecords,
         RecoverJob, Reopen, Lease, Encode, Publish, WriteSidecar, Commit, Committed, Finish,
         Concat, Qa

\* Leases are counted up, and a sidecar names the lease of the command that wrote
\* it: those of the directory, the archive and what is being read or restored are
\* no newer than the newest lease.
LEMMA FreshRun ==
  ASSUME Inv, FreshInv, RunStep, Inv'
  PROVE  FreshInv'
  <1>1. PICK n \in Nat : n = issued
    BY DEF Inv, WorldInv
  <1>2. PICK k \in Nat : k = issued' /\ n <= k
    BY <1>1, RunLeavesOthers
  <1>3. /\ archive' = archive /\ pack' = pack /\ unpack' = unpack
        /\ run.at # "idle" /\ run \in RunType /\ run.chunk \in Chunks
        /\ Entries(tree, swapped)
    BY RunLeavesOthers, StepAtPoint, RunKnows, RunFields DEF others
  <1>4. Below(tree, n + 1)
    BY <1>1 DEF FreshInv
  <1>5. ASSUME run.at # "sidecar"
        PROVE  \A c \in Chunks : Keeps(tree, tree', SidecarOf(c))
    BY <1>5, RunKeepsWork DEF Unhanded, KeepsWork
  <1>6. Below(tree', n + 1)
    <2>1. CASE run.at # "sidecar"
      BY <1>4, <1>5, <2>1, BelowKept
    <2>2. CASE run.at = "sidecar"
      <3>1. PICK x : tree' = With(tree, SidecarOf(run.chunk), x) /\ x.lease = run.lease
        BY <2>2, StepAtPoint DEF WriteSidecar
      <3>2. run.lease \in Nat /\ run.lease <= n
        BY <1>1, <2>2 DEF FreshInv
      <3>3. x.lease < n + 1
        BY <3>1, <3>2
      <3>4. QED
        BY <1>4, <3>1, <3>3, BelowWith
    <2>3. QED
      BY <2>1, <2>2
  <1>7. Below(tree', k + 1)
    <2>1. Entries(tree', swapped')
      BY DEF Inv, TreeInv
    <2>2. n + 1 \in Nat /\ k + 1 \in Nat /\ n + 1 <= k + 1
      <3>1. n <= k /\ n \in Nat /\ k \in Nat
        BY <1>1, <1>2
      <3>2. QED
        BY <3>1
    <2>3. QED
      BY <1>6, <2>1, <2>2, BelowMore
  <1>8. ASSUME NEW files, NEW sw, Entries(files, sw), Below(files, n + 1)
        PROVE  Below(files, k + 1)
    <2>1. n + 1 \in Nat /\ k + 1 \in Nat /\ n + 1 <= k + 1
      <3>1. n <= k /\ n \in Nat /\ k \in Nat
        BY <1>1, <1>2
      <3>2. QED
        BY <3>1
    <2>2. QED
      BY <1>8, <2>1, BelowMore
  <1>9. archive # NoArchive => Below(archive.files, k + 1)
    BY <1>1, <1>8 DEF Inv, ArchiveInv, FreshInv
  <1>10. pack.at # "idle" => Below(pack.read, k + 1)
    BY <1>1, <1>8 DEF Inv, PackInv, FreshInv
  <1>11. unpack.at # "idle" => Below(unpack.files, k + 1)
    BY <1>1, <1>8 DEF Inv, UnpackInv, FreshInv
  <1>12. ASSUME run'.at \in {"encode", "publish", "sidecar"}
         PROVE  run'.lease \in Nat /\ run'.lease <= k /\ Below(tree', run'.lease)
    <2>1. run.at \in {"lease", "encode", "publish"}
      <3>1. PICK a : a = run'.at
        OBVIOUS
      <3>2. a \in {"encode", "publish", "sidecar"}
        BY <1>12, <3>1
      <3>3. Lease \/ Encode \/ Publish
        BY <1>3, <3>1, <3>2, PointsReached DEF RunStep
      <3>4. QED
        BY <3>3 DEF Lease, Encode, Publish
    <2>2. CASE run.at = "lease"
      <3>1. run'.lease = n + 1 /\ k = n + 1
        <4>1. Lease
          BY <2>2, StepAtPoint
        <4>2. ~Goto("finish")
          BY <1>3, <1>12 DEF Goto, RunType
        <4>3. issued' = issued + 1 /\ run'.lease = issued + 1
          BY <1>3, <4>1, <4>2, LeaseStep DEF RunType
        <4>4. QED
          BY <1>1, <1>2, <4>3
      <3>2. QED
        BY <1>6, <3>1
    <2>3. CASE run.at \in {"encode", "publish"}
      <3>1. run'.lease = run.lease /\ k = n
        BY <1>1, <1>2, <1>3, <2>3, StepAtPoint DEF Encode, Publish, Goto, RunType
      <3>2. run.lease \in Nat /\ run.lease <= n /\ Below(tree, run.lease)
        BY <1>1, <2>3 DEF FreshInv
      <3>3. Below(tree', run.lease)
        BY <1>5, <2>3, <3>2, BelowKept
      <3>4. QED
        BY <3>1, <3>2, <3>3
    <2>4. QED
      BY <2>1, <2>2, <2>3
  <1>13. QED
    BY <1>2, <1>3, <1>7, <1>9, <1>10, <1>11, <1>12 DEF FreshInv

-----------------------------------------------------------------------------
(***************************************************************************)
(* What a command past its recovery knows of the work.                     *)
(***************************************************************************)

\* What the record of a chunk says of its segment is so, and a sidecar that
\* would complete a leased chunk is the one that its command has just written.
ChunkSettled(r, files, root, c) ==
  LET q == r.mem.chunks[c]
      m == files[TheManifest]
      content == Content(files, Segment(c))
  IN /\ m.body.chunks[c].lease = q.lease
     /\ q.status = "complete" =>
          SegmentMatches(content, q.completion) /\ Stands(m, root, content, c)
     /\ q.status = "leased" /\ Vouches(m, root, content, SideIn(files, c), c) =>
          r.at = "commit" /\ c = r.chunk

\* A command at work on a chunk holds the lease that its memory records.
InHand(r) ==
  r.at \in {"encode", "publish", "sidecar", "commit"} =>
    r.mem.chunks[r.chunk] = LeasedRecord(r.lease)

\* What recover establishes and every later step of the command keeps.
SettledInv ==
  run.at \in PastRecovery =>
    /\ \A c \in Chunks : ChunkSettled(run, tree, session.root, c)
    /\ InHand(run)

\* The sidecar of a lease would complete the chunk.
SideMatches(files, root, identity, lease, c) ==
  /\ lease = SideIn(files, c).lease
  /\ SegmentMatches(Content(files, Segment(c)), AsRead(SideIn(files, c).completion, root, identity))

\* A sidecar is of an earlier lease than one that was just made.
LEMMA NoSideMatches ==
  ASSUME NEW files, NEW sw, Entries(files, sw), NEW root, NEW identity, NEW n \in Nat,
         Below(files, n), NEW c \in Chunks
  PROVE  ~SideMatches(files, root, identity, n, c)
  <1>1. CASE Has(files, SidecarOf(c))
    <2>1. PICK l \in Nat : l = files[SidecarOf(c)].lease
      BY <1>1, SidecarLease
    <2>2. l < n
      BY <1>1, <2>1 DEF Below
    <2>3. QED
      BY <1>1, <2>1, <2>2 DEF SideMatches, SideIn
  <1>2. CASE ~Has(files, SidecarOf(c))
    <2>1. SideIn(files, c) = NoSidecar
      BY <1>2 DEF SideIn
    <2>2. NoCompletion \notin Exact /\ AsRead(NoSidecar.completion, root, identity) = NoCompletion
      BY PayloadAssumption DEF NoCompletion, Exact, Completion, NoSidecar, AsRead
    <2>3. QED
      BY <2>1, <2>2 DEF SideMatches, SegmentMatches
  <1>3. QED
    BY <1>1, <1>2

\* What is stored of a record, and read back.
LEMMA WrittenRecord ==
  ASSUME NEW m, NEW root, NEW identity, GoodMem(m), NEW c \in Chunks
  PROVE  /\ Written(m, root, identity).identity = identity
         /\ Written(m, root, identity).body.chunks[c].status = m.chunks[c].status
         /\ Written(m, root, identity).body.chunks[c].lease = m.chunks[c].lease
         /\ Written(m, root, identity).body.chunks[c].completion
              = AsStored(m.chunks[c].completion, root, identity)
  <1>1. m \in Manifest /\ m.chunks[c] \in Record
    BY GoodMemIsManifest DEF GoodChunks
  <1> DEFINE g == [d \in Chunks |-> [m.chunks[d] EXCEPT
                     !.completion = AsStored(m.chunks[d].completion, root, identity)]]
  <1>2. Written(m, root, identity) = [identity |-> identity, body |-> [m EXCEPT !.chunks = g]]
    BY DEF Written
  <1>3. g[c] = [m.chunks[c] EXCEPT !.completion = AsStored(m.chunks[c].completion, root, identity)]
    OBVIOUS
  <1>4. /\ g[c].status = m.chunks[c].status /\ g[c].lease = m.chunks[c].lease
        /\ g[c].completion = AsStored(m.chunks[c].completion, root, identity)
    <2> HIDE DEF g
    <2>1. PICK r \in Record : r = m.chunks[c]
      BY <1>1
    <2>2. QED
      BY <1>3, <2>1 DEF Record
  <1> HIDE DEF g
  <1>5. PICK b : b = [m EXCEPT !.chunks = g]
    OBVIOUS
  <1>6. b.chunks = g
    BY <1>1, <1>5 DEF Manifest
  <1>7. PICK w : w = Written(m, root, identity)
    OBVIOUS
  <1>8. w.identity = identity /\ w.body = b
    BY <1>2, <1>5, <1>7
  <1>9. QED
    BY <1>4, <1>6, <1>7, <1>8

\* A completion that fits is read back as it was written.
LEMMA ReadBack ==
  ASSUME NEW k \in Exact, NEW root, NEW identity
  PROVE  AsRead(AsStored(k, root, identity), root, identity) = k
  <1>1. k.sha \in Payloads /\ k = [sha |-> k.sha, fits |-> TRUE] /\ k # NoCompletion
    BY PayloadAssumption DEF Exact, Completion, NoCompletion
  <1>2. AsStored(k, root, identity) = [sha |-> k.sha, root |-> root, identity |-> identity]
    BY <1>1 DEF AsStored
  <1>3. [sha |-> k.sha, root |-> root, identity |-> identity] # NoCompletion
    BY DEF NoCompletion
  <1>4. PICK t : t = [sha |-> k.sha, root |-> root, identity |-> identity]
    OBVIOUS
  <1>5. AsRead(t, root, identity) = [sha |-> t.sha, fits |-> t.root = root /\ t.identity = identity]
    BY <1>3, <1>4 DEF AsRead
  <1>6. t.sha = k.sha /\ (t.root = root /\ t.identity = identity) = TRUE
    BY <1>4
  <1>7. AsRead(t, root, identity) = [sha |-> k.sha, fits |-> TRUE]
    BY <1>5, <1>6
  <1>8. QED
    BY <1>1, <1>2, <1>4, <1>7

\* A chunk is settled in a manifest that is written.
LEMMA WriterSettles ==
  ASSUME Inv, run.at \notin Unread, NEW m, GoodMem(m),
         tree' = WriteManifest(tree, m, session.root, run.identity), run'.mem = m,
         NEW c \in Chunks,
         m.chunks[c].status = "complete" =>
           SegmentMatches(Content(tree, Segment(c)), m.chunks[c].completion),
         m.chunks[c].status = "leased" =>
           ~SideMatches(tree, session.root, run.identity, m.chunks[c].lease, c)
  PROVE  ChunkSettled(run', tree', session.root, c)
  <1>1. PICK x : x = Written(m, session.root, run.identity)
    OBVIOUS
  <1>2. PICK i : i = run.identity
    OBVIOUS
  <1>3. PICK o : o = session.root
    OBVIOUS
  <1>4. tree' = With(tree, TheManifest, x)
    BY <1>1, ReadKnows, ManifestIsWritten
  <1>5. tree'[TheManifest] = x
    BY <1>4 DEF With
  <1>6. KeepsWork(tree, tree', c)
    BY <1>4, RecordWritten
  <1>7. PICK content : content = Content(tree, Segment(c)) /\ content = Content(tree', Segment(c))
    BY <1>6, WorkKept
  <1>8. PICK s : s = SideIn(tree, c) /\ s = SideIn(tree', c)
    BY <1>6, WorkKept
  <1>9. PICK q : q = m.chunks[c]
    OBVIOUS
  <1>10. /\ x.identity = i /\ x.body.chunks[c].status = q.status
         /\ x.body.chunks[c].lease = q.lease
         /\ x.body.chunks[c].completion = AsStored(q.completion, o, i)
    BY <1>1, <1>2, <1>3, <1>9, WrittenRecord
  <1>11. q.status = "complete" => SegmentMatches(content, q.completion)
    BY <1>7, <1>9
  <1>12. q.status = "complete" => Stands(x, o, content, c)
    <2>1. ASSUME q.status = "complete"
          PROVE  q.completion \in Exact
      BY <1>11, <2>1 DEF SegmentMatches
    <2>2. ASSUME q.status = "complete"
          PROVE  AsRead(AsStored(q.completion, o, i), o, i) = q.completion
      BY <2>1, <2>2, ReadBack
    <2>3. QED
      BY <1>10, <1>11, <2>2 DEF Stands
  <1>13. q.status = "leased" => ~Vouches(x, o, content, s, c)
    BY <1>2, <1>3, <1>7, <1>8, <1>9, <1>10 DEF Vouches, SideMatches
  <1>14. QED
    BY <1>3, <1>5, <1>7, <1>8, <1>9, <1>10, <1>11, <1>12, <1>13 DEF ChunkSettled

\* A chunk stays settled where its record and its files do.
LEMMA StaysSettled ==
  ASSUME NEW c \in Chunks, ChunkSettled(run, tree, session.root, c), run'.mem = run.mem,
         run.at # "commit", KeepsWork(tree, tree', c), tree'[TheManifest] = tree[TheManifest]
  PROVE  ChunkSettled(run', tree', session.root, c)
  <1>1. /\ Content(tree', Segment(c)) = Content(tree, Segment(c))
        /\ SideIn(tree', c) = SideIn(tree, c)
    BY WorkKept
  <1>2. QED
    BY <1>1 DEF ChunkSettled

\* What a settled chunk means for the manifest that is written next.
LEMMA SettledRecord ==
  ASSUME Inv, run.at \notin Unread, NEW c \in Chunks, ChunkSettled(run, tree, session.root, c),
         run.at # "commit" \/ c # run.chunk
  PROVE  /\ run.mem.chunks[c].status = "complete" =>
              SegmentMatches(Content(tree, Segment(c)), run.mem.chunks[c].completion)
         /\ run.mem.chunks[c].status = "leased" =>
              ~SideMatches(tree, session.root, run.identity, run.mem.chunks[c].lease, c)
  <1>1. /\ tree[TheManifest].identity = run.identity
        /\ Mirrors(run.mem, tree[TheManifest].body)
    BY ReadKnows
  <1>2. tree[TheManifest].body.chunks[c].status = run.mem.chunks[c].status
    BY <1>1 DEF Mirrors
  <1>3. QED
    BY <1>1, <1>2 DEF ChunkSettled, SideMatches, Vouches

\* Points past the recovery are past the constructor.
LEMMA PastIsRead ==
  /\ \A a \in PastRecovery : a \notin Unread /\ a \in RunPoints
  /\ "recover" \notin Unread /\ "recover" \notin PastRecovery /\ "idle" \notin PastRecovery
  BY DEF PastRecovery, Unread, Unprobed, Unlaid, Unhashed, RunPoints

\* recover: every record is put right.
LEMMA RecoverSettles ==
  ASSUME Inv, RecoverJob, Inv', NEW c \in Chunks
  PROVE  ChunkSettled(run', tree', session'.root, c)
  <1> DEFINE mem == ReadManifest(tree, session.root, run.identity)
             records == Recovered(tree, session.root, run.identity, lapsed)
             m == NextManifest(mem, records, StateAfterRecover(mem.state, records))
  <1>1. /\ run.at = "recover" /\ session' = session
        /\ \/ Persisted(m, "reopen")
           \/ /\ run' = [run EXCEPT !.at = "reopen", !.mem = mem] /\ tree' = tree
              /\ records = mem.chunks
    BY DEF RecoverJob, others, world
  <1>2. run.at \notin Unread
    BY <1>1, PastIsRead
  <1>3. /\ Has(tree, TheManifest) /\ tree[TheManifest].identity = run.identity
        /\ Entries(tree, swapped) /\ GoodStored(tree[TheManifest])
        /\ run \in RunType
    BY <1>2, ReadKnows
  <1>4. RightlyRecovered(tree, session.root, run.identity, lapsed, c)
    BY <1>3, RecoveredRecord
  <1>5. /\ EvidentIn(tree, session.root, c) => records[c].status = "complete"
        /\ records[c].status = "complete" =>
             SegmentMatches(Content(tree, Segment(c)), records[c].completion)
        /\ records[c].status = "leased" => records[c] = mem.chunks[c]
    BY <1>4 DEF RightlyRecovered
  <1>6. Mirrors(mem, tree[TheManifest].body)
    BY <1>3, ManifestRead
  <1>7. mem.chunks[c].completion
          = AsRead(tree[TheManifest].body.chunks[c].completion, session.root, run.identity)
    BY <1>3, ManifestRead
  <1>8. mem.chunks[c].lease = tree[TheManifest].body.chunks[c].lease
    BY <1>3, ManifestRead
  <1>9. mem.chunks[c].status = tree[TheManifest].body.chunks[c].status
    BY <1>6 DEF Mirrors
  <1> HIDE DEF mem, records
  <1>10. records[c].status = "leased" =>
           ~Vouches(tree[TheManifest], session.root, Content(tree, Segment(c)), SideIn(tree, c), c)
    BY <1>5 DEF EvidentIn, Evident
  <1>11. CASE Persisted(m, "reopen")
    <2>1. m.chunks = records
      BY DEF NextManifest
    <2> HIDE DEF m
    <2>2. tree' = WriteManifest(tree, m, session.root, run.identity)
      BY <1>11 DEF Persisted
    <2>3. run'.mem = m /\ run'.at = "reopen"
      BY <1>3, <1>11 DEF Persisted, RunType
    <2>4. GoodMem(m)
      BY <2>3 DEF Inv, RunInv, RunFits
    <2>5. m.chunks[c].status = "leased" =>
            ~SideMatches(tree, session.root, run.identity, m.chunks[c].lease, c)
      BY <1>3, <1>5, <1>8, <1>10, <2>1 DEF SideMatches, Vouches
    <2>6. m.chunks[c].status = "complete" =>
            SegmentMatches(Content(tree, Segment(c)), m.chunks[c].completion)
      BY <1>5, <2>1
    <2>7. ChunkSettled(run', tree', session.root, c)
      BY <1>2, <2>2, <2>3, <2>4, <2>5, <2>6, WriterSettles
    <2>8. QED
      BY <1>1, <2>7
  <1>12. CASE /\ run' = [run EXCEPT !.at = "reopen", !.mem = mem] /\ tree' = tree
              /\ records = mem.chunks
    <2>1. run'.mem = mem
      BY <1>3, <1>12 DEF RunType
    <2>2. mem.chunks[c].status = "complete" =>
            /\ SegmentMatches(Content(tree, Segment(c)), mem.chunks[c].completion)
            /\ Stands(tree[TheManifest], session.root, Content(tree, Segment(c)), c)
      BY <1>3, <1>5, <1>7, <1>9, <1>12 DEF Stands
    <2>3. QED
      BY <1>1, <1>8, <1>10, <1>12, <2>1, <2>2 DEF ChunkSettled
  <1>13. QED
    BY <1>1, <1>11, <1>12

\* A command that writes or keeps its manifest, and changes no record.
LEMMA SameRecordsSettle ==
  ASSUME Inv, run.at \in PastRecovery \ {"commit"}, Inv', session' = session, NEW c \in Chunks,
         ChunkSettled(run, tree, session.root, c),
         \/ \E s, next : Persisted(NextManifest(run.mem, run.mem.chunks, s), next)
         \/ tree' = tree /\ \E next : Goto(next)
  PROVE  ChunkSettled(run', tree', session.root, c)
  <1>1. run.at \notin Unread /\ run \in RunType
    BY PastIsRead, ReadKnows
  <1>2. CASE \E s, next : Persisted(NextManifest(run.mem, run.mem.chunks, s), next)
    <2>1. PICK m : m.chunks = run.mem.chunks /\ \E next : Persisted(m, next)
      BY <1>2 DEF NextManifest
    <2>2. tree' = WriteManifest(tree, m, session.root, run.identity) /\ run'.mem = m
      BY <1>1, <2>1 DEF Persisted, RunType
    <2>3. GoodMem(m)
      BY <2>2 DEF Inv, RunInv, RunFits
    <2>4. /\ m.chunks[c].status = "complete" =>
               SegmentMatches(Content(tree, Segment(c)), m.chunks[c].completion)
          /\ m.chunks[c].status = "leased" =>
               ~SideMatches(tree, session.root, run.identity, m.chunks[c].lease, c)
      BY <1>1, <2>1, SettledRecord
    <2>5. QED
      BY <1>1, <2>2, <2>3, <2>4, WriterSettles
  <1>3. CASE tree' = tree /\ \E next : Goto(next)
    <2>1. run'.mem = run.mem
      BY <1>1, <1>3 DEF Goto, RunType
    <2>2. KeepsWork(tree, tree', c)
      BY <1>3, AllKept DEF KeepsWork
    <2>3. QED
      BY <1>3, <2>1, <2>2, StaysSettled
  <1>4. QED
    BY <1>2, <1>3

\* lease: a lease that no sidecar can name.
LEMMA LeaseSettles ==
  ASSUME Inv, FreshInv, SettledInv, Lease, Inv'
  PROVE  /\ \A c \in Chunks : ChunkSettled(run', tree', session'.root, c)
         /\ InHand(run')
  <1>1. run.at = "lease" /\ session' = session
    BY DEF Lease, others, world
  <1>2. /\ run.at \notin Unread /\ run \in RunType /\ GoodMem(run.mem)
        /\ run.at \in PastRecovery /\ Entries(tree, swapped)
    BY <1>1, PastIsRead, ReadKnows DEF PastRecovery
  <1>3. ASSUME NEW c \in Chunks
        PROVE  ChunkSettled(run, tree, session.root, c)
    BY <1>2, <1>3 DEF SettledInv
  <1>4. CASE Goto("finish") /\ tree' = tree
    <2>1. \A c \in Chunks : ChunkSettled(run', tree', session.root, c)
      BY <1>1, <1>2, <1>3, <1>4, SameRecordsSettle
    <2>2. run'.at = "finish"
      BY <1>2, <1>4 DEF Goto, RunType
    <2>3. QED
      BY <1>1, <2>1, <2>2 DEF InHand
  <1>5. CASE ~(Goto("finish") /\ tree' = tree)
    <2> DEFINE records == Expire(run.mem.chunks, [d \in Chunks |-> lapsed])
               R(c) == [records EXCEPT ![c] = LeasedRecord(issued + 1)]
               m(c) == NextManifest(run.mem, R(c), "running")
    <2>1. PICK c \in Chunks :
            /\ tree' = WriteManifest(tree, m(c), session.root, run.identity)
            /\ run' = [run EXCEPT !.at = "encode", !.mem = m(c), !.chunk = c,
                                  !.lease = issued + 1]
      BY <1>5, LeaseStep
    <2>2. PICK n \in Nat : n = issued + 1
      BY DEF Inv, WorldInv
    <2>3. /\ GoodChunks(records)
          /\ \A d \in Chunks : records[d] = run.mem.chunks[d] \/ records[d] = PendingRecord
      BY <1>2, GoodMemIsManifest, GoodExpire
    <2> HIDE DEF records
    <2>4. R(c)[c] = LeasedRecord(n) /\ \A d \in Chunks \ {c} : R(c)[d] = records[d]
      BY <2>2, <2>3 DEF GoodChunks
    <2>5. m(c).chunks = R(c)
      BY DEF NextManifest
    <2> HIDE DEF R
    <2>6. PICK w : w = m(c)
      OBVIOUS
    <2> HIDE DEF m
    <2>7. /\ tree' = WriteManifest(tree, w, session.root, run.identity)
          /\ run'.mem = w /\ run'.chunk = c /\ run'.lease = n /\ run'.at = "encode"
          /\ w.chunks[c] = LeasedRecord(n)
          /\ \A d \in Chunks \ {c} : w.chunks[d] = run.mem.chunks[d] \/ w.chunks[d] = PendingRecord
      BY <1>2, <2>1, <2>2, <2>3, <2>4, <2>5, <2>6 DEF RunType
    <2>8. GoodMem(w)
      BY <2>7 DEF Inv, RunInv, RunFits
    <2>9. ASSUME NEW d \in Chunks
          PROVE  ChunkSettled(run', tree', session.root, d)
      <3>1. CASE d = c
        <4>1. w.chunks[d].status = "leased" /\ w.chunks[d].lease = n
          BY <2>7, <3>1, BuiltFields
        <4>2. Below(tree, n)
          BY <2>2 DEF FreshInv
        <4>3. ~SideMatches(tree, session.root, run.identity, n, d)
          BY <1>2, <4>2, NoSideMatches
        <4>4. QED
          BY <1>2, <2>7, <2>8, <4>1, <4>3, WriterSettles
      <3>2. CASE d # c
        <4>1. w.chunks[d] = run.mem.chunks[d] \/ w.chunks[d].status = "pending"
          BY <2>7, <3>2, BuiltFields
        <4>2. run.at # "commit"
          BY <1>1
        <4>3. ChunkSettled(run, tree, session.root, d)
          BY <1>3
        <4>4. /\ run.mem.chunks[d].status = "complete" =>
                   SegmentMatches(Content(tree, Segment(d)), run.mem.chunks[d].completion)
              /\ run.mem.chunks[d].status = "leased" =>
                   ~SideMatches(tree, session.root, run.identity, run.mem.chunks[d].lease, d)
          BY <1>2, <4>2, <4>3, SettledRecord
        <4>5. /\ w.chunks[d].status = "complete" =>
                   SegmentMatches(Content(tree, Segment(d)), w.chunks[d].completion)
              /\ w.chunks[d].status = "leased" =>
                   ~SideMatches(tree, session.root, run.identity, w.chunks[d].lease, d)
          BY <4>1, <4>4
        <4>6. QED
          BY <1>2, <2>7, <2>8, <4>5, WriterSettles
      <3>3. QED
        BY <3>1, <3>2
    <2>10. QED
      BY <1>1, <2>7, <2>9 DEF InHand
  <1>6. QED
    BY <1>4, <1>5

\* commit: the completion is of the segment that is there.
LEMMA CommitSettles ==
  ASSUME Inv, SettledInv, Commit, Inv', NEW c \in Chunks
  PROVE  ChunkSettled(run', tree', session'.root, c)
  <1> DEFINE k == [sha |-> tree[Segment(run.chunk)], fits |-> TRUE]
             R == [run.mem.chunks EXCEPT ![run.chunk] = CompleteRecord(run.lease, k)]
             m == NextManifest(run.mem, R, StateAfterCommit(run.mem.state, R))
  <1>1. run.at = "commit" /\ session' = session /\ Persisted(m, "committed")
    BY DEF Commit, others, world
  <1>2. /\ run.at \notin Unread /\ run \in RunType /\ GoodMem(run.mem)
        /\ run.at \in PastRecovery /\ Entries(tree, swapped) /\ run.at # "idle"
    BY <1>1, PastIsRead, ReadKnows DEF PastRecovery
  <1>3. ChunkSettled(run, tree, session.root, c)
    BY <1>2 DEF SettledInv
  <1>4. Has(tree, Segment(run.chunk)) /\ run.chunk \in Chunks
    BY <1>1, <1>2, RunKnows, RunFields DEF RunFits
  <1>5. tree[Segment(run.chunk)] \in Payloads
    <2>1. Entry(Segment(run.chunk), tree[Segment(run.chunk)], swapped)
      BY <1>2, <1>4 DEF Entries, Has
    <2>2. QED
      BY <1>4, <2>1, Kinds, Contents DEF Entry
  <1>6. SegmentMatches(Content(tree, Segment(run.chunk)), k)
    BY <1>4, <1>5 DEF SegmentMatches, Exact, Completion, Content
  <1> HIDE DEF k
  <1>7. /\ R[run.chunk] = CompleteRecord(run.lease, k)
        /\ \A d \in Chunks \ {run.chunk} : R[d] = run.mem.chunks[d]
    BY <1>2, <1>4, GoodMemIsManifest DEF GoodChunks
  <1>8. m.chunks = R
    BY DEF NextManifest
  <1> HIDE DEF R
  <1>9. PICK w : w = m
    OBVIOUS
  <1> HIDE DEF m
  <1>10. /\ tree' = WriteManifest(tree, w, session.root, run.identity) /\ run'.mem = w
         /\ w.chunks[run.chunk] = CompleteRecord(run.lease, k)
         /\ \A d \in Chunks \ {run.chunk} : w.chunks[d] = run.mem.chunks[d]
    BY <1>1, <1>2, <1>7, <1>8, <1>9 DEF Persisted, RunType
  <1>11. GoodMem(w)
    BY <1>10 DEF Inv, RunInv, RunFits
  <1>12. /\ w.chunks[c].status = "complete" =>
              SegmentMatches(Content(tree, Segment(c)), w.chunks[c].completion)
         /\ w.chunks[c].status = "leased" =>
              ~SideMatches(tree, session.root, run.identity, w.chunks[c].lease, c)
    <2>1. CASE c = run.chunk
      BY <1>6, <1>10, <2>1, BuiltFields
    <2>2. CASE c # run.chunk
      <3>1. /\ run.mem.chunks[c].status = "complete" =>
                 SegmentMatches(Content(tree, Segment(c)), run.mem.chunks[c].completion)
            /\ run.mem.chunks[c].status = "leased" =>
                 ~SideMatches(tree, session.root, run.identity, run.mem.chunks[c].lease, c)
        BY <1>2, <1>3, <2>2, SettledRecord
      <3>2. w.chunks[c] = run.mem.chunks[c]
        BY <1>10, <2>2
      <3>3. QED
        BY <3>1, <3>2
    <2>3. QED
      BY <2>1, <2>2
  <1>13. ChunkSettled(run', tree', session.root, c)
    BY <1>2, <1>10, <1>11, <1>12, WriterSettles
  <1>14. QED
    BY <1>1, <1>13

\* Encoding, publishing and writing a sidecar do not touch the manifest.
LEMMA ManifestKept ==
  ASSUME Inv, RunStep, run.at \in {"encode", "publish", "sidecar"}
  PROVE  tree'[TheManifest] = tree[TheManifest] /\ Keeps(tree, tree', TheManifest)
  <1>1. run.at # "idle" /\ run.chunk \in Chunks /\ run.at \notin Unread
    <2>1. run.at # "idle" /\ run.at \notin Unread
      BY StepAtPoint, PastIsRead DEF PastRecovery
    <2>2. QED
      BY <2>1, RunKnows, RunFields
  <1>2. Has(tree, TheManifest)
    BY <1>1, ReadKnows
  <1>3. Keeps(tree, tree', TheManifest)
    <2>1. TheManifest # Segment(run.chunk) /\ TheManifest # SidecarOf(run.chunk)
          /\ TheManifest # Partial(run.chunk)
      BY <1>1, NamesDiffer
    <2>2. CASE run.at = "encode"
      <3>1. tree' = With(tree, Partial(run.chunk), video.content)
        BY <2>2, StepAtPoint DEF Encode
      <3>2. QED
        BY <2>1, <3>1, OthersKept
    <2>3. CASE run.at = "publish"
      <3>1. tree' = With(Without(tree, Partial(run.chunk)), Segment(run.chunk),
                         tree[Partial(run.chunk)])
        BY <2>3, StepAtPoint DEF Publish
      <3>2. PICK mid : mid = Without(tree, Partial(run.chunk))
        OBVIOUS
      <3>3. Keeps(tree, mid, TheManifest)
        BY <2>1, <3>2, OthersKept
      <3>4. Keeps(mid, tree', TheManifest)
        BY <2>1, <3>1, <3>2, OthersKept
      <3>5. QED
        BY <3>3, <3>4, KeptTwice
    <2>4. CASE run.at = "sidecar"
      <3>1. \E x : tree' = With(tree, SidecarOf(run.chunk), x)
        BY <2>4, StepAtPoint DEF WriteSidecar
      <3>2. QED
        BY <2>1, <3>1, OthersKept
    <2>5. QED
      BY <2>2, <2>3, <2>4
  <1>4. QED
    BY <1>2, <1>3 DEF Keeps, Has

\* encode, publish and complete: the segment that is replaced is of a chunk that
\* the command holds a lease on, which no sidecar names before its own.
LEMMA WorkSettles ==
  ASSUME Inv, FreshInv, SettledInv, RunStep, Inv', run.at \in {"encode", "publish", "sidecar"}
  PROVE  /\ \A c \in Chunks : ChunkSettled(run', tree', session'.root, c)
         /\ InHand(run')
  <1>1. run.at # "idle" /\ run.at \notin Unread /\ run.at \in PastRecovery /\ run.at # "commit"
    BY StepAtPoint, PastIsRead DEF PastRecovery
  <1>2. /\ run \in RunType /\ run.chunk \in Chunks /\ session' = session /\ swapped' = swapped
    BY <1>1, RunKnows, RunFields, RunLeavesOthers DEF others, world
  <1>3. /\ run'.mem = run.mem /\ run'.chunk = run.chunk /\ run'.lease = run.lease
        /\ run.at = "encode" => run'.at = "publish"
        /\ run.at = "publish" => run'.at = "sidecar"
        /\ run.at = "sidecar" => run'.at = "commit"
    BY <1>2, StepAtPoint DEF Encode, Publish, WriteSidecar, Goto, RunType
  <1>4. tree'[TheManifest] = tree[TheManifest]
    BY ManifestKept
  <1>5. run.mem.chunks[run.chunk] = LeasedRecord(run.lease)
    BY <1>1 DEF SettledInv, InHand
  <1>6. InHand(run')
    BY <1>3, <1>5 DEF InHand
  <1>7. ASSUME NEW c \in Chunks
        PROVE  ChunkSettled(run, tree, session.root, c)
    BY <1>1, <1>7 DEF SettledInv
  <1>8. ASSUME NEW c \in Chunks, Unhanded(run, c)
        PROVE  ChunkSettled(run', tree', session.root, c)
    <2>1. KeepsWork(tree, tree', c)
      BY <1>8, RunKeepsWork
    <2>2. QED
      BY <1>1, <1>3, <1>4, <1>7, <2>1, StaysSettled
  <1>9. ASSUME run.at \in {"publish", "sidecar"}
        PROVE  ChunkSettled(run', tree', session.root, run.chunk)
    <2>1. PICK c \in Chunks : c = run.chunk
      BY <1>2
    <2>2. PICK m : m = tree[TheManifest] /\ m = tree'[TheManifest]
      BY <1>4
    <2>3. PICK n \in Nat : n = run.lease
      BY <1>2, RunFields
    <2>4. run'.mem.chunks[c] = LeasedRecord(n) /\ run'.chunk = c
      BY <1>3, <1>5, <2>1, <2>3
    <2>5. LeasedRecord(n).status = "leased" /\ LeasedRecord(n).lease = n
      BY BuiltFields
    <2>6. m.body.chunks[c].lease = n /\ m.body.chunks[c].status = "leased"
      <3>1. m.body.chunks[c].lease = run.mem.chunks[c].lease
        BY <1>7, <2>2 DEF ChunkSettled
      <3>2. Mirrors(run.mem, m.body)
        BY <1>1, <2>2, ReadKnows
      <3>3. QED
        BY <1>5, <2>1, <2>3, <2>5, <3>1, <3>2 DEF Mirrors
    <2>7. CASE run.at = "publish"
      <3>1. Below(tree, n)
        BY <2>3, <2>7 DEF FreshInv
      <3>2. \A d \in Chunks : Keeps(tree, tree', SidecarOf(d))
        BY <2>7, RunKeepsWork DEF Unhanded, KeepsWork
      <3>3. Below(tree', n)
        BY <3>1, <3>2, BelowKept
      <3>4. Entries(tree', swapped')
        BY DEF Inv, TreeInv
      <3>5. ~SideMatches(tree', session.root, m.identity, n, c)
        BY <3>3, <3>4, NoSideMatches
      <3>6. ~Vouches(m, session.root, Content(tree', Segment(c)), SideIn(tree', c), c)
        BY <2>6, <3>5 DEF Vouches, SideMatches
      <3>7. QED
        BY <2>1, <2>2, <2>4, <2>5, <2>6, <3>6 DEF ChunkSettled
    <2>8. CASE run.at = "sidecar"
      <3>1. run'.at = "commit"
        BY <1>3, <2>8
      <3>2. QED
        BY <2>1, <2>2, <2>4, <2>5, <2>6, <3>1 DEF ChunkSettled
    <2>9. QED
      BY <1>9, <2>7, <2>8
  <1>10. ASSUME NEW c \in Chunks
         PROVE  ChunkSettled(run', tree', session.root, c)
    <2>1. CASE Unhanded(run, c)
      BY <1>8, <2>1
    <2>2. CASE ~Unhanded(run, c)
      BY <1>9, <2>2 DEF Unhanded
    <2>3. QED
      BY <2>1, <2>2
  <1>11. QED
    BY <1>2, <1>6, <1>10

\* Every step of a command.
LEMMA SettledRun ==
  ASSUME Inv, FreshInv, SettledInv, RunStep, Inv'
  PROVE  SettledInv'
  <1> DEFINE Settles == /\ \A c \in Chunks : ChunkSettled(run', tree', session'.root, c)
                        /\ InHand(run')
  <1>1. run.at # "idle" /\ session' = session
    BY StepAtPoint, RunLeavesOthers DEF others, world
  <1>2. CASE run.at \notin PastRecovery \union {"recover"}
    <2>1. run'.at \notin PastRecovery
      <3>1. PICK a : a = run.at
        OBVIOUS
      <3>2. StatSource \/ HashSource \/ WriteSelection \/ Probe \/ Construct \/ WriteRecords
        BY <1>2, <3>1 DEF RunStep, RecoverJob, Reopen, Lease, Encode, Publish, WriteSidecar, Commit,
           Committed, Finish, Concat, Qa, PastRecovery
      <3>3. run'.at \in {"idle", "hash", "selection", "probe", "construct", "timeline", "recover"}
        BY <1>1, <3>2, PointsReached
      <3>4. QED
        BY <3>3 DEF PastRecovery
    <2>2. QED
      BY <2>1 DEF SettledInv
  <1>3. CASE run.at = "recover"
    <2>1. CASE RecoverJob
      <3>1. \A c \in Chunks : ChunkSettled(run', tree', session'.root, c)
        BY <2>1, RecoverSettles
      <3>2. run'.at = "reopen"
        BY <1>1, <2>1, PointsReached
      <3>3. QED
        BY <3>1, <3>2 DEF SettledInv, InHand
    <2>2. CASE Qa
      <3>1. run'.at = "idle"
        BY <1>1, <2>2, PointsReached
      <3>2. QED
        BY <3>1, PastIsRead DEF SettledInv
    <2>3. QED
      BY <1>3, <2>1, <2>2, StepAtPoint
  <1>4. CASE run.at \in {"reopen", "committed"} \/ Finish
    <2>1. run.at \in PastRecovery \ {"commit"}
      BY <1>4 DEF PastRecovery, Finish
    <2>2. \A c \in Chunks : ChunkSettled(run, tree, session.root, c)
      BY <2>1 DEF SettledInv
    <2>3. Reopen \/ Committed \/ Finish
      BY <1>4, StepAtPoint
    <2>4. \/ \E s, next : Persisted(NextManifest(run.mem, run.mem.chunks, s), next)
          \/ tree' = tree /\ \E next : Goto(next)
          \/ run'.at = "idle"
      <3>1. Reopen \/ Committed =>
              \/ \E s, next : Persisted(NextManifest(run.mem, run.mem.chunks, s), next)
              \/ tree' = tree /\ \E next : Goto(next)
        BY DEF Reopen, Committed
      <3>2. Finish => (tree' = tree /\ \E next : Goto(next)) \/ run'.at = "idle"
        BY DEF Finish, Ended
      <3>3. QED
        BY <2>3, <3>1, <3>2
    <2>5. run'.at \in {"lease", "finish", "idle", "concat"}
      BY <1>1, <2>3, PointsReached
    <2>6. CASE run'.at = "idle"
      BY <2>6, PastIsRead DEF SettledInv
    <2>7. CASE run'.at # "idle"
      <3>1. \A c \in Chunks : ChunkSettled(run', tree', session.root, c)
        BY <1>1, <2>1, <2>2, <2>4, <2>7, SameRecordsSettle
      <3>2. QED
        BY <1>1, <2>5, <3>1 DEF SettledInv, InHand
    <2>8. QED
      BY <2>6, <2>7
  <1>5. CASE run.at = "lease"
    BY <1>5, LeaseSettles, StepAtPoint DEF SettledInv
  <1>6. CASE run.at \in {"encode", "publish", "sidecar"}
    BY <1>6, WorkSettles DEF SettledInv
  <1>7. CASE run.at = "commit"
    <2>1. Commit
      BY <1>7, StepAtPoint
    <2>2. run'.at = "committed"
      BY <1>1, <2>1, PointsReached
    <2>3. QED
      BY <2>1, <2>2, CommitSettles DEF SettledInv, InHand
  <1>8. CASE run.at = "concat"
    <2>1. run'.at = "idle"
      BY <1>1, <1>8, PointsReached, StepAtPoint
    <2>2. QED
      BY <2>1, PastIsRead DEF SettledInv
  <1>9. CASE run.at = "finish"
    BY <1>4, <1>9, StepAtPoint
  <1>10. QED
    BY <1>2, <1>3, <1>4, <1>5, <1>6, <1>7, <1>8, <1>9 DEF PastRecovery

-----------------------------------------------------------------------------
(***************************************************************************)
(* What an archive that is being made will hold.                           *)
(***************************************************************************)

\* The archiver has found the file, and reads it or has read it.
Listed(p, n) == n \in p.todo \union DOMAIN p.read

\* The manifest and the sidecar that the archive holds or will hold, if nothing
\* changes.
ManifestOf(p, files) == IF Has(p.read, TheManifest) THEN p.read[TheManifest] ELSE files[TheManifest]
SideOf(p, files, c) == IF Listed(p, SidecarOf(c)) THEN SideIn(files, c) ELSE NoSidecar

\* A chunk that was done when the archive was begun is done in the directory,
\* its manifest and its segment are or will be in the archive as they are in the
\* directory, and what the archive will hold is evidence for it.
Promised(p, r, files, root, c) ==
  /\ c \in Chunks /\ Has(files, TheManifest) /\ Has(files, Segment(c))
  /\ r.at \in PastRecovery => r.mem.chunks[c].status # "pending"
  /\ EvidentIn(files, root, c)
  /\ Listed(p, TheManifest)
  /\ p.at = "read" =>
       /\ Listed(p, Segment(c))
       /\ Has(p.read, Segment(c)) => p.read[Segment(c)] = files[Segment(c)]
       /\ Has(p.read, SidecarOf(c)) =>
            Has(files, SidecarOf(c)) /\ p.read[SidecarOf(c)] = files[SidecarOf(c)]
       /\ Evident(ManifestOf(p, files), root, Content(files, Segment(c)), SideOf(p, files, c), c)

\* What is promised while an archive is made.
KeptInv ==
  pack.at # "idle" =>
    /\ ~Preparing
    /\ pack.todo \intersect DOMAIN pack.read = {}
    /\ \A c \in pack.finished : Promised(pack, run, tree, session.root, c)

\* A step of a command past its preparation keeps the manifest in its place, and
\* one that ends the command leaves it as it is.
LEMMA ManifestStays ==
  ASSUME Inv, RunStep, run.at \in PastRecovery \union {"recover"}
  PROVE  /\ Has(tree, TheManifest) => Has(tree', TheManifest)
         /\ run'.at \in PastRecovery \/ (run'.at = "idle" /\ Keeps(tree, tree', TheManifest))
  <1>1. run.at # "idle" /\ run.at \notin Unread /\ run \in RunType
    <2>1. run.at # "idle" /\ run.at \notin Unread
      BY StepAtPoint, PastIsRead
    <2>2. QED
      BY <2>1, RunKnows
  <1>2. PICK a : a = run.at
    OBVIOUS
  <1>3. CASE run'.at \in PastRecovery
    <2>1. Has(tree', TheManifest)
      <3>1. CASE run.at \in {"encode", "publish", "sidecar"}
        BY <1>1, <3>1, ManifestKept, ReadKnows DEF Keeps, Has
      <3>2. CASE run.at \notin {"encode", "publish", "sidecar"}
        <4>1. ASSUME NEW m, tree' = WriteManifest(tree, m, session.root, run.identity)
              PROVE  Has(tree', TheManifest)
          BY <4>1 DEF WriteManifest, With, Has, TheManifest
        <4>2. ASSUME tree' = tree
              PROVE  Has(tree', TheManifest)
          BY <1>1, <4>2, ReadKnows
        <4>3. ASSUME NEW m, NEW next, Persisted(m, next)
              PROVE  Has(tree', TheManifest)
          BY <4>1, <4>3 DEF Persisted
        <4>4. RecoverJob => (\E m, next : Persisted(m, next)) \/ tree' = tree
          BY DEF RecoverJob
        <4>5. Reopen \/ Committed => (\E m, next : Persisted(m, next)) \/ tree' = tree
          BY DEF Reopen, Committed
        <4>6. Commit => \E m, next : Persisted(m, next)
          BY DEF Commit
        <4>7. Lease =>
                tree' = tree \/ \E m : tree' = WriteManifest(tree, m, session.root, run.identity)
          <5> SUFFICES ASSUME Lease
                       PROVE  tree' = tree
                              \/ \E m : tree' = WriteManifest(tree, m, session.root, run.identity)
            OBVIOUS
          <5> DEFINE records == Expire(run.mem.chunks, [c \in Chunks |-> lapsed])
                     m(c) == NextManifest(run.mem, [records EXCEPT ![c] = LeasedRecord(issued')],
                                          "running")
          <5>1. \/ tree' = tree
                \/ \E c \in Chunks : tree' = WriteManifest(tree, m(c), session.root, run.identity)
            BY DEF Lease
          <5> HIDE DEF m
          <5>2. QED
            BY <5>1
        <4>8. Finish \/ Qa => tree' = tree
          BY DEF Finish, Qa
        <4>9. ~Concat
          BY <1>1, <1>3, PointsReached, PastIsRead
        <4>10. RecoverJob \/ Reopen \/ Committed \/ Commit \/ Lease \/ Finish \/ Qa
          BY <1>2, <3>2, <4>9, StepAtPoint DEF PastRecovery
        <4>11. QED
          BY <4>1, <4>2, <4>3, <4>4, <4>5, <4>6, <4>7, <4>8, <4>10
      <3>3. QED
        BY <3>1, <3>2
    <2>2. QED
      BY <1>3, <2>1
  <1>4. CASE run'.at \notin PastRecovery
    <2>1. Finish \/ Concat \/ Qa
      <3>1. RecoverJob \/ Reopen \/ Lease \/ Encode \/ Publish \/ WriteSidecar \/ Commit
              \/ Committed \/ Finish \/ Concat \/ Qa
        BY <1>2, StepAtPoint DEF PastRecovery
      <3>2. QED
        BY <1>1, <1>4, <3>1, PointsReached DEF PastRecovery
    <2>2. run'.at = "idle"
      BY <1>1, <1>4, <2>1, PointsReached DEF PastRecovery
    <2>3. Finish \/ Qa => tree' = tree
      BY DEF Finish, Qa
    <2>4. Concat => \E x : tree' = With(tree, TheVideo, x)
      BY DEF Concat, TheVideo
    <2>5. TheManifest # TheVideo
      BY Kinds
    <2>6. Keeps(tree, tree', TheManifest)
      BY <2>1, <2>3, <2>4, <2>5, AllKept, OthersKept
    <2>7. QED
      BY <2>2, <2>6 DEF Keeps, Has
  <1>5. QED
    BY <1>3, <1>4

\* What a command past its recovery takes for done it goes on taking for done.
LEMMA StaysDone ==
  ASSUME Inv, RunStep, run.at \in PastRecovery, NEW c \in Chunks,
         run.mem.chunks[c].status = "complete" \/ (run.at = "commit" /\ c = run.chunk),
         run'.at \in PastRecovery
  PROVE  run'.mem.chunks[c].status = "complete"
  <1>1. run.at # "idle" /\ run.at \notin Unread /\ run \in RunType /\ run.chunk \in Chunks
        /\ GoodChunks(run.mem.chunks)
    <2>1. run.at # "idle" /\ run.at \notin Unread
      BY StepAtPoint, PastIsRead
    <2>2. QED
      BY <2>1, RunKnows, RunFields, GoodMemIsManifest
  <1>2. PICK a : a = run.at
    OBVIOUS
  <1>3. CASE run.at = "commit"
    <2> DEFINE k == [sha |-> tree[Segment(run.chunk)], fits |-> TRUE]
               R == [run.mem.chunks EXCEPT ![run.chunk] = CompleteRecord(run.lease, k)]
               m == NextManifest(run.mem, R, StateAfterCommit(run.mem.state, R))
    <2>1. Persisted(m, "committed")
      BY <1>3, StepAtPoint DEF Commit
    <2>2. m.chunks = R
      BY DEF NextManifest
    <2> HIDE DEF m, k
    <2>3. run'.mem.chunks = R
      BY <1>1, <2>1, <2>2 DEF Persisted, RunType
    <2>4. R[run.chunk] = CompleteRecord(run.lease, k)
          /\ \A d \in Chunks \ {run.chunk} : R[d] = run.mem.chunks[d]
      BY <1>1 DEF GoodChunks
    <2>5. CompleteRecord(run.lease, k).status = "complete"
      BY BuiltFields
    <2> HIDE DEF R
    <2>6. QED
      BY <2>3, <2>4, <2>5
  <1>4. CASE run.at = "lease"
    <2>1. Lease /\ run.mem.chunks[c].status = "complete"
      BY <1>4, StepAtPoint
    <2>2. CASE Goto("finish")
      BY <1>1, <2>1, <2>2 DEF Goto, RunType
    <2>3. CASE ~Goto("finish")
      <3> DEFINE records == Expire(run.mem.chunks, [d \in Chunks |-> lapsed])
                 R(d) == [records EXCEPT ![d] = LeasedRecord(issued + 1)]
                 m(d) == NextManifest(run.mem, R(d), "running")
      <3>1. PICK d \in Chunks :
              /\ run' = [run EXCEPT !.at = "encode", !.mem = m(d), !.chunk = d,
                                    !.lease = issued + 1]
              /\ records[d].status = "pending"
        BY <2>1, <2>3, LeaseStep
      <3>2. records[c] = run.mem.chunks[c]
        BY <2>1 DEF Expire
      <3>3. GoodChunks(records)
        BY <1>1, GoodExpire
      <3> HIDE DEF records
      <3>4. c # d
        BY <2>1, <3>1, <3>2
      <3>5. R(d)[c] = records[c]
        BY <3>3, <3>4 DEF GoodChunks
      <3>6. m(d).chunks = R(d)
        BY DEF NextManifest
      <3> HIDE DEF R, m
      <3>7. run'.mem = m(d)
        BY <1>1, <3>1 DEF RunType
      <3>8. QED
        BY <2>1, <3>2, <3>5, <3>6, <3>7
    <2>4. QED
      BY <2>2, <2>3
  <1>5. CASE run.at \in {"reopen", "committed", "finish"}
    <2>1. Reopen \/ Committed \/ Finish
      BY <1>5, StepAtPoint
    <2>2. \/ \E s, next : Persisted(NextManifest(run.mem, run.mem.chunks, s), next)
          \/ \E next : Goto(next)
          \/ run'.at = "idle"
      <3>1. Reopen \/ Committed =>
              \/ \E s, next : Persisted(NextManifest(run.mem, run.mem.chunks, s), next)
              \/ \E next : Goto(next)
        BY DEF Reopen, Committed
      <3>2. Finish => (\E next : Goto(next)) \/ run'.at = "idle"
        BY DEF Finish, Ended
      <3>3. QED
        BY <2>1, <3>1, <3>2
    <2>3. ASSUME NEW s, NEW next, Persisted(NextManifest(run.mem, run.mem.chunks, s), next)
          PROVE  run'.mem.chunks = run.mem.chunks
      BY <1>1, <2>3 DEF Persisted, NextManifest, RunType
    <2>4. ASSUME NEW next, Goto(next)
          PROVE  run'.mem = run.mem
      BY <1>1, <2>4 DEF Goto, RunType
    <2>5. run'.at # "idle"
      BY PastIsRead
    <2>6. QED
      BY <1>5, <2>2, <2>3, <2>4, <2>5
  <1>6. CASE run.at \in {"encode", "publish", "sidecar"}
    <2>1. run'.mem = run.mem
      BY <1>1, <1>6, StepAtPoint DEF Encode, Publish, WriteSidecar, Goto, RunType
    <2>2. QED
      BY <1>6, <2>1
  <1>7. CASE run.at = "concat"
    <2>1. run'.at = "idle"
      BY <1>1, <1>7, PointsReached, StepAtPoint
    <2>2. QED
      BY <2>1, PastIsRead
  <1>8. QED
    BY <1>2, <1>3, <1>4, <1>5, <1>6, <1>7 DEF PastRecovery

\* No step of a command touches the work of a chunk that is done: the segment it
\* replaces is of a chunk that it holds a lease on, for which there is no evidence
\* before it has written a sidecar.
LEMMA DoneIsUnhanded ==
  ASSUME Inv, SettledInv, RunStep, NEW c \in Chunks, EvidentIn(tree, session.root, c)
  PROVE  /\ Unhanded(run, c)
         /\ run.at \in PastRecovery /\ run.mem.chunks[c].status # "pending" =>
              run.mem.chunks[c].status = "complete" \/ (run.at = "commit" /\ c = run.chunk)
  <1>1. ASSUME run.at \in PastRecovery
        PROVE  run.mem.chunks[c].status = "leased" => run.at = "commit" /\ c = run.chunk
    <2>1. run.at \notin Unread
      BY <1>1, PastIsRead
    <2>2. PICK m : m = tree[TheManifest]
      OBVIOUS
    <2>3. ChunkSettled(run, tree, session.root, c)
      BY <1>1 DEF SettledInv
    <2>4. Mirrors(run.mem, m.body)
      BY <2>1, <2>2, ReadKnows
    <2>5. m.body.chunks[c].status = run.mem.chunks[c].status
      BY <2>4 DEF Mirrors
    <2>6. \/ m.body.chunks[c].status = "complete"
          \/ Vouches(m, session.root, Content(tree, Segment(c)), SideIn(tree, c), c)
      BY <2>2 DEF EvidentIn, Evident, Stands
    <2>7. QED
      BY <2>2, <2>3, <2>5, <2>6 DEF ChunkSettled
  <1>2. Unhanded(run, c)
    <2> SUFFICES ASSUME c = run.chunk, run.at \in {"publish", "sidecar"}
                 PROVE  FALSE
      BY DEF Unhanded
    <2>1. run.at \in PastRecovery /\ run.at # "commit"
      BY DEF PastRecovery
    <2>2. run.mem.chunks[c] = LeasedRecord(run.lease)
      BY <2>1 DEF SettledInv, InHand
    <2>3. run.mem.chunks[c].status = "leased"
      BY <2>2, BuiltFields
    <2>4. QED
      BY <1>1, <2>1, <2>3
  <1>3. ASSUME run.at \in PastRecovery
        PROVE  run.mem.chunks[c].status \in {"pending", "leased", "complete"}
    <2>1. GoodChunks(run.mem.chunks)
      BY <1>3, PastIsRead, ReadKnows, GoodMemIsManifest
    <2>2. QED
      BY <2>1 DEF GoodChunks, Record
  <1>4. QED
    BY <1>1, <1>2, <1>3

\* A step of a command keeps what is promised of an archive: what is done stays
\* done, and a manifest written meanwhile records it as complete.
LEMMA PromiseKept ==
  ASSUME Inv, SettledInv, RunStep, Inv', SettledInv', ~Preparing, NEW p, NEW c,
         Promised(p, run, tree, session.root, c)
  PROVE  Promised(p, run', tree', session.root, c)
  <1>1. run.at \in PastRecovery \union {"recover"} /\ run.at # "idle"
    <2>1. run.at # "idle"
      BY StepAtPoint
    <2>2. run.at \in RunPoints
      BY <2>1, RunKnows, RunFields
    <2>3. QED
      BY <2>1, <2>2 DEF Preparing, RunPoints, PastRecovery
  <1>2. c \in Chunks /\ Has(tree, TheManifest) /\ Has(tree, Segment(c))
        /\ EvidentIn(tree, session.root, c)
    BY DEF Promised
  <1>3. session' = session /\ run.at \notin Unread /\ Entries(tree, swapped)
    BY <1>1, PastIsRead, RunLeavesOthers, RunKnows DEF others, world
  <1>4. KeepsWork(tree, tree', c)
    BY <1>2, DoneIsUnhanded, RunKeepsWork
  <1>5. PICK content : content = Content(tree, Segment(c)) /\ content = Content(tree', Segment(c))
    BY <1>4, WorkKept
  <1>6. PICK s : s = SideIn(tree, c) /\ s = SideIn(tree', c)
    BY <1>4, WorkKept
  <1>7. PICK o : o = session.root
    OBVIOUS
  <1>8. ASSUME run'.at \in PastRecovery
        PROVE  run'.mem.chunks[c].status = "complete" /\ Stands(tree'[TheManifest], o, content, c)
    <2>1. run'.mem.chunks[c].status = "complete"
      <3>1. CASE run.at = "recover"
        <4> DEFINE mem == ReadManifest(tree, session.root, run.identity)
                   records == Recovered(tree, session.root, run.identity, lapsed)
                   m == NextManifest(mem, records, StateAfterRecover(mem.state, records))
        <4>1. ~Qa
          BY <1>1, <1>8, PointsReached, PastIsRead
        <4>2. RecoverJob
          BY <3>1, <4>1, StepAtPoint
        <4>3. \/ Persisted(m, "reopen")
              \/ run' = [run EXCEPT !.at = "reopen", !.mem = mem] /\ records = mem.chunks
          BY <4>2 DEF RecoverJob
        <4>4. m.chunks = records
          BY DEF NextManifest
        <4> HIDE DEF m, mem, records
        <4>5. run \in RunType
          BY <1>1, RunKnows
        <4>6. run'.mem.chunks = records
          <5>1. CASE Persisted(m, "reopen")
            BY <4>4, <4>5, <5>1 DEF Persisted, RunType
          <5>2. CASE run' = [run EXCEPT !.at = "reopen", !.mem = mem] /\ records = mem.chunks
            BY <4>5, <5>2 DEF RunType
          <5>3. QED
            BY <4>3, <5>1, <5>2
        <4>7. tree[TheManifest].identity = run.identity
          BY <1>3, ReadKnows
        <4>8. RightlyRecovered(tree, session.root, run.identity, lapsed, c)
          BY <1>2, <1>3, <4>7, RecoveredRecord
        <4>9. records[c].status = "complete"
          BY <1>2, <4>8 DEF RightlyRecovered, records
        <4>10. QED
          BY <4>6, <4>9
      <3>2. CASE run.at \in PastRecovery
        <4>1. run.mem.chunks[c].status # "pending"
          BY <3>2 DEF Promised
        <4>2. run.mem.chunks[c].status = "complete" \/ (run.at = "commit" /\ c = run.chunk)
          BY <1>2, <3>2, <4>1, DoneIsUnhanded
        <4>3. QED
          BY <1>2, <1>8, <3>2, <4>2, StaysDone
      <3>3. QED
        BY <1>1, <3>1, <3>2
    <2>2. ChunkSettled(run', tree', session'.root, c)
      BY <1>2, <1>8 DEF SettledInv
    <2>3. QED
      BY <1>3, <1>5, <1>7, <2>1, <2>2 DEF ChunkSettled
  <1>9. run'.at \in PastRecovery \/ tree'[TheManifest] = tree[TheManifest]
    BY <1>1, <1>2, ManifestStays DEF Keeps, Has
  <1>10. Has(tree', TheManifest)
    BY <1>1, <1>2, ManifestStays
  <1>11. /\ Has(tree', Segment(c)) /\ tree'[Segment(c)] = tree[Segment(c)]
         /\ Has(tree', SidecarOf(c)) <=> Has(tree, SidecarOf(c))
         /\ Has(tree, SidecarOf(c)) => tree'[SidecarOf(c)] = tree[SidecarOf(c)]
    BY <1>2, <1>4, WorkKept
  <1>12. EvidentIn(tree', session.root, c)
    <2>1. Evident(tree[TheManifest], o, content, s, c)
      BY <1>2, <1>5, <1>6, <1>7 DEF EvidentIn
    <2>2. Evident(tree'[TheManifest], o, content, s, c)
      BY <1>8, <1>9, <2>1 DEF Evident
    <2>3. QED
      BY <1>5, <1>6, <1>7, <2>2 DEF EvidentIn
  <1>13. ASSUME p.at = "read"
         PROVE  Evident(ManifestOf(p, tree'), session.root, Content(tree', Segment(c)),
                        SideOf(p, tree', c), c)
    <2>1. PICK t : t = SideOf(p, tree, c) /\ t = SideOf(p, tree', c)
      BY <1>6 DEF SideOf
    <2>2. Evident(ManifestOf(p, tree), o, content, t, c)
      BY <1>5, <1>7, <1>13, <2>1 DEF Promised
    <2>3. \/ ManifestOf(p, tree') = ManifestOf(p, tree)
          \/ Stands(ManifestOf(p, tree'), o, content, c)
      BY <1>8, <1>9 DEF ManifestOf
    <2>4. Evident(ManifestOf(p, tree'), o, content, t, c)
      BY <2>2, <2>3 DEF Evident
    <2>5. QED
      BY <1>5, <1>7, <2>1, <2>4
  <1>14. run'.at \in PastRecovery => run'.mem.chunks[c].status # "pending"
    BY <1>8
  <1>15. p.at = "read" =>
           /\ Listed(p, Segment(c))
           /\ Has(p.read, Segment(c)) => p.read[Segment(c)] = tree'[Segment(c)]
           /\ Has(p.read, SidecarOf(c)) =>
                Has(tree', SidecarOf(c)) /\ p.read[SidecarOf(c)] = tree'[SidecarOf(c)]
    BY <1>11 DEF Promised
  <1>16. Listed(p, TheManifest)
    BY DEF Promised
  <1>17. QED
    BY <1>2, <1>10, <1>11, <1>12, <1>13, <1>14, <1>15, <1>16 DEF Promised

\* Every step of a command keeps what is promised.
LEMMA KeptRun ==
  ASSUME Inv, SettledInv, KeptInv, RunStep, Inv', SettledInv'
  PROVE  KeptInv'
  <1> SUFFICES ASSUME pack'.at # "idle"
               PROVE  /\ ~Preparing'
                      /\ pack'.todo \intersect DOMAIN pack'.read = {}
                      /\ \A c \in pack'.finished : Promised(pack', run', tree', session'.root, c)
    BY DEF KeptInv
  <1>1. pack' = pack /\ session' = session /\ run.at # "idle"
    BY StepAtPoint, RunLeavesOthers DEF others, world
  <1>2. ~Preparing /\ pack.todo \intersect DOMAIN pack.read = {}
    BY <1>1 DEF KeptInv
  <1>3. run.at \in PastRecovery \union {"recover"}
    <2>1. run.at \in RunPoints
      BY <1>1, RunKnows, RunFields
    <2>2. QED
      BY <1>1, <1>2, <2>1 DEF Preparing, RunPoints, PastRecovery
  <1>4. ~Preparing'
    <2>1. run'.at \in PastRecovery \union {"idle"}
      BY <1>3, ManifestStays
    <2>2. QED
      BY <2>1 DEF Preparing, PastRecovery
  <1>5. ASSUME NEW c \in pack.finished
        PROVE  Promised(pack', run', tree', session'.root, c)
    <2>1. PICK p : p = pack
      OBVIOUS
    <2>2. Promised(p, run, tree, session.root, c)
      BY <1>1, <2>1 DEF KeptInv
    <2>3. Promised(p, run', tree', session.root, c)
      BY <1>2, <2>2, PromiseKept
    <2>4. QED
      BY <1>1, <2>1, <2>3
  <1>6. QED
    BY <1>1, <1>2, <1>4, <1>5

\* The strengthening that makes ArchiveKeepsFinishedWork inductive.
WorkInv == FreshInv /\ SettledInv /\ KeptInv /\ ArchiveKeepsFinishedWork

\* A step of a command makes no archive.
LEMMA RunKeepsPromises == Inv /\ WorkInv /\ RunStep /\ Inv' => WorkInv'
  <1> SUFFICES ASSUME Inv, WorkInv, RunStep, Inv'
               PROVE  WorkInv'
    OBVIOUS
  <1>1. FreshInv'
    BY FreshRun DEF WorkInv
  <1>2. SettledInv'
    BY SettledRun DEF WorkInv
  <1>3. KeptInv'
    BY <1>2, KeptRun DEF WorkInv
  <1>4. archive' = archive
    BY RunLeavesOthers DEF others
  <1>5. ArchiveKeepsFinishedWork'
    BY <1>4 DEF WorkInv, ArchiveKeepsFinishedWork
  <1>6. QED
    BY <1>1, <1>2, <1>3, <1>5 DEF WorkInv

\* A command that is not past its recovery has settled nothing yet.
LEMMA NotYetSettled == run.at \notin PastRecovery => SettledInv
  BY DEF SettledInv

\* Steps that move no file and no process.
LEMMA NothingMoves ==
  WorkInv /\ UNCHANGED <<session, tree, archive, run, pack, unpack, issued>> => WorkInv'
  BY DEF WorkInv, FreshInv, SettledInv, KeptInv, ArchiveKeepsFinishedWork, Preparing

\* No command is started while an archive is made.
LEMMA StartKeepsPromises == Inv /\ WorkInv /\ StartRun => WorkInv'
  <1> SUFFICES ASSUME Inv, WorkInv, StartRun
               PROVE  WorkInv'
    OBVIOUS
  <1>1. /\ pack.at = "idle" /\ run' = [Ended("none") EXCEPT !.at = "stat"]
        /\ UNCHANGED <<session, tree, archive, pack, unpack, issued>>
    BY DEF StartRun, others, world
  <1>2. run'.at = "stat"
    BY <1>1 DEF Ended
  <1>3. "stat" \notin PastRecovery
    BY DEF PastRecovery
  <1>4. FreshInv' /\ SettledInv' /\ KeptInv' /\ ArchiveKeepsFinishedWork'
    BY <1>1, <1>2, <1>3
       DEF WorkInv, FreshInv, SettledInv, KeptInv, ArchiveKeepsFinishedWork
  <1>5. QED
    BY <1>4 DEF WorkInv

\* An archive is begun: what is done has evidence.
LEMMA BeginPromises == Inv /\ WorkInv /\ BeginPack => WorkInv'
  <1> SUFFICES ASSUME Inv, WorkInv, BeginPack
               PROVE  WorkInv'
    OBVIOUS
  <1>1. /\ UNCHANGED <<session, tree, archive, run, unpack, issued>> /\ ~Preparing
        /\ pack'.at = "list" /\ pack'.todo = Present(Artifacts) /\ pack'.read = Empty
        /\ pack'.finished = DoneSoFar
    BY DEF BeginPack, world
  <1>2. FreshInv'
    <2>1. Below(Empty, issued + 1)
      BY BelowNothing
    <2>2. QED
      BY <1>1, <2>1 DEF WorkInv, FreshInv
  <1>3. SettledInv' /\ ArchiveKeepsFinishedWork'
    BY <1>1 DEF WorkInv, SettledInv, ArchiveKeepsFinishedWork
  <1>4. ASSUME NEW c \in DoneSoFar
        PROVE  Promised(pack', run, tree, session.root, c)
    <2>1. c \in Finished(tree, session.root)
          /\ (run.at \in PastRecovery => run.mem.chunks[c].status # "pending")
      BY DEF DoneSoFar
    <2>2. Entries(tree, swapped)
      BY DEF Inv, TreeInv
    <2>3. c \in Chunks /\ Has(tree, TheManifest) /\ EvidentIn(tree, session.root, c)
      BY <2>1, <2>2, FinishedIsEvident
    <2>4. Has(tree, Segment(c))
      BY <2>3, EvidenceIsFile DEF EvidentIn
    <2>5. TheManifest \in Present(Artifacts)
      BY <2>3 DEF Present, Artifacts, TheManifest, Has
    <2>6. QED
      BY <1>1, <2>1, <2>3, <2>4, <2>5 DEF Promised, Listed
  <1>5. KeptInv'
    <2>1. ~Preparing'
      BY <1>1 DEF Preparing
    <2>2. pack'.todo \intersect DOMAIN pack'.read = {}
      BY <1>1, NoFiles
    <2>3. QED
      BY <1>1, <1>4, <2>1, <2>2 DEF KeptInv
  <1>6. QED
    BY <1>2, <1>3, <1>5 DEF WorkInv

\* A pack that is given up promises nothing.
LEMMA NoPromise ==
  ASSUME WorkInv, UNCHANGED <<session, tree, archive, run, unpack, issued>>, pack' = NoPack
  PROVE  WorkInv'
  BY DEF WorkInv, FreshInv, SettledInv, KeptInv, ArchiveKeepsFinishedWork, NoPack

\* segments/ is listed: with every sidecar that is there.
LEMMA ListPromises == Inv /\ WorkInv /\ ListSegments => WorkInv'
  <1> SUFFICES ASSUME Inv, WorkInv, ListSegments
               PROVE  WorkInv'
    OBVIOUS
  <1> DEFINE names == pack.todo \union Present(SegmentFiles)
  <1>1. /\ UNCHANGED <<session, tree, archive, run, unpack, issued>> /\ pack.at = "list"
        /\ pack' = IF names = {} THEN NoPack ELSE [pack EXCEPT !.at = "read", !.todo = names]
    BY DEF ListSegments, world
  <1>2. CASE names = {}
    BY <1>1, <1>2, NoPromise
  <1>3. CASE names # {}
    <2>1. pack.read = Empty /\ IsPack(pack)
      BY <1>1 DEF Inv, PackInv
    <2>2. /\ pack'.at = "read" /\ pack'.todo = names /\ pack'.read = Empty
          /\ pack'.finished = pack.finished
      BY <1>1, <1>3, <2>1 DEF IsPack
    <2> HIDE DEF names
    <2>3. FreshInv' /\ SettledInv' /\ ArchiveKeepsFinishedWork'
      BY <1>1, <2>1, <2>2 DEF WorkInv, FreshInv, SettledInv, ArchiveKeepsFinishedWork
    <2>4. ASSUME NEW c \in pack.finished
          PROVE  Promised(pack', run, tree, session.root, c)
      <3>1. PICK p : p = pack
        OBVIOUS
      <3>2. PICK q : q = pack'
        OBVIOUS
      <3>3. Promised(p, run, tree, session.root, c)
        BY <1>1, <3>1 DEF WorkInv, KeptInv
      <3>4. /\ c \in Chunks /\ Has(tree, TheManifest) /\ Has(tree, Segment(c))
            /\ run.at \in PastRecovery => run.mem.chunks[c].status # "pending"
            /\ EvidentIn(tree, session.root, c)
            /\ Listed(p, TheManifest)
        BY <3>3 DEF Promised
      <3>5. q.at = "read" /\ q.todo = p.todo \union Present(SegmentFiles) /\ q.read = Empty
            /\ p.read = Empty
        BY <2>1, <2>2, <3>1, <3>2 DEF names
      <3>6. ASSUME NEW n \in {Segment(c), SidecarOf(c)}, Has(tree, n)
            PROVE  Listed(q, n)
        BY <3>4, <3>5, <3>6 DEF Listed, Present, SegmentFiles, Has, Segment, SidecarOf
      <3>7. Listed(q, TheManifest)
        BY <3>4, <3>5 DEF Listed
      <3>8. SideOf(q, tree, c) = SideIn(tree, c)
        BY <3>6 DEF SideOf, SideIn
      <3>9. ~Has(q.read, Segment(c)) /\ ~Has(q.read, SidecarOf(c)) /\ ~Has(q.read, TheManifest)
        BY <3>5, NoFiles DEF Has
      <3>10. Evident(ManifestOf(q, tree), session.root, Content(tree, Segment(c)),
                     SideOf(q, tree, c), c)
        BY <3>4, <3>8, <3>9 DEF ManifestOf, EvidentIn
      <3>11. Promised(q, run, tree, session.root, c)
        BY <3>4, <3>6, <3>7, <3>9, <3>10 DEF Promised
      <3>12. QED
        BY <3>2, <3>11
    <2>5. KeptInv'
      <3>1. ~Preparing'
        BY <1>1 DEF Preparing, WorkInv, KeptInv
      <3>2. pack'.todo \intersect DOMAIN pack'.read = {}
        BY <2>2, NoFiles
      <3>3. QED
        BY <1>1, <2>2, <2>4, <3>1, <3>2 DEF KeptInv
    <2>6. QED
      BY <2>3, <2>5 DEF WorkInv
  <1>4. QED
    BY <1>2, <1>3

\* A file is read as it is in the directory, whatever was read before it.
LEMMA MemberPromises == Inv /\ WorkInv /\ ReadMember => WorkInv'
  <1> SUFFICES ASSUME Inv, WorkInv, ReadMember
               PROVE  WorkInv'
    OBVIOUS
  <1>1. PICK name : name = FirstOf(pack.todo)
    OBVIOUS
  <1>2. /\ UNCHANGED <<session, tree, archive, run, unpack, issued>>
        /\ pack.at = "read" /\ pack.todo # {}
        /\ pack' = IF Has(tree, name)
                     THEN [pack EXCEPT !.todo = @ \ {name}, !.read = With(@, name, tree[name])]
                     ELSE NoPack
    BY <1>1 DEF ReadMember, world
  <1>3. CASE ~Has(tree, name)
    BY <1>2, <1>3, NoPromise
  <1>4. CASE Has(tree, name)
    <2>1. /\ IsPack(pack) /\ pack.todo \subseteq Names /\ Entries(tree, swapped)
          /\ Entries(pack.read, swapped)
      BY <1>2 DEF Inv, PackInv, TreeInv
    <2>2. name \in pack.todo
      BY <1>1, <1>2, <2>1, FirstIsChosen
    <2>3. /\ pack'.at = "read" /\ pack'.todo = pack.todo \ {name}
          /\ pack'.read = With(pack.read, name, tree[name]) /\ pack'.finished = pack.finished
      BY <1>2, <1>4, <2>1 DEF IsPack
    <2>4. FreshInv'
      <3>1. Below(pack.read, issued + 1) /\ Below(tree, issued + 1)
        BY <1>2 DEF WorkInv, FreshInv
      <3>2. \A c \in Chunks : name = SidecarOf(c) => tree[name].lease < issued + 1
        BY <1>4, <3>1 DEF Below
      <3>3. Below(pack'.read, issued + 1)
        BY <2>3, <3>1, <3>2, BelowWith
      <3>4. QED
        BY <1>2, <3>3 DEF WorkInv, FreshInv
    <2>5. SettledInv' /\ ArchiveKeepsFinishedWork'
      BY <1>2 DEF WorkInv, SettledInv, ArchiveKeepsFinishedWork
    <2>6. pack.todo \intersect DOMAIN pack.read = {}
      BY <1>2 DEF WorkInv, KeptInv
    <2>7. ASSUME NEW c \in pack.finished
          PROVE  Promised(pack', run, tree, session.root, c)
      <3>1. PICK p : p = pack
        OBVIOUS
      <3>2. PICK q : q = pack'
        OBVIOUS
      <3>3. PICK x : x = tree[name]
        OBVIOUS
      <3>4. Promised(p, run, tree, session.root, c) /\ p.at = "read" /\ q.at = "read"
        BY <1>2, <2>3, <3>1, <3>2 DEF WorkInv, KeptInv
      <3>5. /\ c \in Chunks /\ Has(tree, TheManifest) /\ Has(tree, Segment(c))
            /\ run.at \in PastRecovery => run.mem.chunks[c].status # "pending"
            /\ EvidentIn(tree, session.root, c)
            /\ Listed(p, TheManifest) /\ Listed(p, Segment(c))
            /\ Has(p.read, Segment(c)) => p.read[Segment(c)] = tree[Segment(c)]
            /\ Has(p.read, SidecarOf(c)) =>
                 Has(tree, SidecarOf(c)) /\ p.read[SidecarOf(c)] = tree[SidecarOf(c)]
            /\ Evident(ManifestOf(p, tree), session.root, Content(tree, Segment(c)),
                       SideOf(p, tree, c), c)
        BY <3>4 DEF Promised
      <3>6. /\ q.todo = p.todo \ {name} /\ q.read = With(p.read, name, x)
            /\ name \in p.todo /\ name \notin DOMAIN p.read
        BY <2>2, <2>3, <2>6, <3>1, <3>2, <3>3
      <3>7. /\ DOMAIN q.read = DOMAIN p.read \union {name} /\ q.read[name] = x
            /\ \A n \in DOMAIN p.read : q.read[n] = p.read[n]
        BY <3>6 DEF With
      <3>8. \A n : Listed(q, n) <=> Listed(p, n)
        BY <3>6, <3>7 DEF Listed
      <3>9. \A n : Has(q.read, n) <=> Has(p.read, n) \/ n = name
        BY <3>7 DEF Has
      <3>10. Has(q.read, Segment(c)) => q.read[Segment(c)] = tree[Segment(c)]
        BY <3>3, <3>5, <3>7, <3>9 DEF Has
      <3>11. Has(q.read, SidecarOf(c)) =>
               Has(tree, SidecarOf(c)) /\ q.read[SidecarOf(c)] = tree[SidecarOf(c)]
        BY <1>4, <3>3, <3>5, <3>7, <3>9 DEF Has
      <3>12. ManifestOf(q, tree) = ManifestOf(p, tree)
        BY <3>3, <3>6, <3>7, <3>9 DEF ManifestOf, Has
      <3>13. SideOf(q, tree, c) = SideOf(p, tree, c)
        BY <3>8 DEF SideOf
      <3>14. Promised(q, run, tree, session.root, c)
        BY <3>5, <3>8, <3>10, <3>11, <3>12, <3>13 DEF Promised
      <3>15. QED
        BY <3>2, <3>14
    <2>8. KeptInv'
      <3>1. ~Preparing'
        BY <1>2 DEF Preparing, WorkInv, KeptInv
      <3>2. pack'.todo \intersect DOMAIN pack'.read = {}
        BY <2>3, <2>6 DEF With
      <3>3. QED
        BY <1>2, <2>3, <2>7, <3>1, <3>2 DEF KeptInv
    <2>9. QED
      BY <2>4, <2>5, <2>8 DEF WorkInv
  <1>5. QED
    BY <1>3, <1>4

\* The archive holds what was promised.
LEMMA PublishPromises == Inv /\ WorkInv /\ PublishArchive => WorkInv'
  <1> SUFFICES ASSUME Inv, WorkInv, PublishArchive
               PROVE  WorkInv'
    OBVIOUS
  <1>1. /\ UNCHANGED <<session, tree, run, unpack, issued>>
        /\ pack.at = "read" /\ pack.todo = {}
        /\ archive' = [files |-> pack.read, finished |-> pack.finished,
                       root |-> session.root, stray |-> pack.stray]
        /\ pack' = NoPack
    BY DEF PublishArchive, world
  <1>2. FreshInv'
    BY <1>1 DEF WorkInv, FreshInv, NoPack
  <1>3. SettledInv' /\ KeptInv'
    BY <1>1 DEF WorkInv, SettledInv, KeptInv, NoPack
  <1>4. ASSUME NEW c \in pack.finished
        PROVE  c \in Finished(pack.read, session.root)
    <2>1. PICK p : p = pack
      OBVIOUS
    <2>2. PICK f : f = p.read
      OBVIOUS
    <2>3. Promised(p, run, tree, session.root, c) /\ p.at = "read" /\ p.todo = {}
      BY <1>1, <2>1 DEF WorkInv, KeptInv
    <2>4. \A n : Listed(p, n) <=> Has(f, n)
      BY <2>2, <2>3 DEF Listed, Has
    <2>5. /\ c \in Chunks /\ Has(tree, Segment(c)) /\ Has(f, TheManifest) /\ Has(f, Segment(c))
          /\ f[Segment(c)] = tree[Segment(c)]
          /\ Has(f, SidecarOf(c)) =>
               Has(tree, SidecarOf(c)) /\ f[SidecarOf(c)] = tree[SidecarOf(c)]
          /\ Evident(ManifestOf(p, tree), session.root, Content(tree, Segment(c)),
                     SideOf(p, tree, c), c)
      BY <2>2, <2>3, <2>4 DEF Promised
    <2>6. Content(f, Segment(c)) = Content(tree, Segment(c))
      BY <2>5 DEF Content
    <2>7. SideIn(f, c) = SideOf(p, tree, c)
      BY <2>4, <2>5 DEF SideIn, SideOf
    <2>8. ManifestOf(p, tree) = f[TheManifest]
      BY <2>2, <2>5 DEF ManifestOf
    <2>9. EvidentIn(f, session.root, c)
      BY <2>5, <2>6, <2>7, <2>8 DEF EvidentIn
    <2>10. Entries(f, swapped)
      BY <1>1, <2>1, <2>2 DEF Inv, PackInv
    <2>11. c \in Finished(f, session.root)
      BY <2>5, <2>9, <2>10, FinishedIsEvident
    <2>12. QED
      BY <2>1, <2>2, <2>11
  <1>5. ArchiveKeepsFinishedWork'
    <2>1. /\ archive'.finished = pack.finished /\ archive'.files = pack.read
          /\ archive'.root = session.root
      BY <1>1
    <2>2. archive'.finished \subseteq Finished(archive'.files, archive'.root)
      BY <1>4, <2>1
    <2>3. QED
      BY <2>2 DEF ArchiveKeepsFinishedWork
  <1>6. QED
    BY <1>2, <1>3, <1>5 DEF WorkInv

\* An archive is restored where nothing is.
LEMMA BeginUnpackPromises == Inv /\ WorkInv /\ BeginUnpack => WorkInv'
  <1> SUFFICES ASSUME Inv, WorkInv, BeginUnpack
               PROVE  WorkInv'
    OBVIOUS
  <1>1. /\ UNCHANGED <<session, tree, archive, run, pack, issued>> /\ ~laidOut
        /\ unpack'.files = archive.files /\ archive # NoArchive
    BY DEF BeginUnpack
  <1>2. FreshInv'
    BY <1>1 DEF WorkInv, FreshInv
  <1>3. SettledInv' /\ ArchiveKeepsFinishedWork'
    BY <1>1 DEF WorkInv, SettledInv, ArchiveKeepsFinishedWork
  <1>4. KeptInv'
    BY <1>1 DEF WorkInv, KeptInv, Preparing
  <1>5. QED
    BY <1>2, <1>3, <1>4 DEF WorkInv

\* A file is added to the directory: there is at least as much evidence as before.
LEMMA PromiseWithMore ==
  ASSUME NEW p, NEW r, NEW old, NEW new, NEW root, NEW c, Promised(p, r, old, root, c),
         \A n \in DOMAIN old : n \in DOMAIN new /\ new[n] = old[n]
  PROVE  Promised(p, r, new, root, c)
  <1>1. /\ c \in Chunks /\ Has(old, TheManifest) /\ Has(old, Segment(c))
        /\ r.at \in PastRecovery => r.mem.chunks[c].status # "pending"
        /\ EvidentIn(old, root, c)
        /\ Listed(p, TheManifest)
    BY DEF Promised
  <1>2. \A n : Has(old, n) => Has(new, n) /\ new[n] = old[n]
    BY DEF Has
  <1>3. Content(new, Segment(c)) = Content(old, Segment(c))
    BY <1>1, <1>2 DEF Content
  <1>4. SideIn(new, c) = SideIn(old, c) \/ SideIn(old, c) = NoSidecar
    BY <1>2 DEF SideIn
  <1>5. PICK m : m = old[TheManifest] /\ m = new[TheManifest]
    BY <1>1, <1>2
  <1>6. PICK content : content = Content(old, Segment(c)) /\ content = Content(new, Segment(c))
    BY <1>3
  <1>7. ASSUME NEW w, NEW s, NEW t, Evident(w, root, content, s, c), t = s \/ s = NoSidecar
        PROVE  Evident(w, root, content, t, c)
    BY <1>7, NoSidecarVouches DEF Evident
  <1>8. EvidentIn(new, root, c)
    <2>1. Evident(m, root, content, SideIn(old, c), c)
      BY <1>1, <1>5, <1>6 DEF EvidentIn
    <2>2. Evident(m, root, content, SideIn(new, c), c)
      BY <1>4, <1>7, <2>1
    <2>3. QED
      BY <1>5, <1>6, <2>2 DEF EvidentIn
  <1>9. ASSUME p.at = "read"
        PROVE  /\ Listed(p, Segment(c))
               /\ Has(p.read, Segment(c)) => p.read[Segment(c)] = new[Segment(c)]
               /\ Has(p.read, SidecarOf(c)) =>
                    Has(new, SidecarOf(c)) /\ p.read[SidecarOf(c)] = new[SidecarOf(c)]
               /\ Evident(ManifestOf(p, new), root, Content(new, Segment(c)),
                          SideOf(p, new, c), c)
    <2>1. /\ Listed(p, Segment(c))
          /\ Has(p.read, Segment(c)) => p.read[Segment(c)] = old[Segment(c)]
          /\ Has(p.read, SidecarOf(c)) =>
               Has(old, SidecarOf(c)) /\ p.read[SidecarOf(c)] = old[SidecarOf(c)]
          /\ Evident(ManifestOf(p, old), root, content, SideOf(p, old, c), c)
      BY <1>6, <1>9 DEF Promised
    <2>2. ManifestOf(p, new) = ManifestOf(p, old)
      BY <1>5 DEF ManifestOf
    <2>3. SideOf(p, new, c) = SideOf(p, old, c) \/ SideOf(p, old, c) = NoSidecar
      BY <1>4 DEF SideOf
    <2>4. Evident(ManifestOf(p, new), root, content, SideOf(p, new, c), c)
      BY <1>7, <2>1, <2>2, <2>3
    <2>5. QED
      BY <1>1, <1>2, <1>6, <2>1, <2>4
  <1>10. Has(new, TheManifest) /\ Has(new, Segment(c))
    BY <1>1, <1>2
  <1>11. QED
    BY <1>1, <1>8, <1>9, <1>10 DEF Promised

\* A member is restored: what an archiver promised meanwhile stays true.
LEMMA WriteMemberPromises == Inv /\ WorkInv /\ WriteMember => WorkInv'
  <1> SUFFICES ASSUME Inv, WorkInv, WriteMember
               PROVE  WorkInv'
    OBVIOUS
  <1>1. PICK name : name = FirstOf(unpack.todo)
    OBVIOUS
  <1>2. /\ unpack.at = "write" /\ tree' = With(tree, name, unpack.files[name])
        /\ unpack' = IF unpack.todo = {name} THEN NoUnpack ELSE [unpack EXCEPT !.todo = @ \ {name}]
        /\ UNCHANGED <<session, archive, run, pack, issued>>
    BY <1>1 DEF WriteMember, world
  <1>3. /\ unpack.todo # {} /\ unpack.todo \subseteq DOMAIN unpack.files
        /\ Entries(unpack.files, swapped)
        /\ DOMAIN unpack.files = DOMAIN tree \union unpack.todo
        /\ \A n \in DOMAIN tree : tree[n] = unpack.files[n]
        /\ IsUnpack(unpack) /\ run.at = "idle"
    BY <1>2 DEF Inv, UnpackInv, RunInv
  <1>4. name \in unpack.todo
    <2>1. unpack.todo \subseteq Names
      BY <1>3 DEF Entries, Entry
    <2>2. QED
      BY <1>1, <1>3, <2>1, FirstIsChosen
  <1>5. /\ DOMAIN tree' = DOMAIN tree \union {name}
        /\ \A n \in DOMAIN tree : n \in DOMAIN tree' /\ tree'[n] = tree[n]
        /\ tree'[name] = unpack.files[name]
    BY <1>2, <1>3, <1>4 DEF With
  <1>6. FreshInv'
    <2>1. Below(tree, issued + 1) /\ Below(unpack.files, issued + 1)
      BY <1>2 DEF WorkInv, FreshInv
    <2>2. \A c \in Chunks : name = SidecarOf(c) => unpack.files[name].lease < issued + 1
      BY <1>3, <1>4, <2>1 DEF Below, Has
    <2>3. Below(tree', issued + 1)
      BY <1>2, <2>1, <2>2, BelowWith
    <2>4. unpack'.at = "idle" \/ unpack'.files = unpack.files
      BY <1>2, <1>3 DEF NoUnpack, IsUnpack
    <2>5. QED
      BY <1>2, <1>3, <2>1, <2>3, <2>4 DEF WorkInv, FreshInv
  <1>7. SettledInv'
    BY <1>2, <1>3, PastIsRead DEF SettledInv
  <1>8. ArchiveKeepsFinishedWork'
    BY <1>2 DEF WorkInv, ArchiveKeepsFinishedWork
  <1>9. KeptInv'
    <2> SUFFICES ASSUME pack.at # "idle"
                 PROVE  /\ ~Preparing'
                        /\ pack.todo \intersect DOMAIN pack.read = {}
                        /\ \A c \in pack.finished : Promised(pack, run, tree', session.root, c)
      BY <1>2 DEF KeptInv
    <2>1. ~Preparing' /\ pack.todo \intersect DOMAIN pack.read = {}
      BY <1>2 DEF Preparing, WorkInv, KeptInv
    <2>2. ASSUME NEW c \in pack.finished
          PROVE  Promised(pack, run, tree', session.root, c)
      <3>1. Promised(pack, run, tree, session.root, c)
        BY DEF WorkInv, KeptInv
      <3>2. QED
        BY <1>5, <3>1, PromiseWithMore
    <2>3. QED
      BY <2>1, <2>2
  <1>10. QED
    BY <1>6, <1>7, <1>8, <1>9 DEF WorkInv

\* A session ends: the archive stays.
LEMMA EndKeepsPromises == Inv /\ WorkInv /\ EndSession => WorkInv'
  <1> SUFFICES ASSUME Inv, WorkInv, EndSession
               PROVE  WorkInv'
    OBVIOUS
  <1>1. /\ tree' = Empty /\ run' = Ended("none") /\ pack' = NoPack /\ unpack' = NoUnpack
        /\ UNCHANGED <<archive, issued>>
    BY DEF EndSession
  <1>2. run'.at = "idle" /\ pack'.at = "idle" /\ unpack'.at = "idle"
    BY <1>1 DEF Ended, NoPack, NoUnpack
  <1>3. Below(tree', issued + 1)
    BY <1>1, BelowNothing
  <1>4. FreshInv'
    BY <1>1, <1>2, <1>3 DEF WorkInv, FreshInv
  <1>5. SettledInv' /\ KeptInv' /\ ArchiveKeepsFinishedWork'
    BY <1>1, <1>2, PastIsRead DEF WorkInv, SettledInv, KeptInv, ArchiveKeepsFinishedWork
  <1>6. QED
    BY <1>4, <1>5 DEF WorkInv

\* A process is killed: the files that it wrote stay, and the archiver goes on.
LEMMA KillKeepsPromises == Inv /\ WorkInv /\ Kill => WorkInv'
  <1> SUFFICES ASSUME Inv, WorkInv, Kill
               PROVE  WorkInv'
    OBVIOUS
  <1>1. UNCHANGED <<session, tree, archive, issued>>
    BY DEF Kill
  <1>2. CASE run' = Ended("error") /\ UNCHANGED <<pack, unpack>>
    <2>1. run'.at = "idle"
      BY <1>2 DEF Ended
    <2>2. FreshInv'
      BY <1>1, <1>2, <2>1 DEF WorkInv, FreshInv
    <2>3. SettledInv' /\ ArchiveKeepsFinishedWork'
      BY <1>1, <2>1, PastIsRead DEF WorkInv, SettledInv, ArchiveKeepsFinishedWork
    <2>4. KeptInv'
      <3>1. ~Preparing'
        BY <2>1 DEF Preparing
      <3>2. ASSUME NEW c, Promised(pack, run, tree, session.root, c)
            PROVE  Promised(pack, run', tree, session.root, c)
        BY <2>1, <3>2, PastIsRead DEF Promised
      <3>3. QED
        BY <1>1, <1>2, <3>1, <3>2 DEF WorkInv, KeptInv
    <2>5. QED
      BY <2>2, <2>3, <2>4 DEF WorkInv
  <1>3. CASE pack' = NoPack /\ UNCHANGED <<run, unpack>>
    BY <1>1, <1>3, NoPromise
  <1>4. CASE unpack' = NoUnpack /\ UNCHANGED <<run, pack>>
    <2>1. unpack'.at = "idle"
      BY <1>4 DEF NoUnpack
    <2>2. QED
      BY <1>1, <1>4, <2>1
         DEF WorkInv, FreshInv, SettledInv, KeptInv, ArchiveKeepsFinishedWork, Preparing
  <1>5. QED
    BY <1>2, <1>3, <1>4 DEF Kill

\* At first there is nothing to keep.
LEMMA InitWork == Init => WorkInv
  <1> SUFFICES ASSUME Init
               PROVE  WorkInv
    OBVIOUS
  <1>1. run.at = "idle" /\ pack.at = "idle" /\ unpack.at = "idle" /\ tree = Empty
        /\ archive = NoArchive
    BY DEF Init, Ended, NoPack, NoUnpack
  <1>2. Below(tree, issued + 1)
    BY <1>1, BelowNothing
  <1>3. FreshInv
    BY <1>1, <1>2 DEF FreshInv
  <1>4. SettledInv /\ KeptInv /\ ArchiveKeepsFinishedWork
    BY <1>1, PastIsRead DEF SettledInv, KeptInv, ArchiveKeepsFinishedWork
  <1>5. QED
    BY <1>3, <1>4 DEF WorkInv

\* Every step keeps what was promised.
LEMMA NextWork == Inv /\ WorkInv /\ [Next]_vars /\ Inv' => WorkInv'
  <1> SUFFICES ASSUME Inv, WorkInv, [Next]_vars, Inv'
               PROVE  WorkInv'
    OBVIOUS
  <1>1. SwapVideo \/ Lapse \/ UNCHANGED vars =>
          UNCHANGED <<session, tree, archive, run, pack, unpack, issued>>
    BY DEF SwapVideo, Lapse, vars, world
  <1>2. SwapVideo \/ Lapse \/ UNCHANGED vars => WorkInv'
    BY <1>1, NothingMoves
  <1>3. QED
    BY <1>2, StartKeepsPromises, RunKeepsPromises, BeginPromises, ListPromises, MemberPromises,
       PublishPromises, BeginUnpackPromises, WriteMemberPromises, EndKeepsPromises,
       KillKeepsPromises DEF Next, PackStep

\* An archive holds everything that a recovery would have found done when its
\* making began, but what the command at work had given up: whatever the command
\* does meanwhile, in whatever order it and the archiver touch the files.
THEOREM ArchivesKeepWork == Spec => []ArchiveKeepsFinishedWork
  <1>1. Init => Inv /\ WorkInv
    BY InitInv, InitWork
  <1>2. (Inv /\ WorkInv) /\ [Next]_vars => (Inv /\ WorkInv)'
    BY NextInv, NextWork
  <1>3. WorkInv => ArchiveKeepsFinishedWork
    BY DEF WorkInv
  <1>4. QED
    BY <1>1, <1>2, <1>3, PTL DEF Spec
=============================================================================
