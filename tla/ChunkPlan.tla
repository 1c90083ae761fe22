------------------------------ MODULE ChunkPlan ------------------------------
(***************************************************************************)
(* orchestration/chunks.py: plan_chunks cuts the normalized output of a    *)
(* job into chunks.  Its loop is the only action; each pass places the     *)
(* next boundary at the target length, or at a scene end close to it, and  *)
(* surrounds the core with context frames.                                 *)
(*                                                                         *)
(* A request holds the number of output frames, the ChunkPolicy and the    *)
(* interior scene ends (scenes[:-1]; they are frame indexes of rows after  *)
(* the first, analysis/scenes.py).  The decode range, the scene ids and    *)
(* the timeline hash only enter the chunk's identity hash: left out.       *)
(***************************************************************************)
EXTENDS Integers, Sequences, FiniteSets

CONSTANT Requests  \* the requests to plan

Request == [frames : Nat \ {0}, target : Nat \ {0}, extension : Nat,
            before : Nat, after : Nat, sceneEnds : SUBSET Nat]

ASSUME RequestAssumption ==
  /\ Requests \subseteq Request
  /\ \A r \in Requests : r.sceneEnds \subseteq 1..(r.frames - 1)

VARIABLES
  request,  \* the request being planned
  start,    \* first output frame that no chunk covers yet
  chunks    \* the chunks placed so far

vars == <<request, start, chunks>>

Chunk == [start : Nat, end : Nat, before : Nat, after : Nat]

Init ==
  /\ request \in Requests
  /\ start = 0
  /\ chunks = <<>>

Smaller(a, b) == IF a <= b THEN a ELSE b
Larger(a, b) == IF a >= b THEN a ELSE b
Distance(a, b) == IF a <= b THEN b - a ELSE a - b

\* min(candidates, key=lambda value: (abs(value - target), value))
Closest(S, target) ==
  CHOOSE b \in S : \A c \in S :
    \/ Distance(b, target) < Distance(c, target)
    \/ Distance(b, target) = Distance(c, target) /\ b <= c

\* Slip: any scene end behind the start will do.
CandidatesAnywhere(r, s, target) == {b \in r.sceneEnds : b > s}

\* Scene ends beyond s and close enough to the target.
Candidates(r, s, target) ==
  {b \in r.sceneEnds : b > s /\ Distance(b, target) <= r.extension}

\* Slip: the last core is not cut at the end of the output.
BoundaryUncapped(r, s) ==
  LET target == s + r.target
      candidates == Candidates(r, s, target)
  IN IF candidates = {} THEN target ELSE Closest(candidates, target)

\* _boundary: where the core that starts at s ends.
Boundary(r, s) ==
  LET target == Smaller(r.frames, s + r.target)
      candidates == Candidates(r, s, target)
  IN IF target = r.frames \/ candidates = {} THEN target ELSE Closest(candidates, target)

\* A core with as much context as the output has on either side.
PlannedChunk(r, s, e) ==
  [start |-> s, end |-> e,
   before |-> s - Larger(0, s - r.before),
   after |-> Smaller(r.frames, e + r.after) - e]

\* One pass of the loop.  "chunk policy did not advance the output core" is
\* raised if the boundary does not lie behind the start: the loop stops there.
PlaceChunk ==
  /\ start < request.frames
  /\ Boundary(request, start) > start
  /\ chunks' = Append(chunks, PlannedChunk(request, start, Boundary(request, start)))
  /\ start' = Boundary(request, start)
  /\ UNCHANGED request

Next == PlaceChunk

Spec == Init /\ [][Next]_vars

-----------------------------------------------------------------------------
\* The request stays a request, and the chunks are chunks.
TypeOK ==
  /\ request \in Request
  /\ request.sceneEnds \subseteq 1..(request.frames - 1)
  /\ start \in Nat
  /\ chunks \in Seq(Chunk)

Covering(f) == {i \in DOMAIN chunks : chunks[i].start <= f /\ f < chunks[i].end}

\* Every output frame before start lies in the core of exactly one chunk, and
\* no other frame in any: when the loop is done, workers encode each frame of
\* the video once.
EveryFrameOnce ==
  /\ start <= request.frames
  /\ \A f \in 0..(request.frames - 1) :
       Cardinality(Covering(f)) = IF f < start THEN 1 ELSE 0

\* The cores follow each other without gap or overlap in the order of the
\* manifest.  validate_and_concat refuses completions whose PTS do not.
CoresAreContiguous ==
  /\ \A i \in DOMAIN chunks :
       /\ chunks[i].start = IF i = 1 THEN 0 ELSE chunks[i - 1].end
       /\ chunks[i].start < chunks[i].end
  /\ start = IF chunks = <<>> THEN 0 ELSE chunks[Len(chunks)].end

\* A core is at most target plus extension long; only the last one may be
\* shorter than target minus extension.
CoreLengthsBounded ==
  \A i \in DOMAIN chunks :
    /\ chunks[i].end - chunks[i].start <= request.target + request.extension
    /\ chunks[i].end < request.frames
         => chunks[i].end - chunks[i].start >= request.target - request.extension

\* Core and context lie inside the output, and context is the full context
\* wherever the output has that many frames.
ContextInside ==
  \A i \in DOMAIN chunks :
    /\ chunks[i].before \in {request.before, chunks[i].start}
    /\ chunks[i].before <= chunks[i].start /\ chunks[i].before <= request.before
    /\ chunks[i].after \in {request.after, request.frames - chunks[i].end}
    /\ chunks[i].after <= request.after
    /\ chunks[i].end + chunks[i].after <= request.frames
=============================================================================
