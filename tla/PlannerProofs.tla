---------------------------- MODULE PlannerProofs ----------------------------
(***************************************************************************)
(* For every source, policy and request: what the planners promise.  The   *)
(* chunks first, then the tiles, then the planning functions in the order  *)
(* in which FramePlan runs them.                                           *)
(***************************************************************************)
EXTENDS FramePlan, TilePlan, FiniteSetTheorems, FunctionTheorems, WellFoundedInduction,
        TLAPS

\* Multiplication by a positive number keeps the order.
LEMMA TimesKeepsOrder ==
  ASSUME NEW a \in Int, NEW b \in Int, NEW c \in Nat \ {0}
  PROVE  /\ a * c \in Int /\ (a + b) * c = a * c + b * c /\ (a - b) * c = a * c - b * c
         /\ a <= b => a * c <= b * c
         /\ a < b => a * c < b * c
         /\ a * c <= b * c => a <= b
         /\ a * c < b * c => a < b
  OBVIOUS

\* Integer division and its remainder.
LEMMA Quotient ==
  ASSUME NEW a \in Int, NEW b \in Nat \ {0}
  PROVE  /\ a \div b \in Int
         /\ (a \div b) * b <= a
         /\ a < (a \div b + 1) * b
         /\ a % b = a - (a \div b) * b
         /\ a % b \in Nat
         /\ a % b < b
  OBVIOUS

\* The quotient is the only number whose multiple lies that close below.
LEMMA QuotientIs ==
  ASSUME NEW a \in Int, NEW b \in Nat \ {0}, NEW q \in Int, q * b <= a, a < (q + 1) * b
  PROVE  a \div b = q
  <1> PICK r \in Int : r = a \div b
    BY Quotient
  <1>1. r * b <= a /\ a < (r + 1) * b
    BY Quotient
  <1>2. r * b < (q + 1) * b /\ q * b < (r + 1) * b
    OBVIOUS
  <1>3. r < q + 1 /\ q < r + 1
    BY <1>2, TimesKeepsOrder, q + 1 \in Int, r + 1 \in Int
  <1>4. QED
    BY <1>3

\* A nonempty set of naturals has a least element.
LEMMA LeastNatural ==
  ASSUME NEW T, T \subseteq Nat, T # {}
  PROVE  \E m \in T : \A n \in T : m <= n
  <1> DEFINE R == OpToRel(<, Nat)
  <1>1. IsWellFoundedOn(R, Nat)
    BY NatLessThanWellFounded
  <1> HIDE DEF R
  <1>2. \E x \in T : \A y \in Nat : <<y, x>> \in R => ~(y \in T)
    BY <1>1, WFMin
  <1>3. PICK m \in T : \A y \in Nat : <<y, m>> \in R => ~(y \in T)
    BY <1>2
  <1>4. \A y \in Nat : y < m => <<y, m>> \in R
    BY DEF R, OpToRel
  <1>5. ASSUME NEW n \in T PROVE m <= n
    <2>1. m \in Nat /\ n \in Nat
      OBVIOUS
    <2>2. ~(n < m)
      BY <1>3, <1>4, <2>1
    <2>3. QED
      BY <2>1, <2>2
  <1>6. QED
    BY <1>5

\* Max of a set that has a greatest element.
LEMMA MaxIs ==
  ASSUME NEW S, S \subseteq Int, NEW m \in S, \A x \in S : x <= m
  PROVE  Max(S) = m
  <1>1. \A x, y \in S : (\A z \in S : x >= z) /\ (\A z \in S : y >= z) => x = y
    OBVIOUS
  <1>2. \A z \in S : m >= z
    OBVIOUS
  <1>3. QED
    BY <1>1, <1>2 DEF Max

\* A set of positions has a greatest element.
LEMMA MaxOf ==
  ASSUME NEW n \in Nat, NEW S, S \subseteq 1 .. n, S # {}
  PROVE  Max(S) \in S /\ \A x \in S : x <= Max(S)
  <1> DEFINE T == {k \in Nat : \E x \in S : k = n - x}
  <1>1. T \subseteq Nat /\ T # {}
    <2>1. PICK x \in S : TRUE
      OBVIOUS
    <2>2. n - x \in Nat
      OBVIOUS
    <2>3. n - x \in T
      BY <2>2
    <2>4. QED
      BY <2>3
  <1>2. PICK k \in T : \A l \in T : k <= l
    BY <1>1, LeastNatural
  <1>3. PICK m \in S : k = n - m
    BY <1>2
  <1>4. \A x \in S : x <= m
    BY <1>2, <1>3
  <1>5. Max(S) = m
    <2>1. S \subseteq Int
      OBVIOUS
    <2>2. QED
      BY <1>4, <2>1, MaxIs
  <1>6. QED
    BY <1>4, <1>5

\* The fields of a frame.
LEMMA FrameFields ==
  ASSUME NEW src \in Seq(FrameTiming), NEW i \in DOMAIN src
  PROVE  src[i].pts \in Int /\ src[i].duration \in Int /\ i \in Nat \ {0}
  <1>1. src[i] \in FrameTiming /\ i \in Nat \ {0}
    OBVIOUS
  <1>2. QED
    BY <1>1 DEF FrameTiming

\* A usable source has frames.
LEMMA SourceLength ==
  ASSUME NEW src \in Seq(FrameTiming), UsableTiming(src)
  PROVE  Len(src) \in Nat \ {0} /\ DOMAIN src = 1 .. Len(src)
  BY DEF UsableTiming

\* Timestamps that rise from frame to frame rise altogether.
LEMMA TimestampsRise ==
  ASSUME NEW src \in Seq(FrameTiming), UsableTiming(src),
         NEW i \in DOMAIN src, NEW j \in DOMAIN src, i < j
  PROVE  src[i].pts < src[j].pts
  <1> DEFINE T == {k \in DOMAIN src : i < k /\ ~(src[i].pts < src[k].pts)}
  <1>1. SUFFICES T = {}
    OBVIOUS
  <1>2. SUFFICES ASSUME T # {} PROVE FALSE
    OBVIOUS
  <1>3. T \subseteq Nat
    OBVIOUS
  <1>4. PICK m \in T : \A k \in T : m <= k
    BY <1>2, <1>3, LeastNatural
  <1>5. m - 1 \in DOMAIN src /\ m > 1 /\ i <= m - 1
    OBVIOUS
  <1>6. \A k \in DOMAIN src : src[k].pts \in Int
    BY FrameFields
  <1>7. src[i].pts <= src[m - 1].pts
    <2>1. m - 1 \notin T
      BY <1>4, <1>5
    <2>2. QED
      BY <1>5, <1>6, <2>1
  <1>8. src[m].pts > src[m - 1].pts
    BY <1>5 DEF UsableTiming
  <1>9. QED
    BY <1>5, <1>6, <1>7, <1>8

\* The candidate that min() picks is one of the candidates.
LEMMA ClosestIsCandidate ==
  ASSUME NEW S, S \subseteq Nat, S # {}, NEW target \in Nat
  PROVE  Closest(S, target) \in S
  <1> DEFINE D == {Distance(b, target) : b \in S}
  <1>1. D \subseteq Nat /\ D # {}
    <2>1. \A b \in S : Distance(b, target) \in Nat
      BY DEF Distance
    <2>2. QED
      BY <2>1
  <1>2. PICK d \in D : \A e \in D : d <= e
    BY <1>1, LeastNatural
  <1> DEFINE T == {b \in S : Distance(b, target) = d}
  <1>3. T \subseteq Nat /\ T # {}
    BY <1>2
  <1>4. PICK b \in T : \A c \in T : b <= c
    BY <1>3, LeastNatural
  <1>5. b \in S /\ Distance(b, target) = d
    BY <1>4
  <1>6. ASSUME NEW c \in S
        PROVE  \/ Distance(b, target) < Distance(c, target)
               \/ Distance(b, target) = Distance(c, target) /\ b <= c
    <2>1. d \in Nat /\ Distance(c, target) \in Nat /\ d <= Distance(c, target)
      BY <1>1, <1>2
    <2>2. CASE Distance(c, target) = d
      BY <1>4, <1>5, <2>2
    <2>3. CASE Distance(c, target) # d
      BY <1>5, <2>1, <2>3
    <2>4. QED
      BY <2>2, <2>3
  <1>7. QED
    BY <1>5, <1>6 DEF Closest

\* A request as plan_chunks accepts it.
IsRequest(r) == r \in Request /\ r.sceneEnds \subseteq 1..(r.frames - 1)

\* A boundary lies behind the start and within the output, and at most the
\* extension away from the target unless the output ends.
LEMMA BoundaryFacts ==
  ASSUME NEW r, IsRequest(r), NEW s \in Nat, s < r.frames
  PROVE  /\ Boundary(r, s) \in Nat
         /\ s < Boundary(r, s) /\ Boundary(r, s) <= r.frames
         /\ Boundary(r, s) <= s + r.target + r.extension
         /\ Boundary(r, s) < r.frames => Boundary(r, s) >= s + r.target - r.extension
  <1> DEFINE target == Smaller(r.frames, s + r.target)
             C == Candidates(r, s, target)
  <1>1. /\ r.frames \in Nat \ {0} /\ r.target \in Nat \ {0} /\ r.extension \in Nat
        /\ r.sceneEnds \subseteq 1..(r.frames - 1)
    BY DEF IsRequest, Request
  <1>2. target \in Nat /\ s < target /\ target <= r.frames /\ target <= s + r.target
    BY <1>1 DEF Smaller
  <1>3. target # r.frames => target = s + r.target
    BY <1>1 DEF Smaller
  <1>4. \A b \in C : /\ b \in Nat /\ s < b /\ b < r.frames
                     /\ b <= target + r.extension /\ b >= target - r.extension
    BY <1>1, <1>2 DEF Candidates, Distance
  <1>5. CASE target = r.frames \/ C = {}
    <2>1. Boundary(r, s) = target
      BY <1>5 DEF Boundary
    <2>2. QED
      BY <1>1, <1>2, <1>3, <2>1
  <1>6. CASE target # r.frames /\ C # {}
    <2>1. Boundary(r, s) = Closest(C, target)
      BY <1>6 DEF Boundary
    <2>2. C \subseteq Nat
      BY <1>4
    <2> HIDE DEF C
    <2>3. Closest(C, target) \in C
      BY <1>2, <1>6, <2>2, ClosestIsCandidate
    <2>4. QED
      BY <1>1, <1>2, <1>3, <1>4, <1>6, <2>1, <2>3
  <1>7. QED
    BY <1>5, <1>6

\* What one pass of the loop appends.
LEMMA PlacedChunk ==
  ASSUME TypeOK, PlaceChunk
  PROVE  \E c \in Chunk :
           /\ chunks' = Append(chunks, c)
           /\ c.start = start /\ c.end = start' /\ start' \in Nat
           /\ start < start' /\ start' <= request.frames
           /\ start' <= start + request.target + request.extension
           /\ start' < request.frames => start' >= start + request.target - request.extension
           /\ c.before \in {request.before, start}
           /\ c.before <= start /\ c.before <= request.before
           /\ c.after \in {request.after, request.frames - start'} /\ c.after <= request.after
           /\ start' + c.after <= request.frames
  <1> DEFINE e == Boundary(request, start)
             c == PlannedChunk(request, start, e)
  <1>1. /\ request.frames \in Nat /\ request.before \in Nat /\ request.after \in Nat
        /\ request.target \in Nat /\ request.extension \in Nat /\ start \in Nat
    BY DEF TypeOK, Request
  <1>2. start < request.frames /\ start' = e /\ chunks' = Append(chunks, c)
    BY DEF PlaceChunk
  <1>3. /\ e \in Nat /\ start < e /\ e <= request.frames
        /\ e <= start + request.target + request.extension
        /\ e < request.frames => e >= start + request.target - request.extension
    BY <1>2, BoundaryFacts DEF TypeOK, IsRequest
  <1> HIDE DEF e
  <1>4. c = [start |-> start, end |-> e,
             before |-> start - Larger(0, start - request.before),
             after |-> Smaller(request.frames, e + request.after) - e]
    BY DEF PlannedChunk
  <1>5. /\ c.start = start /\ c.end = e
        /\ c.before = start - Larger(0, start - request.before)
        /\ c.after = Smaller(request.frames, e + request.after) - e
    BY <1>4
  <1>6. /\ c.before \in Nat /\ c.before \in {request.before, start}
        /\ c.before <= start /\ c.before <= request.before
        /\ c.after \in Nat /\ c.after \in {request.after, request.frames - e}
        /\ c.after <= request.after
        /\ e + c.after <= request.frames
    BY <1>1, <1>3, <1>5 DEF Larger, Smaller
  <1>7. c \in Chunk
    BY <1>1, <1>3, <1>4, <1>5, <1>6 DEF Chunk
  <1> HIDE DEF c
  <1>8. QED
    BY <1>2, <1>3, <1>5, <1>6, <1>7

\* A step keeps the types.
LEMMA TypeKept == TypeOK /\ [Next]_vars => TypeOK'
  <1>1. ASSUME TypeOK, PlaceChunk PROVE TypeOK'
    <2>1. PICK c \in Chunk : chunks' = Append(chunks, c) /\ start' \in Nat
      BY <1>1, PlacedChunk
    <2>2. QED
      BY <1>1, <2>1 DEF TypeOK, PlaceChunk
  <1>2. ASSUME TypeOK, UNCHANGED vars PROVE TypeOK'
    BY <1>2 DEF TypeOK, vars
  <1>3. QED
    BY <1>1, <1>2 DEF Next

\* The types hold of every planning state.
THEOREM TypeCorrect == Spec => []TypeOK
  <1>1. Init => TypeOK
    BY RequestAssumption DEF Init, TypeOK
  <1>2. QED
    BY <1>1, TypeKept, PTL DEF Spec

-----------------------------------------------------------------------------
(***************************************************************************)
(* The frames before start are covered by one core each and the others by  *)
(* none; a new core covers the frames from start to the new start.         *)
(***************************************************************************)

\* EveryFrameOnce for all natural numbers, with the covering chunk named.
CoveredOnce ==
  /\ start <= request.frames
  /\ \A f \in Nat : f < start => \E i \in DOMAIN chunks : Covering(f) = {i}
  /\ \A f \in Nat : f >= start => Covering(f) = {}

\* The chunk that is placed covers the frames from the old start to the new one,
\* and no other frame changes its cover.
LEMMA CoveringGrows ==
  ASSUME TypeOK, PlaceChunk, NEW f \in Nat
  PROVE  /\ start <= f /\ f < start' => Covering(f)' = Covering(f) \union {Len(chunks) + 1}
         /\ f < start \/ f >= start' => Covering(f)' = Covering(f)
         /\ DOMAIN chunks \subseteq DOMAIN chunks'
         /\ Len(chunks) + 1 \in DOMAIN chunks'
  <1>1. PICK c \in Chunk : /\ chunks' = Append(chunks, c)
                           /\ c.start = start /\ c.end = start' /\ start' \in Nat
    BY PlacedChunk
  <1>2. /\ DOMAIN chunks = 1..Len(chunks) /\ Len(chunks) \in Nat
        /\ DOMAIN chunks' = 1..(Len(chunks) + 1)
        /\ \A i \in DOMAIN chunks : chunks'[i] = chunks[i]
        /\ chunks'[Len(chunks) + 1] = c
    BY <1>1 DEF TypeOK
  <1>3. Covering(f)' = Covering(f) \union {i \in {Len(chunks) + 1} : start <= f /\ f < start'}
    BY <1>1, <1>2 DEF Covering
  <1>4. start \in Nat
    BY DEF TypeOK
  <1>5. QED
    BY <1>1, <1>2, <1>3, <1>4

\* A step keeps the cover.
LEMMA OnceKept == TypeOK /\ CoveredOnce /\ [Next]_vars => CoveredOnce'
  <1>1. ASSUME TypeOK, CoveredOnce, PlaceChunk PROVE CoveredOnce'
    <2>1. /\ start' \in Nat /\ start < start' /\ start' <= request.frames
          /\ start \in Nat /\ request' = request
      BY <1>1, PlacedChunk DEF PlaceChunk, TypeOK
    <2>2. ASSUME NEW f \in Nat, f < start'
          PROVE  \E i \in DOMAIN chunks' : Covering(f)' = {i}
      <3>1. CASE f < start
        BY <1>1, <3>1, CoveringGrows DEF CoveredOnce
      <3>2. CASE start <= f
        <4>1. Covering(f) = {}
          BY <1>1, <3>2 DEF CoveredOnce
        <4>2. QED
          BY <1>1, <2>2, <3>2, <4>1, CoveringGrows
      <3>3. QED
        BY <2>1, <3>1, <3>2
    <2>3. ASSUME NEW f \in Nat, f >= start'
          PROVE  Covering(f)' = {}
      BY <1>1, <2>1, <2>3, CoveringGrows DEF CoveredOnce
    <2>4. QED
      BY <2>1, <2>2, <2>3 DEF CoveredOnce
  <1>2. ASSUME CoveredOnce, UNCHANGED vars PROVE CoveredOnce'
    BY <1>2 DEF CoveredOnce, Covering, vars
  <1>3. QED
    BY <1>1, <1>2 DEF Next

\* CoveredOnce is inductive together with the types.
LEMMA OnceInvariant == Spec => [](TypeOK /\ CoveredOnce)
  <1>1. Init => CoveredOnce
    BY RequestAssumption DEF Init, CoveredOnce, Covering, Request
  <1>2. QED
    BY <1>1, OnceKept, TypeCorrect, PTL DEF Spec

\* A set of one chunk counts one.
LEMMA OnceMeansOnce == TypeOK /\ CoveredOnce => EveryFrameOnce
  <1> SUFFICES ASSUME TypeOK, CoveredOnce, NEW f \in 0..(request.frames - 1)
               PROVE  Cardinality(Covering(f)) = IF f < start THEN 1 ELSE 0
    BY DEF EveryFrameOnce, CoveredOnce
  <1>1. f \in Nat /\ start \in Nat
    BY DEF TypeOK, Request
  <1>2. CASE f < start
    <2>1. PICK i \in DOMAIN chunks : Covering(f) = {i}
      BY <1>1, <1>2 DEF CoveredOnce
    <2>2. Cardinality({i}) = 1
      BY FS_Singleton
    <2>3. QED
      BY <1>2, <2>1, <2>2
  <1>3. CASE ~(f < start)
    <2>1. Covering(f) = {}
      BY <1>1, <1>3 DEF CoveredOnce
    <2>2. QED
      BY <1>3, <2>1, FS_EmptySet
  <1>4. QED
    BY <1>2, <1>3

\* Every output frame lies in the core of exactly one chunk once the loop has
\* passed it, whatever the policy and the scenes.
THEOREM FramesCoveredOnce == Spec => []EveryFrameOnce
  BY OnceInvariant, OnceMeansOnce, PTL

-----------------------------------------------------------------------------
\* A chunk is placed where the one before it ended.
LEMMA ContiguousStep ==
  ASSUME TypeOK, CoresAreContiguous, PlaceChunk
  PROVE  CoresAreContiguous'
  <1>1. PICK c \in Chunk : /\ chunks' = Append(chunks, c)
                           /\ c.start = start /\ c.end = start'
                           /\ start' \in Nat /\ start < start'
    BY PlacedChunk
  <1> DEFINE n == Len(chunks)
  <1>2. /\ DOMAIN chunks = 1..n /\ n \in Nat /\ DOMAIN chunks' = 1..(n + 1)
        /\ \A i \in 1..n : chunks'[i] = chunks[i]
        /\ chunks'[n + 1] = c /\ Len(chunks') = n + 1 /\ chunks' # <<>>
        /\ chunks = <<>> <=> n = 0
    BY <1>1 DEF TypeOK
  <1> HIDE DEF n
  <1>3. start = IF n = 0 THEN 0 ELSE chunks[n].end
    BY <1>2 DEF CoresAreContiguous, n
  <1>4. ASSUME NEW i \in 1..n
        PROVE  /\ chunks'[i].start = IF i = 1 THEN 0 ELSE chunks'[i - 1].end
               /\ chunks'[i].start < chunks'[i].end
    <2>1. /\ chunks[i].start = IF i = 1 THEN 0 ELSE chunks[i - 1].end
          /\ chunks[i].start < chunks[i].end
      BY <1>2, <1>4 DEF CoresAreContiguous
    <2>2. i # 1 => i - 1 \in 1..n
      BY <1>2, <1>4
    <2>3. QED
      BY <1>2, <1>4, <2>1, <2>2
  <1>5. /\ c.start = IF n + 1 = 1 THEN 0 ELSE chunks'[(n + 1) - 1].end
        /\ c.start < c.end
    BY <1>1, <1>2, <1>3
  <1>6. \A i \in DOMAIN chunks' : /\ chunks'[i].start = IF i = 1 THEN 0 ELSE chunks'[i - 1].end
                                 /\ chunks'[i].start < chunks'[i].end
    <2>1. \A i \in DOMAIN chunks' : i \in 1..n \/ i = n + 1
      BY <1>2
    <2>2. QED
      BY <1>2, <1>4, <1>5, <2>1
  <1>7. start' = IF chunks' = <<>> THEN 0 ELSE chunks'[Len(chunks')].end
    BY <1>1, <1>2
  <1>8. QED
    BY <1>6, <1>7 DEF CoresAreContiguous

\* A step leaves no gap and no overlap.
LEMMA ContiguousKept == TypeOK /\ CoresAreContiguous /\ [Next]_vars => CoresAreContiguous'
  <1>1. ASSUME CoresAreContiguous, UNCHANGED vars PROVE CoresAreContiguous'
    BY <1>1 DEF CoresAreContiguous, vars
  <1>2. QED
    BY <1>1, ContiguousStep DEF Next

\* The chunks follow each other without gap or overlap from frame 0 on: what
\* validate_and_concat demands of the completions of a job.
THEOREM CoresContiguous == Spec => []CoresAreContiguous
  <1>1. Init => CoresAreContiguous
    BY DEF Init, CoresAreContiguous
  <1>2. QED
    BY <1>1, ContiguousKept, TypeCorrect, PTL DEF Spec

\* A step keeps the lengths of the cores inside their bounds.
LEMMA LengthsKept == TypeOK /\ CoreLengthsBounded /\ [Next]_vars => CoreLengthsBounded'
  <1>1. ASSUME TypeOK, CoreLengthsBounded, PlaceChunk PROVE CoreLengthsBounded'
    <2>1. PICK c \in Chunk :
            /\ chunks' = Append(chunks, c)
            /\ c.start = start /\ c.end = start' /\ start' \in Nat
            /\ start' <= start + request.target + request.extension
            /\ start' < request.frames => start' >= start + request.target - request.extension
      BY <1>1, PlacedChunk
    <2>2. /\ start \in Nat /\ request.target \in Nat /\ request.extension \in Nat
          /\ request' = request
      BY <1>1 DEF TypeOK, Request, PlaceChunk
    <2>3. /\ c.end - c.start <= request.target + request.extension
          /\ c.end < request.frames => c.end - c.start >= request.target - request.extension
      BY <2>1, <2>2
    <2>4. \A i \in DOMAIN chunks' :
            chunks'[i] = c \/ (i \in DOMAIN chunks /\ chunks'[i] = chunks[i])
      BY <1>1, <2>1 DEF TypeOK
    <2>5. QED
      BY <1>1, <2>2, <2>3, <2>4 DEF CoreLengthsBounded
  <1>2. ASSUME CoreLengthsBounded, UNCHANGED vars PROVE CoreLengthsBounded'
    BY <1>2 DEF CoreLengthsBounded, vars
  <1>3. QED
    BY <1>1, <1>2 DEF Next

\* No core is longer than target plus extension and no core but the last is
\* shorter than target minus extension.
THEOREM LengthsBounded == Spec => []CoreLengthsBounded
  <1>1. Init => CoreLengthsBounded
    BY DEF Init, CoreLengthsBounded
  <1>2. QED
    BY <1>1, LengthsKept, TypeCorrect, PTL DEF Spec

\* A step gives a chunk no context outside the output.
LEMMA ContextKept == TypeOK /\ ContextInside /\ [Next]_vars => ContextInside'
  <1>1. ASSUME TypeOK, ContextInside, PlaceChunk PROVE ContextInside'
    <2>1. PICK c \in Chunk :
            /\ chunks' = Append(chunks, c)
            /\ c.start = start /\ c.end = start'
            /\ c.before \in {request.before, start}
            /\ c.before <= start /\ c.before <= request.before
            /\ c.after \in {request.after, request.frames - start'} /\ c.after <= request.after
            /\ start' + c.after <= request.frames
      BY <1>1, PlacedChunk
    <2>2. request' = request
      BY <1>1 DEF PlaceChunk
    <2>3. \A i \in DOMAIN chunks' :
            chunks'[i] = c \/ (i \in DOMAIN chunks /\ chunks'[i] = chunks[i])
      BY <1>1, <2>1 DEF TypeOK
    <2>4. QED
      BY <1>1, <2>1, <2>2, <2>3 DEF ContextInside
  <1>2. ASSUME ContextInside, UNCHANGED vars PROVE ContextInside'
    BY <1>2 DEF ContextInside, vars
  <1>3. QED
    BY <1>1, <1>2 DEF Next

\* Context never reaches outside the output.
THEOREM ContextStaysInside == Spec => []ContextInside
  <1>1. Init => ContextInside
    BY DEF Init, ContextInside
  <1>2. QED
    BY <1>1, ContextKept, TypeCorrect, PTL DEF Spec

-----------------------------------------------------------------------------
(***************************************************************************)
(* Tiles: calibration selects a size that fits, layout places tiles of     *)
(* that size over the whole length, and where two of them meet their       *)
(* weights sum to one.                                                     *)
(***************************************************************************)
\* Every candidate tried so far ran out of memory, up to the selected one.
Tried ==
  /\ attempts \in Seq({"oom", "passed"})
  /\ Len(attempts) <= Len(setting.candidates)
  /\ phase = "calibrate" => \A i \in DOMAIN attempts : attempts[i] = "oom"

\* The selected size.
Selected ==
  /\ tile \in Nat /\ tile > setting.overlap /\ Crop(tile) <= setting.memory
  /\ \A i \in DOMAIN attempts : (attempts[i] = "passed") <=> (i = Len(attempts))

\* The tiles placed so far.
Placed ==
  /\ positions \in Seq(Nat) /\ positions # <<>> /\ positions[1] = 0
  /\ \A i, j \in DOMAIN positions : i < j => positions[i] < positions[j]
  /\ \A i \in DOMAIN positions : i > 1 => positions[i] + tile <= setting.length
  /\ \A x \in Nat : x < positions[Len(positions)] + tile =>
       \E i \in DOMAIN positions : positions[i] <= x /\ x < positions[i] + tile

\* The phases of calibration and layout, and what each has established.
TileInv ==
  /\ phase \in {"calibrate", "layout", "enhance", "done", "refused"}
  /\ setting \in Settings
  /\ Tried
  /\ phase = "calibrate" => positions = <<0>>
  /\ phase \in {"layout", "enhance", "done"} => Selected /\ Placed
  /\ phase \in {"enhance", "done"} => setting.length <= positions[Len(positions)] + tile

\* The fields of a setting.
LEMMA SettingFields ==
  ASSUME setting \in Settings
  PROVE  /\ setting.corpus \in Nat \ {0} /\ setting.candidates \in Seq(Nat \ {0})
         /\ setting.context \in Nat /\ setting.overlap \in Nat /\ setting.memory \in Nat
         /\ setting.broken \in Nat /\ setting.length \in Nat \ {0}
  BY SettingAssumption DEF TileSetting

\* A crop on which the model passed fits in memory.
LEMMA PassedFits ==
  ASSUME setting \in Settings, NEW size \in Nat, Outcome(Crop(size)) = "passed"
  PROVE  Crop(size) <= setting.memory
  <1> DEFINE side == Crop(size)
  <1>1. setting.corpus \in Nat /\ setting.context \in Nat /\ setting.memory \in Nat
    BY SettingFields
  <1>2. side \in Nat
    BY <1>1 DEF Crop, Least
  <1> HIDE DEF side
  <1>3. Outcome(side) = "passed"
    BY DEF side
  <1>4. ~(side > setting.memory)
    BY <1>3 DEF Outcome
  <1>5. side <= setting.memory
    BY <1>1, <1>2, <1>4
  <1>6. QED
    BY <1>5 DEF side

\* The next position: behind the last one, not behind its tile, and inside.
LEMMA NextBounds ==
  ASSUME NEW last \in Nat, NEW size \in Nat, NEW overlap \in Nat, NEW length \in Nat,
         size > overlap, last + size < length
  PROVE  /\ Least(last + size - overlap, length - size) \in Nat
         /\ last < Least(last + size - overlap, length - size)
         /\ Least(last + size - overlap, length - size) <= last + size
         /\ Least(last + size - overlap, length - size) + size <= length
  BY DEF Least

\* Nothing is tried, selected or placed at the start.
LEMMA NothingTiled == TileInit => TileInv
  BY DEF TileInit, TileInv, Tried

\* One candidate is tried.
LEMMA CalibrateKeeps ==
  ASSUME TileInv, Calibrate
  PROVE  TileInv'
  <1> DEFINE size == setting.candidates[Len(attempts) + 1]
             outcome == Outcome(Crop(size))
  <1>1. /\ setting' = setting /\ positions' = positions /\ positions = <<0>>
        /\ phase = "calibrate" /\ setting \in Settings
        /\ Len(attempts) < Len(setting.candidates)
        /\ attempts \in Seq({"oom", "passed"})
        /\ \A i \in DOMAIN attempts : attempts[i] = "oom"
    BY DEF Calibrate, TileInv, Tried
  <1>2. size \in Nat \ {0} /\ outcome \in {"oom", "passed", "error"}
    BY <1>1, SettingFields DEF Outcome
  <1>3. outcome = "passed" => Crop(size) <= setting.memory
    BY <1>1, <1>2, PassedFits
  <1>4. IF size <= setting.overlap \/ outcome = "error"
          THEN phase' = "refused" /\ UNCHANGED <<attempts, tile>>
          ELSE /\ attempts' = Append(attempts, outcome)
               /\ IF outcome = "passed" THEN phase' = "layout" /\ tile' = size
                                        ELSE UNCHANGED <<phase, tile>>
    BY DEF Calibrate
  <1> HIDE DEF outcome
  <1>5. CASE size <= setting.overlap \/ outcome = "error"
    BY <1>1, <1>4, <1>5 DEF TileInv, Tried
  <1>6. CASE ~(size <= setting.overlap \/ outcome = "error")
    <2>1. /\ attempts' = Append(attempts, outcome) /\ outcome \in {"oom", "passed"}
          /\ attempts' \in Seq({"oom", "passed"}) /\ Len(attempts') = Len(attempts) + 1
          /\ attempts'[Len(attempts')] = outcome
          /\ \A i \in DOMAIN attempts : attempts'[i] = attempts[i]
          /\ DOMAIN attempts' = DOMAIN attempts \union {Len(attempts')}
      <3>1. attempts' = Append(attempts, outcome) /\ outcome \in {"oom", "passed"}
        BY <1>2, <1>4, <1>6
      <3>2. attempts \in Seq({"oom", "passed"})
        BY <1>1
      <3>3. QED
        BY <3>1, <3>2
    <2>2. setting.candidates \in Seq(Nat \ {0}) /\ setting.overlap \in Nat
      BY <1>1, SettingFields
    <2>3. Len(attempts') <= Len(setting.candidates)
      BY <1>1, <2>1, <2>2
    <2>4. CASE outcome = "passed"
      <3>1. phase' = "layout" /\ tile' = size
        BY <1>4, <1>6, <2>4
      <3>2. \A i \in DOMAIN attempts' : (attempts'[i] = "passed") <=> (i = Len(attempts'))
        BY <1>1, <2>1, <2>4
      <3>3. Crop(tile)' = Crop(size)
        BY <1>1, <3>1 DEF Crop
      <3>4. Selected'
        BY <1>1, <1>2, <1>3, <1>6, <2>2, <2>4, <3>1, <3>2, <3>3 DEF Selected
      <3>5. Placed'
        BY <1>1, <1>2, <3>1 DEF Placed
      <3>6. QED
        BY <1>1, <2>1, <2>3, <3>1, <3>4, <3>5 DEF TileInv, Tried
    <2>5. CASE outcome = "oom"
      <3>1. phase' = "calibrate"
        BY <1>1, <1>4, <1>6, <2>5
      <3>2. \A i \in DOMAIN attempts' : attempts'[i] = "oom"
        BY <1>1, <2>1, <2>5
      <3>3. QED
        BY <1>1, <2>1, <2>3, <3>1, <3>2 DEF TileInv, Tried
    <2>6. QED
      BY <2>1, <2>4, <2>5
  <1>7. QED
    BY <1>5, <1>6

\* One more tile is placed, or no more is needed.
LEMMA PlaceTileKeeps ==
  ASSUME TileInv, PlaceTile
  PROVE  TileInv'
  <1> DEFINE last == positions[Len(positions)]
             next == Least(last + tile - setting.overlap, setting.length - tile)
  <1>1. /\ setting' = setting /\ attempts' = attempts /\ tile' = tile
        /\ phase = "layout" /\ setting \in Settings /\ Tried /\ Selected /\ Placed
    BY DEF PlaceTile, TileInv
  <1>2. /\ setting.length \in Nat /\ setting.overlap \in Nat /\ tile \in Nat
        /\ tile > setting.overlap /\ positions \in Seq(Nat) /\ Len(positions) \in Nat \ {0}
        /\ last \in Nat
    BY <1>1, SettingFields DEF Selected, Placed
  <1>3. Tried' /\ (phase' \in {"layout", "enhance"} => Selected')
    BY <1>1 DEF Tried, Selected, Crop, PlaceTile
  <1>4. Last(positions) = last
    BY DEF Last
  <1>5. CASE setting.length > tile /\ last + tile < setting.length
    <2>1. positions' = Append(positions, next) /\ phase' = "layout"
      BY <1>1, <1>4, <1>5 DEF PlaceTile, NextPosition
    <2>2. /\ next \in Nat /\ last < next /\ next <= last + tile
          /\ next + tile <= setting.length
      <3> HIDE DEF last
      <3> QED
        BY <1>2, <1>5, NextBounds
    <2> HIDE DEF next
    <2>3. /\ positions' \in Seq(Nat) /\ Len(positions') = Len(positions) + 1
          /\ positions'[Len(positions')] = next
          /\ \A i \in DOMAIN positions : positions'[i] = positions[i] /\ i < Len(positions')
          /\ DOMAIN positions' = DOMAIN positions \union {Len(positions')}
          /\ 1 \in DOMAIN positions /\ Len(positions) \in DOMAIN positions
      BY <1>2, <2>1, <2>2, SMTT(30)
    <2>4. \A i \in DOMAIN positions : positions[i] <= last /\ positions[i] \in Nat
      BY <1>1, <1>2, SMTT(30) DEF Placed
    <2>5. \A i, j \in DOMAIN positions' : i < j => positions'[i] < positions'[j]
      <3> SUFFICES ASSUME NEW i \in DOMAIN positions', NEW j \in DOMAIN positions', i < j
                   PROVE  positions'[i] < positions'[j]
        OBVIOUS
      <3>1. i \in DOMAIN positions
        BY <1>2, <2>3
      <3>2. CASE j \in DOMAIN positions
        BY <1>1, <2>3, <3>1, <3>2 DEF Placed
      <3>3. CASE j = Len(positions')
        <4>1. positions[i] \in Nat /\ positions[i] <= last
          BY <2>4, <3>1
        <4>2. positions[i] < next
          BY <1>2, <2>2, <4>1
        <4>3. QED
          BY <2>3, <3>1, <3>3, <4>2
      <3>4. QED
        BY <2>3, <3>2, <3>3
    <2>6. \A i \in DOMAIN positions' : i > 1 => positions'[i] + tile <= setting.length
      BY <1>1, <1>2, <2>2, <2>3 DEF Placed
    <2>7. ASSUME NEW x \in Nat, x < next + tile
          PROVE  \E i \in DOMAIN positions' : positions'[i] <= x /\ x < positions'[i] + tile
      <3>1. CASE x < last + tile
        <4>1. PICK i \in DOMAIN positions : positions[i] <= x /\ x < positions[i] + tile
          BY <1>1, <3>1 DEF Placed
        <4>2. QED
          BY <2>3, <4>1
      <3>2. CASE ~(x < last + tile)
        <4>1. next <= x
          BY <1>2, <2>2, <3>2
        <4>2. QED
          BY <2>3, <2>7, <4>1
      <3>3. QED
        BY <3>1, <3>2
    <2>8. positions' # <<>> /\ positions'[1] = 0
      BY <1>1, <2>3 DEF Placed
    <2>9. Placed'
      BY <1>1, <2>3, <2>5, <2>6, <2>7, <2>8 DEF Placed
    <2>10. QED
      BY <1>1, <1>3, <2>1, <2>9 DEF TileInv
  <1>6. CASE ~(setting.length > tile /\ last + tile < setting.length)
    <2>1. positions' = positions /\ phase' = "enhance"
      BY <1>1, <1>4, <1>6 DEF PlaceTile
    <2>2. setting.length <= last + tile
      BY <1>2, <1>6
    <2>3. Placed'
      BY <1>1, <2>1 DEF Placed
    <2>4. QED
      BY <1>1, <1>3, <2>1, <2>2, <2>3 DEF TileInv
  <1>7. QED
    BY <1>5, <1>6

\* Each step keeps the invariant.
LEMMA TileNextKeeps == TileInv /\ [TileNext]_tileVars => TileInv'
  <1> SUFFICES ASSUME TileInv, [TileNext]_tileVars PROVE TileInv'
    OBVIOUS
  <1>1. CASE NoSizeLeft
    BY <1>1 DEF NoSizeLeft, TileInv, Tried
  <1>2. CASE Enhance
    <2>1. UNCHANGED <<setting, attempts, tile, positions>> /\ phase' \in {"refused", "done"}
          /\ phase = "enhance"
      BY <1>2 DEF Enhance
    <2>2. QED
      BY <2>1 DEF TileInv, Tried, Selected, Placed, Crop
  <1>3. CASE UNCHANGED tileVars
    BY <1>3 DEF tileVars, TileInv, Tried, Selected, Placed, Crop
  <1>4. QED
    BY <1>1, <1>2, <1>3, CalibrateKeeps, PlaceTileKeeps DEF TileNext

\* The inductive invariant of calibration and layout.
THEOREM TileInvariance == TileSpec => []TileInv
  BY NothingTiled, TileNextKeeps, PTL DEF TileSpec

\* What is read for a tile is no longer than the frame, nor than the tile with
\* its context on both sides.
LEMMA RegionFits ==
  ASSUME setting \in Settings, tile \in Nat, Placed, NEW i \in DOMAIN positions
  PROVE  /\ Region(i).readTo - Region(i).readFrom <= setting.length
         /\ Region(i).readTo - Region(i).readFrom <= tile + 2 * setting.context
  <1>1. /\ setting.length \in Nat /\ setting.context \in Nat /\ positions[i] \in Nat
    BY SettingFields DEF Placed
  <1>2. /\ Region(i).readFrom = Most(0, positions[i] - setting.context)
        /\ Region(i).readTo = Least(setting.length, Least(setting.length, positions[i] + tile)
                                                     + setting.context)
    BY DEF Region
  <1>3. QED
    BY <1>1, <1>2 DEF Least, Most

\* The selected size is the first one that passed calibration, and no region
\* read from a frame no longer than those calibrated on is longer than the
\* crop that passed.
THEOREM TilesFit == TileSpec => []CalibratedTilesFit
  <1>1. TileInv => CalibratedTilesFit
    <2> SUFFICES ASSUME TileInv, phase \in {"layout", "enhance", "done"}
                 PROVE  CalibratedTilesFit
      BY DEF CalibratedTilesFit
    <2>1. setting \in Settings /\ Selected /\ Placed
      BY DEF TileInv
    <2>2. ASSUME setting.corpus >= setting.length, NEW i \in DOMAIN positions
          PROVE  Region(i).readTo - Region(i).readFrom <= setting.memory
      <3> DEFINE n == Region(i).readTo - Region(i).readFrom
      <3>1. n <= setting.length /\ n <= tile + 2 * setting.context
        BY <2>1, RegionFits DEF Selected
      <3>2. /\ setting.length \in Nat /\ setting.context \in Nat /\ tile \in Nat
            /\ setting.corpus \in Nat /\ setting.memory \in Nat
        BY <2>1, SettingFields DEF Selected
      <3>3. Least(setting.corpus, tile + 2 * setting.context) <= setting.memory
        BY <2>1 DEF Selected, Crop
      <3>4. n \in Int
        <4>1. positions[i] \in Nat
          BY <2>1 DEF Placed
        <4>2. QED
          BY <3>2, <4>1 DEF Region, Least, Most
      <3> HIDE DEF n
      <3>5. n <= setting.memory
        BY <2>2, <3>1, <3>2, <3>3, <3>4 DEF Least
      <3>6. QED
        BY <3>5 DEF n
    <2>3. QED
      BY <2>1, <2>2 DEF CalibratedTilesFit, Selected
  <1>2. QED
    BY <1>1, TileInvariance, PTL

\* The fields of a region.
LEMMA RegionFields ==
  ASSUME NEW i \in DOMAIN positions
  PROVE  /\ Region(i).from = positions[i]
         /\ Region(i).to = Least(setting.length, positions[i] + tile)
         /\ Region(i).before
              = IF i > 1 THEN Most(0, positions[i - 1] + tile - positions[i]) ELSE 0
         /\ Region(i).after
              = IF i < Len(positions)
                  THEN Most(0, Least(setting.length, positions[i] + tile) - positions[i + 1])
                  ELSE 0
  BY DEF Region

\* The smaller and the larger of two numbers.
LEMMA LeastMost ==
  ASSUME NEW m \in Int, NEW n \in Int
  PROVE  /\ n <= m => Least(m, n) = n
         /\ Most(0, n) \in Nat
         /\ n \in Nat => Most(0, n) = n
  BY DEF Least, Most

\* Complementary weights sum to one.
LEMMA Complement ==
  ASSUME NEW a \in Int, NEW b \in Int, NEW d \in Int, a + b = d
  PROVE  a * d + b * d = d * d
  OBVIOUS

\* The weight of a pixel in the falling ramp of a region.
LEMMA FallingWeight ==
  ASSUME NEW r, NEW x \in Int, r.from \in Int, r.to \in Int, r.before \in Int, r.after \in Int,
         ~(x - r.from < r.before), r.to - 1 - x < r.after
  PROVE  Weight(r, x) = <<2 * (r.to - 1 - x) + 1, 2 * r.after>>
  BY DEF Weight, Ramp

\* The weight of a pixel in the rising ramp of a region.
LEMMA RisingWeight ==
  ASSUME NEW r, NEW x \in Int, r.from \in Int, r.to \in Int, r.before \in Int, r.after \in Int,
         x - r.from < r.before, ~(r.to - 1 - x < r.after)
  PROVE  Weight(r, x) = <<2 * (x - r.from) + 1, 2 * r.before>>
  BY DEF Weight, Ramp

\* Tile i contains pixel x.
Holds(i, x) == i \in DOMAIN positions /\ positions[i] <= x /\ x < positions[i] + tile

\* The ramps of tile i do not overlap.
Fading(i) == Region(i).before + Region(i).after <= Region(i).to - Region(i).from

\* Where two tiles meet alone, they are neighbours and their weights are
\* complementary fractions of one ramp.
LEMMA Seam ==
  ASSUME setting \in Settings, tile \in Nat, Placed, NEW x \in Nat, x < setting.length,
         NEW i \in DOMAIN positions, NEW j \in DOMAIN positions, i < j,
         Holds(i, x), Holds(j, x), \A k : Holds(k, x) => k \in {i, j},
         Fading(i), Fading(j)
  PROVE  \E a, b, d \in Int :
           a + b = d /\ Weight(Region(i), x) = <<a, d>> /\ Weight(Region(j), x) = <<b, d>>
  <1>1. PICK p \in Nat : p = positions[i]
    BY DEF Placed
  <1>2. PICK q \in Nat : q = positions[j]
    BY DEF Placed
  <1>3. PICK l \in Nat : l = setting.length
    BY SettingFields
  <1> DEFINE d == p + tile - q
  <1>4. positions \in Seq(Nat) /\ p < q /\ q + tile <= l /\ i \in Nat /\ j \in Nat
    BY <1>1, <1>2, <1>3, SMTT(30) DEF Placed
  <1>5. p <= x /\ x < p + tile /\ q <= x /\ x < q + tile
    BY <1>1, <1>2 DEF Holds
  <1>6. j = i + 1
    <2>1. CASE i + 1 < j
      <3>1. i + 1 \in DOMAIN positions
        BY <1>4, <2>1
      <3>2. p < positions[i + 1] /\ positions[i + 1] < q /\ positions[i + 1] \in Nat
        <4>1. \A m, n \in DOMAIN positions : m < n => positions[m] < positions[n]
          BY DEF Placed
        <4>2. i < i + 1 /\ i + 1 < j
          BY <1>4, <2>1
        <4>3. positions[i + 1] \in Nat
          BY <1>4, <3>1
        <4> QED
          BY <1>1, <1>2, <3>1, <4>1, <4>2, <4>3
      <3>3. Holds(i + 1, x)
        BY <1>4, <1>5, <3>1, <3>2, SMTT(30) DEF Holds
      <3>4. QED
        BY <1>4, <2>1, <3>3
    <2>2. QED
      BY <1>4, <2>1
  <1>7. d \in Nat \ {0}
    BY <1>4, <1>5
  <1>8. Region(i).from = p /\ Region(i).to = p + tile /\ Region(i).after = d
    <2>1. Least(l, p + tile) = p + tile
      BY <1>4, LeastMost
    <2>2. i < Len(positions) /\ positions[i + 1] = q
      BY <1>4, <1>6, <1>2
    <2>3. Most(0, p + tile - q) = d
      BY <1>7, LeastMost
    <2>4. Region(i).from = p /\ Region(i).to = p + tile
      BY <1>1, <1>3, <2>1, RegionFields
    <2>5. Region(i).after
            = Most(0, Least(setting.length, positions[i] + tile) - positions[i + 1])
      BY <2>2, RegionFields
    <2>6. Region(i).after = Most(0, Least(l, p + tile) - q)
      BY <1>1, <1>3, <2>2, <2>5
    <2> HIDE DEF d
    <2>7. QED
      BY <2>1, <2>3, <2>4, <2>6
  <1>9. Region(j).from = q /\ Region(j).to = q + tile /\ Region(j).before = d
    <2>1. Least(l, q + tile) = q + tile
      BY <1>4, LeastMost
    <2>2. j > 1 /\ positions[j - 1] = p
      BY <1>4, <1>6, <1>1
    <2>3. Most(0, p + tile - q) = d
      BY <1>7, LeastMost
    <2> HIDE DEF d
    <2>4. QED
      BY <1>2, <1>3, <2>1, <2>2, <2>3, RegionFields
  <1>10. Region(i).before \in Nat
    <2>1. CASE i > 1
      <3>1. PICK n \in Nat : n = positions[i - 1]
        BY <1>4, <2>1
      <3>2. Most(0, n + tile - p) \in Nat
        BY LeastMost
      <3>3. QED
        BY <1>1, <2>1, <3>1, <3>2, RegionFields
    <2>2. CASE ~(i > 1)
      BY <2>2, RegionFields
    <2>3. QED
      BY <2>1, <2>2
  <1>11. Region(j).after \in Nat
    <2>1. CASE j < Len(positions)
      <3>1. PICK n \in Nat : n = positions[j + 1]
        BY <1>4, <2>1
      <3>2. Least(l, q + tile) = q + tile
        BY <1>4, LeastMost
      <3>3. Most(0, q + tile - n) \in Nat
        BY LeastMost
      <3>4. Region(j).after
              = Most(0, Least(setting.length, positions[j] + tile) - positions[j + 1])
        BY <2>1, RegionFields
      <3>5. Region(j).after = Most(0, Least(l, q + tile) - n)
        BY <1>2, <1>3, <3>1, <3>4
      <3>6. QED
        BY <3>2, <3>3, <3>5
    <2>2. CASE ~(j < Len(positions))
      BY <2>2, RegionFields
    <2>3. QED
      BY <2>1, <2>2
  <1> DEFINE a == 2 * (p + tile - 1 - x) + 1
             b == 2 * (x - q) + 1
  <1>12. Weight(Region(i), x) = <<a, 2 * d>>
    <2>1. ~(x - Region(i).from < Region(i).before)
      BY <1>4, <1>5, <1>8, <1>10 DEF Fading
    <2>2. Region(i).to - 1 - x < Region(i).after
      BY <1>4, <1>5, <1>8
    <2>3. /\ Region(i).from \in Int /\ Region(i).to \in Int
          /\ Region(i).before \in Int /\ Region(i).after \in Int
      BY <1>4, <1>7, <1>8, <1>10
    <2>4. Weight(Region(i), x) = <<2 * (Region(i).to - 1 - x) + 1, 2 * Region(i).after>>
      BY <2>1, <2>2, <2>3, FallingWeight
    <2> HIDE DEF d
    <2>5. 2 * (p + tile - 1 - x) + 1 = a
      OBVIOUS
    <2> HIDE DEF a
    <2>6. QED
      BY <1>8, <2>4, <2>5
  <1>13. Weight(Region(j), x) = <<b, 2 * d>>
    <2>1. x - Region(j).from < Region(j).before
      BY <1>4, <1>5, <1>9
    <2>2. ~(Region(j).to - 1 - x < Region(j).after)
      BY <1>4, <1>5, <1>9, <1>11 DEF Fading
    <2>3. /\ Region(j).from \in Int /\ Region(j).to \in Int
          /\ Region(j).before \in Int /\ Region(j).after \in Int
      BY <1>4, <1>7, <1>9, <1>11
    <2>4. Weight(Region(j), x) = <<2 * (x - Region(j).from) + 1, 2 * Region(j).before>>
      BY <2>1, <2>2, <2>3, RisingWeight
    <2> HIDE DEF d
    <2>5. QED
      BY <1>9, <2>4
  <1>14. a \in Int /\ b \in Int /\ 2 * d \in Int /\ a + b = 2 * d
    BY <1>4, tile \in Nat
  <1>15. QED
    BY <1>12, <1>13, <1>14

\* Two tiles that alone hold a pixel: their weights sum to one, whichever of
\* them comes first.
LEMMA SeamSums ==
  ASSUME setting \in Settings, tile \in Nat, Placed, NEW x \in Nat, x < setting.length,
         NEW i \in DOMAIN positions, NEW j \in DOMAIN positions, i # j,
         Holds(i, x), Holds(j, x), \A k : Holds(k, x) => k \in {i, j},
         Fading(i), Fading(j)
  PROVE  Weight(Region(i), x)[1] * Weight(Region(j), x)[2]
           + Weight(Region(j), x)[1] * Weight(Region(i), x)[2]
         = Weight(Region(i), x)[2] * Weight(Region(j), x)[2]
  <1>1. \E a, b, d \in Int :
          a + b = d /\ Weight(Region(i), x) = <<a, d>> /\ Weight(Region(j), x) = <<b, d>>
    <2>1. CASE i < j
      BY <2>1, Seam
    <2>2. CASE j < i
      <3>1. \A k : Holds(k, x) => k \in {j, i}
        OBVIOUS
      <3>2. PICK a \in Int, b \in Int, d \in Int :
              a + b = d /\ Weight(Region(j), x) = <<a, d>> /\ Weight(Region(i), x) = <<b, d>>
        BY <2>2, <3>1, Seam
      <3>3. b + a = d
        BY <3>2
      <3>4. QED
        BY <3>2, <3>3
    <2>3. i \in Nat /\ j \in Nat
      BY DEF Placed
    <2>4. QED
      BY <2>1, <2>2, <2>3
  <1>2. PICK a \in Int, b \in Int, d \in Int :
          a + b = d /\ Weight(Region(i), x) = <<a, d>> /\ Weight(Region(j), x) = <<b, d>>
    BY <1>1
  <1>3. a * d + b * d = d * d
    BY <1>2, Complement
  <1>4. QED
    BY <1>2, <1>3

\* No two tiles at the same place.
LEMMA TilesAreDistinct ==
  ASSUME Placed, NEW S, S \subseteq DOMAIN positions
  PROVE  Cardinality({positions[i] : i \in S}) = Cardinality(S)
  <1> DEFINE T == {positions[i] : i \in S}
             f == [i \in S |-> positions[i]]
  <1>1. IsFiniteSet(S)
    <2>1. DOMAIN positions = 1 .. Len(positions) /\ Len(positions) \in Int
      BY DEF Placed
    <2>2. IsFiniteSet(1 .. Len(positions))
      BY <2>1, FS_Interval
    <2>3. QED
      BY <2>1, <2>2, FS_Subset
  <1>2. \A i, j \in S : positions[i] = positions[j] => i = j
    <2> SUFFICES ASSUME NEW i \in S, NEW j \in S, positions[i] = positions[j]
                 PROVE  i = j
      OBVIOUS
    <2>1. /\ i \in DOMAIN positions /\ j \in DOMAIN positions /\ i \in Nat /\ j \in Nat
          /\ positions[i] \in Nat /\ positions[j] \in Nat
      BY DEF Placed
    <2>2. ~(i < j) /\ ~(j < i)
      BY <2>1 DEF Placed
    <2>3. QED
      BY <2>1, <2>2
  <1>3. f \in Bijection(S, T)
    <2>1. f \in [S -> T] /\ \A a, b \in S : f[a] = f[b] => a = b
      BY <1>2
    <2>2. \A t \in T : \E s \in S : f[s] = t
      OBVIOUS
    <2> HIDE DEF f, T
    <2>3. QED
      BY <2>1, <2>2, Fun_IsBij
  <1>4. ExistsBijection(S, T)
    BY <1>3 DEF ExistsBijection
  <1> HIDE DEF T
  <1>5. Cardinality(T) = Cardinality(S)
    BY <1>1, <1>4, FS_Bijection
  <1>6. QED
    BY <1>5 DEF T

\* Every pixel is covered, by tiles at different positions, and where exactly
\* two tiles share it and their ramps do not overlap their weights sum to one.
THEOREM SeamsAreFades == TileSpec => []PixelsAreBlended
  <1>1. TileInv => PixelsAreBlended
    <2> SUFFICES ASSUME TileInv, phase = "enhance"
                 PROVE  PixelsAreBlended
      BY DEF PixelsAreBlended
    <2>1. /\ setting \in Settings /\ Placed /\ tile \in Nat /\ setting.length \in Nat
          /\ setting.length <= positions[Len(positions)] + tile
      BY SettingFields DEF TileInv, Selected
    <2>2. DOMAIN Regions = DOMAIN positions /\ \A i \in DOMAIN positions : Regions[i] = Region(i)
      BY DEF Regions
    <2>3. ASSUME NEW x \in 0 .. setting.length - 1
          PROVE  LET over == {i \in DOMAIN Regions : Regions[i].from <= x /\ x < Regions[i].to}
                     Fades(r) == r.before + r.after <= r.to - r.from
                 IN /\ over # {}
                    /\ Cardinality({positions[i] : i \in over}) = Cardinality(over)
                    /\ \A i, j \in over :
                         over = {i, j} /\ i # j /\ Fades(Regions[i]) /\ Fades(Regions[j]) =>
                           LET v == Weight(Regions[i], x)
                               w == Weight(Regions[j], x)
                           IN v[1] * w[2] + w[1] * v[2] = v[2] * w[2]
      <3> DEFINE over == {i \in DOMAIN Regions : Regions[i].from <= x /\ x < Regions[i].to}
      <3>1. x \in Nat /\ x < setting.length
        BY <2>1
      <3>2. \A i : i \in over <=> Holds(i, x)
        <4> SUFFICES ASSUME NEW i \in DOMAIN positions
                     PROVE  (Region(i).from <= x /\ x < Region(i).to)
                              <=> (positions[i] <= x /\ x < positions[i] + tile)
          BY <2>2 DEF Holds
        <4>1. positions[i] \in Nat
          BY <2>1 DEF Placed
        <4>2. Region(i).from = positions[i]
              /\ Region(i).to = Least(setting.length, positions[i] + tile)
          BY RegionFields
        <4>3. x < Least(setting.length, positions[i] + tile) <=> x < positions[i] + tile
          BY <2>1, <3>1, <4>1 DEF Least
        <4>4. QED
          BY <4>2, <4>3
      <3>3. over \subseteq DOMAIN positions
        BY <2>2
      <3> HIDE DEF over
      <3>4. over # {}
        <4>1. PICK last \in Nat : last = positions[Len(positions)]
          BY <2>1 DEF Placed
        <4>2. x < positions[Len(positions)] + tile
          BY <2>1, <3>1, <4>1
        <4>3. \E i \in DOMAIN positions : positions[i] <= x /\ x < positions[i] + tile
          BY <2>1, <3>1, <4>2 DEF Placed
        <4>4. QED
          BY <3>2, <4>3 DEF Holds
      <3>5. Cardinality({positions[i] : i \in over}) = Cardinality(over)
        BY <2>1, <3>3, TilesAreDistinct
      <3>6. ASSUME NEW i \in over, NEW j \in over, over = {i, j}, i # j,
                   Regions[i].before + Regions[i].after <= Regions[i].to - Regions[i].from,
                   Regions[j].before + Regions[j].after <= Regions[j].to - Regions[j].from
            PROVE  Weight(Regions[i], x)[1] * Weight(Regions[j], x)[2]
                     + Weight(Regions[j], x)[1] * Weight(Regions[i], x)[2]
                   = Weight(Regions[i], x)[2] * Weight(Regions[j], x)[2]
        <4>1. i \in DOMAIN positions /\ j \in DOMAIN positions
          BY <3>3
        <4>2. Regions[i] = Region(i) /\ Regions[j] = Region(j)
          BY <2>2, <4>1
        <4>3. Fading(i) /\ Fading(j)
          BY <3>6, <4>2 DEF Fading
        <4>4. Holds(i, x) /\ Holds(j, x) /\ \A k : Holds(k, x) => k \in {i, j}
          BY <3>2, <3>6
        <4>5. QED
          BY <2>1, <3>1, <3>6, <4>1, <4>2, <4>3, <4>4, SeamSums
      <3>7. QED
        BY <3>4, <3>5, <3>6 DEF over
    <2>4. QED
      BY <2>3 DEF PixelsAreBlended
  <1>2. QED
    BY <1>1, TileInvariance, PTL

-----------------------------------------------------------------------------
(***************************************************************************)
(* The timeline: what plan_timeline leaves behind.                         *)
(***************************************************************************)
Timed ==
  /\ stage = "probe" => source \in Sources /\ lead \in Leads
  /\ stage = "timed" =>
       /\ source \in Sources /\ lead \in Leads /\ UsableTiming(source) /\ timing.period \in Periods
       /\ timing.policy \in {"source_cfr", "normalize_cfr", "rife"}
       /\ timing.policy = "source_cfr" => IsCFR(source, timing.period)
       /\ output = OutputFrames(source, timing.policy, timing.period)
       /\ frames = Len(output)
  /\ stage \notin {"probe", "refused"} => frames \in Nat \ {0}

\* _ceil rounds up.
LEMMA CeilingFacts ==
  ASSUME NEW n \in Int, NEW d \in Nat \ {0}
  PROVE  /\ Ceiling(n, d) \in Int
         /\ n <= Ceiling(n, d) * d /\ (Ceiling(n, d) - 1) * d < n
         /\ n > 0 => Ceiling(n, d) \in Nat \ {0}
         /\ n >= 0 => Ceiling(n, d) \in Nat
  <1> PICK q \in Int : q = (-n) \div d
    BY Quotient
  <1>1. q * d <= -n /\ -n < (q + 1) * d
    BY Quotient, -n \in Int
  <1>2. Ceiling(n, d) = -q
    BY DEF Ceiling
  <1>3. (-q) * d = -(q * d) /\ (-q - 1) * d = -((q + 1) * d)
    OBVIOUS
  <1>4. q * d \in Int /\ (q + 1) * d \in Int
    OBVIOUS
  <1>5. n > 0 => q < 0
    <2>1. n > 0 => q * d < 0 * d
      BY <1>1, <1>4
    <2>2. QED
      BY <2>1, TimesKeepsOrder, 0 \in Int
  <1>6. n >= 0 => q <= 0
    <2>1. n >= 0 => q * d <= 0 * d
      BY <1>1, <1>4
    <2>2. QED
      BY <2>1, TimesKeepsOrder, 0 \in Int
  <1>7. QED
    BY <1>1, <1>2, <1>3, <1>4, <1>5, <1>6

\* Fields of a rate.
LEMMA RateFields ==
  ASSUME NEW p \in Rate
  PROVE  p[1] \in Nat \ {0} /\ p[2] \in Nat \ {0}
  BY DEF Rate

\* A usable source lasts some time, and all frames begin before it ends.
LEMMA DurationFacts ==
  ASSUME NEW src \in Seq(FrameTiming), UsableTiming(src)
  PROVE  /\ Duration(src) \in Nat \ {0} /\ Len(src) \in DOMAIN src
         /\ \A i \in DOMAIN src : src[i].pts - src[1].pts < Duration(src)
  <1>1. Len(src) \in DOMAIN src /\ 1 \in DOMAIN src
    BY DEF UsableTiming
  <1>2. ASSUME NEW i \in DOMAIN src PROVE src[i].pts <= src[Len(src)].pts
    <2>1. CASE i < Len(src)
      BY <1>1, <1>2, <2>1, TimestampsRise, FrameFields
    <2>2. CASE ~(i < Len(src))
      <3>1. i = Len(src)
        BY <1>1, <2>2
      <3>2. QED
        BY <1>1, <3>1, FrameFields
    <2>3. QED
      BY <2>1, <2>2
  <1>3. src[Len(src)].duration > 0
    BY <1>1 DEF UsableTiming
  <1>4. QED
    <2>1. \A i \in DOMAIN src : src[i].pts \in Int /\ src[i].duration \in Int
      BY FrameFields
    <2>2. QED
      BY <1>1, <1>2, <1>3, <2>1 DEF Duration

\* How many frames a timeline has.
LEMMA OutputLength ==
  ASSUME NEW src \in Seq(FrameTiming), UsableTiming(src), NEW p \in Rate, NEW policy
  PROVE  /\ Len(OutputFrames(src, policy, p)) \in Nat \ {0}
         /\ DOMAIN OutputFrames(src, policy, p) = 1 .. Len(OutputFrames(src, policy, p))
         /\ policy = "source_cfr" => Len(OutputFrames(src, policy, p)) = Len(src)
         /\ policy # "source_cfr"
              => Len(OutputFrames(src, policy, p)) = Ceiling(Duration(src) * p[2], p[1])
  <1>1. p[1] \in Nat \ {0} /\ p[2] \in Nat \ {0}
    BY RateFields
  <1>2. CASE policy = "source_cfr"
    <2>1. Len(src) \in Nat \ {0}
      BY DEF UsableTiming
    <2>2. QED
      BY <1>2, <2>1 DEF OutputFrames
  <1>3. CASE policy # "source_cfr"
    <2>1. PICK d \in Nat \ {0} : d = Duration(src)
      BY DurationFacts
    <2>2. d * p[2] \in Int /\ d * p[2] > 0
      BY <1>1
    <2>3. PICK count \in Nat \ {0} : count = Ceiling(Duration(src) * p[2], p[1])
      BY <1>1, <2>1, <2>2, CeilingFacts
    <2>4. OutputFrames(src, policy, p) =
            [i \in 1 .. count |-> NormalizedFrame(src, policy, p, i - 1)]
      BY <1>3, <2>3 DEF OutputFrames
    <2>5. QED
      BY <1>3, <2>3, <2>4
  <1>4. QED
    BY <1>2, <1>3

\* Every planning step but the first comes after the timeline and keeps it.
LEMMA AfterTimeline ==
  ASSUME PlanNext, ~PlanTimeline
  PROVE  /\ frames' = frames /\ stage \notin {"probe", "refused"}
         /\ stage' \notin {"probe", "timed"}
  BY DEF PlanNext, BeginScan, ScanFrame, DetectScene, PlanWindows, PlanInterpolation,
         BeginSamples, FillBin, BeginChunks, NextChunk

\* What plan_timeline establishes.
LEMMA TimelinePlanned ==
  ASSUME Timed, PlanTimeline
  PROVE  Timed'
  <1>1. /\ stage = "probe" /\ source \in Sources /\ source' = source
        /\ lead \in Leads /\ lead' = lead
    BY DEF Timed, PlanTimeline
  <1>2. PICK policy \in {"source_cfr", "normalize_cfr", "rife"}, p \in Periods :
          /\ timing' = [policy |-> policy, period |-> p]
          /\ IF /\ UsableTiming(source)
                /\ \A i \in DOMAIN source : source[i].repeats <= 0
                /\ policy = "source_cfr" => IsCFR(source, p)
             THEN /\ output' = OutputFrames(source, policy, p)
                  /\ frames' = Len(output') /\ stage' = "timed"
             ELSE stage' = "refused" /\ UNCHANGED <<output, frames>>
    BY DEF PlanTimeline
  <1>3. timing'.policy = policy /\ timing'.period = p
    BY <1>2
  <1>4. CASE stage' = "refused"
    BY <1>1, <1>4 DEF Timed
  <1>5. CASE stage' # "refused"
    <2>1. /\ UsableTiming(source)
          /\ policy = "source_cfr" => IsCFR(source, p)
          /\ output' = OutputFrames(source, policy, p)
          /\ frames' = Len(output') /\ stage' = "timed"
      BY <1>2, <1>5
    <2>2. source \in Seq(FrameTiming) /\ p \in Rate
      BY <1>1, PlannerAssumption
    <2>3. frames' \in Nat \ {0}
      BY <2>1, <2>2, OutputLength
    <2>4. QED
      BY <1>1, <1>3, <2>1, <2>3 DEF Timed
  <1>6. QED
    BY <1>4, <1>5

\* The timeline stays what plan_timeline made it, as long as it is used.
THEOREM TimelineInvariance == PlanSpec => []Timed
  <1>1. PlanInit => Timed
    BY DEF PlanInit, Timed
  <1>2. Timed /\ [PlanNext]_planVars => Timed'
    <2>1. ASSUME Timed, PlanNext, ~PlanTimeline PROVE Timed'
      BY <2>1, AfterTimeline DEF Timed
    <2>2. ASSUME Timed, UNCHANGED planVars PROVE Timed'
      <3>1. UNCHANGED <<stage, source, lead, timing, output, frames>>
        BY <2>2 DEF planVars, planning
      <3>2. QED
        BY <2>2, <3>1 DEF Timed
    <2>3. QED
      BY <2>1, <2>2, TimelinePlanned
  <1>3. QED
    BY <1>1, <1>2, PTL DEF PlanSpec

-----------------------------------------------------------------------------
(***************************************************************************)
(* Decoding: the fps filter against the plan.                              *)
(***************************************************************************)

\* The nearest multiple of a.
LEMMA NearestFacts ==
  ASSUME NEW x \in Int, NEW a \in Nat \ {0}
  PROVE  /\ Nearest(x, a) \in Int
         /\ Nearest(x, a) * (2 * a) <= 2 * x + a
         /\ 2 * x + a < (Nearest(x, a) + 1) * (2 * a)
         /\ x >= 0 => Nearest(x, a) \in Nat
  <1>1. 2 * x + a \in Int /\ 2 * a \in Nat \ {0}
    OBVIOUS
  <1>2. PICK q \in Int : q = Nearest(x, a) /\ q = (2 * x + a) \div (2 * a)
    BY <1>1, Quotient DEF Nearest
  <1>3. q * (2 * a) <= 2 * x + a /\ 2 * x + a < (q + 1) * (2 * a)
    BY <1>1, <1>2, Quotient
  <1>4. x >= 0 => q >= 0
    <2>1. q + 1 \in Int /\ (q + 1) * (2 * a) \in Int
      OBVIOUS
    <2>2. x >= 0 => 0 * (2 * a) < (q + 1) * (2 * a)
      BY <1>3, <2>1
    <2>3. x >= 0 => 0 < q + 1
      BY <1>1, <2>1, <2>2, TimesKeepsOrder, 0 \in Int
    <2>4. QED
      BY <2>3
  <1>5. QED
    BY <1>2, <1>3, <1>4

\* A slot is the k-th behind another, or a neighbour of that, and no neighbour
\* where the first, of period a, has time l well inside it.
SlotWithin(slot, k, first, l, a, b) ==
  /\ slot \in Int /\ first + k - 1 <= slot /\ slot <= first + k + 1
  /\ 2 * (l - first * a + b) < a /\ 2 * (b - (l - first * a)) < a => slot = first + k

\* A position within b of k periods of a behind l falls into slot k behind the
\* slot of l, or into a neighbour of it.
LEMMA NearbySlot ==
  ASSUME NEW a \in Nat \ {0}, NEW b \in Nat, b <= a, NEW l \in Nat, NEW x \in Int,
         NEW k \in Nat, AtMostOneTick(x - k * a, b)
  PROVE  SlotWithin(Nearest(l + x, a), k, Nearest(l, a), l, a, b)
  <1>1. PICK d \in Nat : /\ d = Nearest(l, a)
                         /\ d * (2 * a) <= 2 * l + a /\ 2 * l + a < (d + 1) * (2 * a)
    <2>1. l \in Int /\ l >= 0
      OBVIOUS
    <2>2. /\ Nearest(l, a) \in Nat
          /\ Nearest(l, a) * (2 * a) <= 2 * l + a
          /\ 2 * l + a < (Nearest(l, a) + 1) * (2 * a)
      BY <2>1, NearestFacts
    <2>3. QED
      BY <2>2
  <1>2. PICK q \in Int : /\ q = Nearest(l + x, a)
                         /\ q * (2 * a) <= 2 * (l + x) + a
                         /\ 2 * (l + x) + a < (q + 1) * (2 * a)
    BY NearestFacts, l + x \in Int
  <1>3. PICK c \in Nat \ {0} : c = 2 * a
    OBVIOUS
  <1>4. PICK w \in Int, y \in Int, v \in Int : w = d * a /\ y = k * a /\ v = q * c
    OBVIOUS
  <1>5. /\ d * c = 2 * w /\ (d + 1) * c = 2 * w + c /\ k * c = 2 * y /\ (q + 1) * c = v + c
    BY <1>3, <1>4
  <1>6. PICK m \in Int : m = d + k
    OBVIOUS
  <1>7. m * c = 2 * w + 2 * y
    <2>1. m * c = d * c + k * c
      BY <1>6
    <2>2. QED
      BY <1>5, <2>1
  <1>8. /\ (m - 1) * c = 2 * w + 2 * y - c /\ (m + 1) * c = 2 * w + 2 * y + c
        /\ (m + 2) * c = 2 * w + 2 * y + c + c
    <2>1. (m - 1) * c = m * c - c /\ (m + 1) * c = m * c + c /\ (m + 2) * c = m * c + c + c
      OBVIOUS
    <2>2. QED
      BY <1>7, <2>1
  <1>9. /\ -b <= x - y /\ x - y <= b /\ b <= a
    BY <1>4 DEF AtMostOneTick
  <1>10. 2 * w <= 2 * l + a /\ 2 * l + a < 2 * w + c
    BY <1>1, <1>3, <1>5
  <1>11. v <= 2 * (l + x) + a /\ 2 * (l + x) + a < v + c
    BY <1>2, <1>3, <1>4, <1>5
  <1>12. q < m + 2
    <2>1. v < 2 * w + 2 * y + c + c
      BY <1>3, <1>9, <1>10, <1>11
    <2>2. q * c < (m + 2) * c
      BY <1>4, <1>8, <2>1
    <2>3. QED
      BY <2>2, TimesKeepsOrder, m + 2 \in Int
  <1>13. m - 1 < q + 1
    <2>1. 2 * w + 2 * y - c < v + c
      BY <1>3, <1>9, <1>10, <1>11
    <2>2. (m - 1) * c < (q + 1) * c
      BY <1>5, <1>8, <2>1
    <2>3. QED
      BY <2>2, TimesKeepsOrder, m - 1 \in Int, q + 1 \in Int
  <1>14. ASSUME 2 * (l - w + b) < a, 2 * (b - (l - w)) < a PROVE q = m
    <2>1. 2 * w + 2 * y <= 2 * (l + x) + a /\ 2 * (l + x) + a < 2 * w + 2 * y + c
      BY <1>3, <1>9, <1>14
    <2>2. PICK z \in Int : z = 2 * (l + x) + a
      OBVIOUS
    <2>3. z \div c = m
      BY <1>7, <1>8, <2>1, <2>2, QuotientIs
    <2>4. QED
      BY <1>2, <1>3, <2>2, <2>3 DEF Nearest
  <1>15. q <= m + 1 /\ m - 1 <= q
    BY <1>12, <1>13
  <1>16. QED
    BY <1>1, <1>2, <1>4, <1>6, <1>14, <1>15 DEF SlotWithin

\* Frame i of an accepted CFR source is moved to slot i - 1 behind the delay,
\* or to a neighbour of it; and to no other where the period is steady.
LEMMA SlotOfFrame ==
  ASSUME NEW src \in Seq(FrameTiming), NEW p \in Rate, IsCFR(src, p), p[1] >= p[2],
         NEW late \in Nat, NEW i \in DOMAIN src
  PROVE  SlotWithin(Slot(src, late, i, p), i - 1, Nearest(late * p[2], p[1]),
                    late * p[2], p[1], p[2])
  <1>1. PICK a \in Nat \ {0}, b \in Nat \ {0} : a = p[1] /\ b = p[2] /\ b <= a
    BY RateFields
  <1>2. PICK k \in Nat : k = i - 1 /\ i \in Nat \ {0} /\ 1 \in DOMAIN src
    OBVIOUS
  <1>3. PICK x \in Int : x = Place(src, i, p)
    <2>1. src[i].pts \in Int /\ src[1].pts \in Int
      BY <1>2, FrameFields
    <2>2. QED
      BY <1>1, <2>1 DEF Place
  <1>4. AtMostOneTick(x - k * a, b)
    BY <1>1, <1>2, <1>3 DEF IsCFR, Place
  <1>5. PICK l \in Nat : l = late * b
    OBVIOUS
  <1>6. Slot(src, late, i, p) = Nearest(l + x, a)
    BY <1>1, <1>3, <1>5 DEF Slot
  <1>7. b \in Nat /\ b <= a
    BY <1>1
  <1>8. SlotWithin(Nearest(l + x, a), k, Nearest(l, a), l, a, b)
    BY <1>4, <1>7, NearbySlot
  <1>9. QED
    BY <1>1, <1>2, <1>5, <1>6, <1>8

\* What decoding shows for an output frame: a frame whose slot has come, or
\* the first, and none that is later has a slot that has come.
LEMMA DecodedFacts ==
  ASSUME NEW src \in Seq(FrameTiming), src # <<>>, NEW p \in Rate, NEW late, NEW n
  PROVE  /\ Decoded(src, late, p, n) \in DOMAIN src
         /\ Decoded(src, late, p, n) = 1 \/ Slot(src, late, Decoded(src, late, p, n), p) <= n
         /\ \A i \in DOMAIN src : Slot(src, late, i, p) <= n => i <= Decoded(src, late, p, n)
  <1>1. PICK count \in Nat \ {0} : DOMAIN src = 1 .. count
    OBVIOUS
  <1> DEFINE shown == {1} \cup {i \in DOMAIN src : Slot(src, late, i, p) <= n}
  <1>2. shown \subseteq 1 .. count /\ shown # {}
    BY <1>1
  <1>3. Max(shown) \in shown /\ \A i \in shown : i <= Max(shown)
    BY <1>1, <1>2, MaxOf
  <1>4. Decoded(src, late, p, n) = Max(shown)
    BY DEF Decoded
  <1>5. QED
    BY <1>1, <1>2, <1>3, <1>4

\* A source frame that plan_timeline shows has begun.
LEMMA NormalizedHasBegun ==
  ASSUME NEW src \in Seq(FrameTiming), src # <<>>, NEW p \in Rate, NEW policy, NEW n \in Nat
  PROVE  /\ NormalizedFrame(src, policy, p, n).left \in DOMAIN src
         /\ Place(src, NormalizedFrame(src, policy, p, n).left, p) <= n * p[1]
  <1>1. PICK count \in Nat \ {0} : DOMAIN src = 1 .. count
    OBVIOUS
  <1>2. PICK a \in Nat \ {0}, b \in Nat \ {0} : a = p[1] /\ b = p[2]
    BY RateFields
  <1> DEFINE begun == {1} \cup {i \in DOMAIN src : Place(src, i, p) <= n * p[1]}
  <1>3. begun \subseteq 1 .. count /\ begun # {}
    BY <1>1
  <1>4. Max(begun) \in begun
    BY <1>1, <1>3, MaxOf
  <1>5. Shown(src, p, n * p[1]) = Max(begun)
    BY DEF Shown
  <1>6. Place(src, 1, p) = 0 /\ 0 <= n * p[1]
    <2>1. src[1].pts \in Int
      BY <1>1, FrameFields
    <2>2. QED
      BY <1>2, <2>1 DEF Place
  <1>7. NormalizedFrame(src, policy, p, n).left = Shown(src, p, n * p[1])
    BY DEF NormalizedFrame
  <1>8. QED
    BY <1>1, <1>3, <1>4, <1>5, <1>6, <1>7

\* An accepted CFR source is decoded as planned behind the delay by which it
\* begins later than its container, to one frame for every jitter that
\* _require_cfr accepts and exactly where a period is steady; a normalized one
\* is decoded between its plan and half an output frame before it: for every
\* number of frames, lead, rate and time.
THEOREM DecodingFollowsPlan == PlanSpec => []DecodedAsPlanned
  <1>1. ASSUME Timed, stage = "timed" PROVE DecodedAsPlanned
    <2>1. PICK p \in Rate : p = timing.period
      BY <1>1, PlannerAssumption DEF Timed
    <2>2. /\ source \in Seq(FrameTiming) /\ source # <<>> /\ lead \in Nat
          /\ timing.policy = "source_cfr" => IsCFR(source, p)
          /\ output = OutputFrames(source, timing.policy, p)
      BY <1>1, <2>1, PlannerAssumption DEF Timed, UsableTiming
    <2>3. PICK a \in Nat \ {0}, b \in Nat \ {0} : a = p[1] /\ b = p[2]
      BY RateFields
    <2> DEFINE decoded(n) == Decoded(source, lead, p, n - 1)
    <2>4. ASSUME timing.policy = "source_cfr", a >= b, NEW n \in DOMAIN output
          PROVE  LET delayed == output[Larger(1, n - Delay(p))].left
                 IN /\ delayed - 1 <= decoded(n) /\ decoded(n) <= delayed + 1
                    /\ Steady(p) => decoded(n) = delayed
      <3>1. PICK delay \in Nat : delay = Nearest(lead * b, a)
        <4>1. PICK l \in Int : l = lead * b /\ l >= 0
          BY <2>2
        <4>2. Nearest(l, a) \in Nat
          BY <4>1, NearestFacts
        <4>3. QED
          BY <4>1, <4>2
      <3>2. PICK count \in Nat \ {0} : DOMAIN source = 1 .. count
        BY <2>2
      <3>3. /\ DOMAIN output = 1 .. count
            /\ \A i \in 1 .. count : output[i].left = i
        BY <2>2, <2>4, <3>2 DEF OutputFrames
      <3>4. PICK t \in 1 .. count :
              /\ t = Larger(1, n - delay) /\ n - delay <= t
              /\ t = 1 \/ t = n - delay
        BY <3>2, <3>3 DEF Larger
      <3>5. output[Larger(1, n - Delay(p))].left = t
        BY <2>3, <3>1, <3>3, <3>4 DEF Delay
      <3>6. PICK m \in 1 .. count :
              /\ m = decoded(n)
              /\ m = 1 \/ Slot(source, lead, m, p) <= n - 1
              /\ \A i \in 1 .. count : Slot(source, lead, i, p) <= n - 1 => i <= m
        BY <2>2, <3>2, DecodedFacts
      <3>7. \A i \in 1 .. count :
              /\ Slot(source, lead, i, p) \in Int
              /\ delay + i - 2 <= Slot(source, lead, i, p)
              /\ Slot(source, lead, i, p) <= delay + i
              /\ Steady(p) => Slot(source, lead, i, p) = delay + i - 1
        <4> SUFFICES ASSUME NEW i \in 1 .. count
                     PROVE  /\ Slot(source, lead, i, p) \in Int
                            /\ delay + i - 2 <= Slot(source, lead, i, p)
                            /\ Slot(source, lead, i, p) <= delay + i
                            /\ Steady(p) => Slot(source, lead, i, p) = delay + i - 1
          OBVIOUS
        <4>1. IsCFR(source, p) /\ p[1] >= p[2] /\ i \in DOMAIN source
          BY <2>2, <2>3, <2>4, <3>2
        <4>2. Delay(p) = delay
          BY <2>3, <3>1 DEF Delay
        <4>3. PICK slot, k : slot = Slot(source, lead, i, p) /\ k = i - 1
          OBVIOUS
        <4>4. SlotWithin(slot, k, Nearest(lead * p[2], p[1]), lead * p[2], p[1], p[2])
          BY <2>2, <4>1, <4>3, SlotOfFrame
        <4>5. SlotWithin(slot, k, delay, lead * p[2], p[1], p[2])
          BY <2>3, <3>1, <4>4
        <4>6. slot \in Int /\ delay + k - 1 <= slot /\ slot <= delay + k + 1
          BY <4>5 DEF SlotWithin
        <4>7. Steady(p) => slot = delay + k
          BY <4>2, <4>5 DEF SlotWithin, Steady
        <4>8. k \in Nat /\ delay + k - 1 = delay + i - 2 /\ delay + k + 1 = delay + i
              /\ delay + k = delay + i - 1
          BY <4>3
        <4>9. QED
          BY <4>3, <4>6, <4>7, <4>8
      <3>8. m <= t + 1 /\ (Steady(p) => m <= t)
        <4>1. CASE m = 1
          BY <3>4, <4>1
        <4>2. CASE m # 1
          <5>1. PICK s \in Int : /\ s = Slot(source, lead, m, p) /\ s <= n - 1
                                 /\ delay + m - 2 <= s
                                 /\ Steady(p) => s = delay + m - 1
            BY <3>6, <3>7, <4>2
          <5>2. n \in Nat /\ n - delay <= t
            BY <3>3, <3>4
          <5>3. m <= t + 1
            BY <5>1, <5>2
          <5>4. ASSUME Steady(p) PROVE m <= t
            BY <5>1, <5>2, <5>4
          <5>5. QED
            BY <5>3, <5>4
        <4>3. QED
          BY <4>1, <4>2
      <3>9. t - 1 <= m
        <4>1. CASE t <= 2
          BY <4>1
        <4>2. CASE ~(t <= 2)
          <5>1. t - 1 \in 1 .. count /\ delay + (t - 1) = n - 1
            BY <3>3, <3>4, <4>2
          <5>2. Slot(source, lead, t - 1, p) <= n - 1
            BY <3>7, <5>1
          <5>3. QED
            BY <3>6, <5>1, <5>2
        <4>3. QED
          BY <4>1, <4>2
      <3>10. Steady(p) => t <= m
        <4>1. CASE t = 1
          BY <4>1
        <4>2. CASE t # 1
          <5>1. t = n - delay /\ n \in Nat
            BY <3>3, <3>4, <4>2
          <5>2. Steady(p) => Slot(source, lead, t, p) <= n - 1
            BY <3>7, <5>1
          <5>3. QED
            BY <3>6, <5>2
        <4>3. QED
          BY <4>1, <4>2
      <3> HIDE DEF decoded
      <3>11. QED
        BY <3>5, <3>6, <3>8, <3>9, <3>10
    <2>5. ASSUME timing.policy = "normalize_cfr", lead = 0, NEW n \in DOMAIN output
          PROVE  /\ output[n].left <= decoded(n)
                 /\ 2 * Place(source, decoded(n), p) < (2 * n - 1) * p[1]
      <3>1. n \in Nat \ {0} /\ output[n] = NormalizedFrame(source, timing.policy, p, n - 1)
        <4>1. output = [i \in 1 .. Ceiling(Duration(source) * p[2], p[1]) |->
                          NormalizedFrame(source, timing.policy, p, i - 1)]
          BY <2>2, <2>5 DEF OutputFrames
        <4>2. QED
          BY <4>1
      <3>2. PICK l \in DOMAIN source : /\ l = output[n].left
                                       /\ Place(source, l, p) <= (n - 1) * p[1]
        <4>1. n - 1 \in Nat
          BY <3>1
        <4>2. QED
          BY <2>2, <3>1, <4>1, NormalizedHasBegun
      <3>3. PICK m \in DOMAIN source :
              /\ m = decoded(n)
              /\ m = 1 \/ Slot(source, lead, m, p) <= n - 1
              /\ \A i \in DOMAIN source : Slot(source, lead, i, p) <= n - 1 => i <= m
        BY <2>2, DecodedFacts
      <3>4. ASSUME NEW i \in DOMAIN source
            PROVE  /\ Place(source, i, p) \in Int
                   /\ Slot(source, lead, i, p) \in Int
                   /\ Slot(source, lead, i, p) <= n - 1
                        <=> 2 * Place(source, i, p) < (2 * n - 1) * a
        <4>1. PICK x \in Int : x = Place(source, i, p)
          <5>1. i \in DOMAIN source /\ 1 \in DOMAIN source
            BY <2>2
          <5>2. source[i].pts \in Int /\ source[1].pts \in Int
            BY <2>2, <5>1, FrameFields
          <5>3. QED
            BY <2>3, <5>2 DEF Place
        <4>2. PICK q \in Int : /\ q = Slot(source, lead, i, p)
                               /\ q * (2 * a) <= 2 * x + a
                               /\ 2 * x + a < (q + 1) * (2 * a)
          <5>1. Slot(source, lead, i, p) = Nearest(x, a)
            BY <2>3, <2>5, <4>1 DEF Slot
          <5>2. QED
            BY <5>1, NearestFacts
        <4>3. PICK w \in Int : w = n * (2 * a) /\ (2 * n - 1) * a = w - a
          BY <3>1
        <4>4. 2 * a \in Nat \ {0} /\ n \in Int /\ q + 1 \in Int
          BY <3>1
        <4>5. q <= n - 1 => 2 * x + a < w
          <5>1. q + 1 <= n => (q + 1) * (2 * a) <= n * (2 * a)
            BY <4>4, TimesKeepsOrder
          <5>2. (q + 1) * (2 * a) \in Int
            OBVIOUS
          <5>3. QED
            BY <3>1, <4>2, <4>3, <5>1, <5>2
        <4>6. 2 * x + a < w => q <= n - 1
          <5>1. q * (2 * a) < n * (2 * a) => q < n
            BY <4>4, TimesKeepsOrder
          <5>2. q * (2 * a) \in Int
            OBVIOUS
          <5>3. QED
            BY <3>1, <4>2, <4>3, <5>1, <5>2
        <4>7. QED
          BY <4>1, <4>2, <4>3, <4>5, <4>6
      <3>5. 2 * Place(source, l, p) < (2 * n - 1) * a
        <4>1. PICK u \in Int : u = (n - 1) * a /\ (2 * n - 1) * a = 2 * u + a
          BY <3>1
        <4>2. QED
          BY <2>3, <3>2, <3>4, <4>1
      <3>6. 2 * Place(source, 1, p) < (2 * n - 1) * a
        <4>1. 1 \in DOMAIN source
          BY <2>2
        <4>2. Place(source, 1, p) = 0
          <5>1. source[1].pts \in Int
            BY <2>2, <4>1, FrameFields
          <5>2. QED
            BY <2>3, <5>1 DEF Place
        <4>3. 2 * n - 1 \in Nat \ {0}
          BY <3>1
        <4>4. (2 * n - 1) * a > 0
          <5>1. PICK k \in Nat \ {0} : k = 2 * n - 1
            BY <4>3
          <5>2. k * a > 0
            OBVIOUS
          <5>3. QED
            BY <5>1, <5>2
        <4>5. QED
          BY <4>2, <4>4
      <3> HIDE DEF decoded
      <3>7. QED
        BY <2>3, <3>2, <3>3, <3>4, <3>5, <3>6
    <2>6. QED
      BY <2>1, <2>3, <2>4, <2>5 DEF DecodedAsPlanned
  <1>2. Timed => DecodedAsPlanned
    BY <1>1 DEF DecodedAsPlanned
  <1>3. QED
    BY <1>2, TimelineInvariance, PTL

-----------------------------------------------------------------------------
(***************************************************************************)
(* Normalized timelines.                                                   *)
(***************************************************************************)

\* When source frame i begins, in units of 1/p[2] ticks after the first; one
\* frame after the last stands for the end.
Begins(src, p, i) == IF i = Len(src) + 1 THEN Duration(src) * p[2] ELSE Place(src, i, p)

\* Frames begin at numbers that rise from zero.
LEMMA PlacesRise ==
  ASSUME NEW src \in Seq(FrameTiming), UsableTiming(src), NEW p \in Rate
  PROVE  /\ Begins(src, p, 1) = 0 /\ Begins(src, p, Len(src) + 1) > 0
         /\ \A i \in 1 .. Len(src) + 1 : Begins(src, p, i) \in Nat
         /\ \A i, j \in 1 .. Len(src) + 1 : i < j => Begins(src, p, i) < Begins(src, p, j)
  <1>1. PICK b \in Nat \ {0} : b = p[2]
    BY RateFields
  <1>2. PICK n \in Nat \ {0} : n = Len(src) /\ DOMAIN src = 1 .. n
    BY DEF UsableTiming
  <1>3. PICK d \in Nat \ {0} : d = Duration(src)
    BY DurationFacts
  <1> DEFINE t == [i \in 1 .. n + 1 |-> IF i = n + 1 THEN d ELSE src[i].pts - src[1].pts]
  <1>4. \A i \in 1 .. n : src[i].pts \in Int
    BY <1>2, FrameFields
  <1>5. \A i \in 1 .. n + 1 : t[i] \in Int /\ Begins(src, p, i) = t[i] * b
    BY <1>1, <1>2, <1>3, <1>4 DEF Begins, Place
  <1>6. t[1] = 0
    BY <1>2, <1>4
  <1>7. \A i, j \in 1 .. n + 1 : i < j => t[i] < t[j]
    <2> SUFFICES ASSUME NEW i \in 1 .. n + 1, NEW j \in 1 .. n + 1, i < j PROVE t[i] < t[j]
      OBVIOUS
    <2>1. i \in 1 .. n
      BY <1>2
    <2>2. CASE j = n + 1
      BY <1>2, <1>3, <1>4, <2>1, <2>2, DurationFacts
    <2>3. CASE j # n + 1
      <3>1. j \in 1 .. n
        BY <1>2, <2>3
      <3>2. src[i].pts < src[j].pts
        BY <1>2, <2>1, <3>1, TimestampsRise
      <3>3. QED
        BY <1>2, <1>4, <2>1, <3>1, <3>2
    <2>4. QED
      BY <2>2, <2>3
  <1> HIDE DEF t
  <1>8. ASSUME NEW i \in 1 .. n + 1, NEW j \in 1 .. n + 1, i < j
        PROVE  Begins(src, p, i) < Begins(src, p, j)
    <2>1. t[i] < t[j] /\ t[i] \in Int /\ t[j] \in Int
      BY <1>5, <1>7, <1>8
    <2>2. t[i] * b < t[j] * b
      BY <2>1, TimesKeepsOrder
    <2>3. QED
      BY <1>5, <2>2
  <1>9. 1 \in 1 .. n + 1 /\ n + 1 \in 1 .. n + 1 /\ 1 < n + 1
    BY <1>2
  <1>10. Begins(src, p, 1) = 0
    BY <1>5, <1>6, <1>9
  <1>11. ASSUME NEW i \in 1 .. n + 1 PROVE Begins(src, p, i) \in Nat
    <2>1. Begins(src, p, i) \in Int
      BY <1>5
    <2>2. CASE i = 1
      BY <1>10, <2>2
    <2>3. CASE i # 1
      <3>1. 1 < i
        BY <2>3
      <3>2. QED
        BY <1>8, <1>9, <1>10, <2>1, <3>1
    <2>4. QED
      BY <2>2, <2>3
  <1>12. QED
    BY <1>2, <1>8, <1>9, <1>10, <1>11

\* The frame shown at a position has begun, and the next has not.
LEMMA ShownFacts ==
  ASSUME NEW src \in Seq(FrameTiming), UsableTiming(src), NEW p \in Rate,
         NEW position \in Nat, position < Begins(src, p, Len(src) + 1)
  PROVE  /\ Shown(src, p, position) \in DOMAIN src
         /\ Begins(src, p, Shown(src, p, position)) <= position
         /\ position < Begins(src, p, Shown(src, p, position) + 1)
  <1>1. PICK n \in Nat \ {0} : n = Len(src) /\ DOMAIN src = 1 .. n
    BY SourceLength
  <1> DEFINE begun == {1} \cup {i \in DOMAIN src : Place(src, i, p) <= position}
  <1>2. \A i \in 1 .. n : Place(src, i, p) = Begins(src, p, i) /\ Begins(src, p, i) \in Nat
    BY <1>1, PlacesRise DEF Begins
  <1>3. begun = {i \in 1 .. n : Begins(src, p, i) <= position}
    BY <1>1, <1>2, PlacesRise
  <1>4. begun \subseteq 1 .. n /\ 1 \in begun
    BY <1>1
  <1> HIDE DEF begun
  <1>5. PICK m \in begun : m = Max(begun) /\ \A i \in begun : i <= m
    BY <1>1, <1>4, MaxOf
  <1>6. Shown(src, p, position) = m
    BY <1>5 DEF Shown, begun
  <1>7. m \in 1 .. n /\ Begins(src, p, m) <= position
    BY <1>3, <1>5
  <1>8. position < Begins(src, p, m + 1)
    <2>1. CASE m = n
      BY <1>1, <2>1
    <2>2. CASE m # n
      <3>1. m + 1 \in 1 .. n /\ m + 1 \notin begun
        BY <1>1, <1>5, <1>7, <2>2
      <3>2. QED
        BY <1>2, <1>3, <3>1
    <2>3. QED
      BY <2>1, <2>2
  <1>9. QED
    BY <1>1, <1>6, <1>7, <1>8

\* It is the only frame of which that is true.
LEMMA ShownIs ==
  ASSUME NEW src \in Seq(FrameTiming), UsableTiming(src), NEW p \in Rate,
         NEW position \in Nat, position < Begins(src, p, Len(src) + 1),
         NEW i \in DOMAIN src, Begins(src, p, i) <= position,
         position < Begins(src, p, i + 1)
  PROVE  Shown(src, p, position) = i
  <1>1. PICK n \in Nat \ {0} : n = Len(src) /\ DOMAIN src = 1 .. n
    BY SourceLength
  <1>2. PICK m \in 1 .. n : /\ m = Shown(src, p, position)
                            /\ Begins(src, p, m) <= position
                            /\ position < Begins(src, p, m + 1)
    BY <1>1, ShownFacts
  <1>3. \A k \in 1 .. n + 1 : Begins(src, p, k) \in Nat
    BY <1>1, PlacesRise
  <1>4. \A k, l \in 1 .. n + 1 : k < l => Begins(src, p, k) < Begins(src, p, l)
    BY <1>1, PlacesRise
  <1>5. ~(m < i)
    <2> SUFFICES ASSUME m < i PROVE FALSE
      OBVIOUS
    <2>1. m + 1 \in 1 .. n + 1 /\ i \in 1 .. n + 1 /\ (m + 1 < i \/ m + 1 = i)
      BY <1>1
    <2>2. Begins(src, p, m + 1) <= Begins(src, p, i)
      BY <1>3, <1>4, <2>1
    <2>3. QED
      BY <1>2, <1>3, <2>1, <2>2, SMTT(30)
  <1>6. ~(i < m)
    <2> SUFFICES ASSUME i < m PROVE FALSE
      OBVIOUS
    <2>1. i + 1 \in 1 .. n + 1 /\ m \in 1 .. n + 1 /\ (i + 1 < m \/ i + 1 = m)
      BY <1>1
    <2>2. Begins(src, p, i + 1) <= Begins(src, p, m)
      BY <1>3, <1>4, <2>1
    <2>3. QED
      BY <1>2, <1>3, <2>1, <2>2, SMTT(30)
  <1>7. QED
    BY <1>1, <1>2, <1>5, <1>6

\* What one pass of _normalized_frames makes of a position inside the source.
LEMMA NormalizedFacts ==
  ASSUME NEW src \in Seq(FrameTiming), UsableTiming(src), NEW p \in Rate, NEW policy,
         NEW n \in Nat, n * p[1] < Begins(src, p, Len(src) + 1)
  PROVE  /\ NormalizedFrame(src, policy, p, n).left = Shown(src, p, n * p[1])
         /\ NormalizedFrame(src, policy, p, n).right # NormalizedFrame(src, policy, p, n).left =>
              /\ 0 < NormalizedFrame(src, policy, p, n).offset
              /\ NormalizedFrame(src, policy, p, n).offset
                   < NormalizedFrame(src, policy, p, n).span
  <1> DEFINE f == NormalizedFrame(src, policy, p, n)
  <1>1. PICK a \in Nat \ {0}, b \in Nat \ {0} : a = p[1] /\ b = p[2]
    BY RateFields
  <1>2. PICK position \in Nat : position = n * p[1]
    BY <1>1
  <1>3. PICK left \in DOMAIN src : /\ left = Shown(src, p, n * p[1])
                                   /\ Begins(src, p, left) <= position
                                   /\ position < Begins(src, p, left + 1)
    BY <1>2, ShownFacts
  <1>4. f.left = left
    BY <1>3 DEF NormalizedFrame
  <1>5. ASSUME f.right # f.left PROVE 0 < f.offset /\ f.offset < f.span
    <2>1. /\ n * p[1] - Place(src, left, p) # 0 /\ left < Len(src)
          /\ f.offset = n * p[1] - Place(src, left, p)
          /\ f.span = (src[left + 1].pts - src[left].pts) * p[2]
      BY <1>3, <1>5 DEF NormalizedFrame
    <2>2. left \in Nat \ {0} /\ left + 1 \in DOMAIN src /\ 1 \in DOMAIN src
      BY <2>1
    <2>3. PICK x \in Int, y \in Int, z \in Int :
            x = src[1].pts /\ y = src[left].pts /\ z = src[left + 1].pts
      BY <2>2, FrameFields
    <2>4. /\ Place(src, left, p) = (y - x) * b
          /\ Begins(src, p, left) = (y - x) * b /\ Begins(src, p, left + 1) = (z - x) * b
      <3>1. Place(src, left, p) = (y - x) * b /\ Place(src, left + 1, p) = (z - x) * b
        BY <1>1, <2>3 DEF Place
      <3>2. left # Len(src) + 1 /\ left + 1 # Len(src) + 1
        BY <2>1, <2>2
      <3>3. QED
        BY <3>1, <3>2 DEF Begins
    <2>5. PICK u \in Int, v \in Int : u = (y - x) * b /\ v = (z - x) * b
      OBVIOUS
    <2>6. (z - y) * b = v - u
      BY <2>5
    <2>7. f.offset = position - u /\ position - u # 0 /\ f.span = v - u
      BY <1>1, <1>2, <2>1, <2>3, <2>4, <2>5, <2>6
    <2>8. u <= position /\ position < v
      BY <1>3, <2>4, <2>5
    <2> HIDE DEF f
    <2>9. QED
      BY <2>7, <2>8
  <1>6. QED
    BY <1>3, <1>4, <1>5

\* A normalized timeline is as long as the source to less than a frame, shows
\* each source frame from its time until the next one's, loses none that lasts
\* a whole output frame and interpolates strictly between neighbours: for all
\* timestamps, durations, rates and numbers of frames.
THEOREM NormalizedFollowsClock == PlanSpec => []TimelineFollowsClock
  <1>1. Timed => TimelineFollowsClock
    <2> SUFFICES ASSUME Timed, stage = "timed", timing.policy # "source_cfr"
                 PROVE  TimelineFollowsClock
      BY DEF TimelineFollowsClock
    <2> DEFINE p == timing.period
               n == Len(source)
               lasts == Duration(source) * p[2]
    <2>1. /\ source \in Seq(FrameTiming) /\ p \in Rate /\ UsableTiming(source)
          /\ output = OutputFrames(source, timing.policy, p) /\ frames = Len(output)
          /\ frames \in Nat \ {0}
      BY PlannerAssumption DEF Timed
    <2>2. PICK a \in Nat \ {0} : a = p[1]
      BY <2>1, RateFields
    <2>3. n \in Nat \ {0} /\ DOMAIN source = 1 .. n
      BY <2>1 DEF UsableTiming
    <2>4. lasts \in Nat /\ lasts = Begins(source, p, n + 1)
      <3>1. lasts = Begins(source, p, n + 1)
        BY DEF Begins
      <3>2. n + 1 \in 1 .. n + 1
        BY <2>3
      <3> HIDE DEF p, lasts
      <3>3. \A i \in 1 .. Len(source) + 1 : Begins(source, p, i) \in Nat
        BY <2>1, PlacesRise
      <3>4. QED
        BY <3>1, <3>2, <3>3
    <2>5. DOMAIN output = 1 .. frames /\ frames = Ceiling(lasts, a)
      BY <2>1, <2>2, OutputLength
    <2>6. (frames - 1) * a < lasts /\ lasts <= frames * a
      <3>1. PICK t \in Nat : t = lasts
        BY <2>4
      <3>2. t <= Ceiling(t, a) * a /\ (Ceiling(t, a) - 1) * a < t
        BY CeilingFacts
      <3>3. QED
        BY <2>5, <3>1, <3>2
    <2>7. \A i \in 1 .. n : Begins(source, p, i) = Place(source, i, p)
      BY <2>3 DEF Begins
    <2>8. \A i \in 1 .. n + 1 : Begins(source, p, i) \in Nat
      BY <2>1, <2>3, PlacesRise
    <2>9. \A k \in 1 .. frames : output[k] = NormalizedFrame(source, timing.policy, p, k - 1)
      BY <2>1, <2>2, <2>5 DEF OutputFrames
    <2> HIDE DEF p, n, lasts
    <2>10. \A k \in Nat : k < frames => k * a \in Nat /\ k * a < lasts
      <3> SUFFICES ASSUME NEW k \in Nat, k < frames PROVE k * a \in Nat /\ k * a < lasts
        OBVIOUS
      <3>1. k <= frames - 1 /\ frames - 1 \in Int
        BY <2>1
      <3>2. k * a <= (frames - 1) * a /\ k * a \in Nat /\ (frames - 1) * a \in Int
        BY <3>1, TimesKeepsOrder
      <3>3. QED
        BY <2>4, <2>6, <3>2
    <2>11. ASSUME NEW k \in 1 .. frames
           PROVE  /\ Begins(source, p, output[k].left) <= (k - 1) * a
                  /\ (k - 1) * a < Begins(source, p, output[k].left + 1)
                  /\ output[k].left \in 1 .. n
                  /\ output[k].left = Shown(source, p, (k - 1) * a)
                  /\ output[k].right # output[k].left =>
                       0 < output[k].offset /\ output[k].offset < output[k].span
      <3>1. k - 1 \in Nat /\ (k - 1) * a \in Nat /\ (k - 1) * a < lasts
        <4>1. k - 1 \in Nat /\ k - 1 < frames
          BY <2>1
        <4>2. QED
          BY <2>10, <4>1
      <3>2. (k - 1) * p[1] \in Nat /\ (k - 1) * p[1] < Begins(source, p, Len(source) + 1)
        BY <2>2, <2>4, <3>1 DEF n
      <3>3. /\ output[k].left = Shown(source, p, (k - 1) * p[1])
            /\ output[k].right # output[k].left =>
                 0 < output[k].offset /\ output[k].offset < output[k].span
        BY <2>1, <2>9, <3>1, <3>2, NormalizedFacts
      <3>4. /\ Shown(source, p, (k - 1) * p[1]) \in DOMAIN source
            /\ Begins(source, p, Shown(source, p, (k - 1) * p[1])) <= (k - 1) * p[1]
            /\ (k - 1) * p[1] < Begins(source, p, Shown(source, p, (k - 1) * p[1]) + 1)
        BY <2>1, <3>2, ShownFacts
      <3>5. QED
        BY <2>2, <2>3, <3>3, <3>4
    <2>12. ASSUME NEW i \in 1 .. n, Begins(source, p, i + 1) - Begins(source, p, i) >= a
           PROVE  \E k \in 1 .. frames : output[k].left = i
      <3>1. PICK x \in Nat, y \in Nat : x = Begins(source, p, i) /\ y = Begins(source, p, i + 1)
        BY <2>3, <2>8
      <3>2. y <= lasts
        <4>1. CASE i = n
          BY <2>4, <3>1, <4>1
        <4>2. CASE i # n
          <5>1. i + 1 \in 1 .. n + 1 /\ n + 1 \in 1 .. n + 1 /\ i + 1 < n + 1
            BY <2>3, <4>2
          <5>2. y < lasts
            BY <2>1, <2>4, <3>1, <5>1, PlacesRise DEF n
          <5>3. QED
            BY <2>4, <5>2
        <4>3. QED
          BY <4>1, <4>2
      <3>3. PICK k \in Nat : k = Ceiling(x, a)
        BY CeilingFacts
      <3>4. x <= k * a /\ (k - 1) * a < x
        BY <3>3, CeilingFacts
      <3>5. k * a < y
        <4>1. (k - 1) * a = k * a - a /\ k * a \in Int
          OBVIOUS
        <4>2. QED
          BY <2>12, <3>1, <3>4, <4>1
      <3>6. k * a < frames * a /\ k * a \in Nat /\ k * a < lasts
        BY <2>1, <2>4, <2>6, <3>2, <3>5
      <3>7. k < frames
        BY <2>1, <3>6, TimesKeepsOrder
      <3>8. Shown(source, p, k * a) = i
        BY <2>1, <2>3, <2>4, <3>1, <3>4, <3>5, <3>6, ShownIs DEF n
      <3>9. k + 1 \in 1 .. frames /\ (k + 1) - 1 = k
        BY <2>1, <3>7
      <3>10. QED
        BY <2>11, <3>8, <3>9
    <2>13. QED
      <3> DEFINE B(i) == IF i = Len(source) + 1 THEN lasts ELSE Place(source, i, p)
      <3>1. \A i \in 1 .. n + 1 : B(i) = Begins(source, p, i)
        BY DEF Begins, lasts
      <3>2. \A i \in 1 .. n : i \in 1 .. n + 1 /\ i + 1 \in 1 .. n + 1
        BY <2>3
      <3> HIDE DEF B
      <3>3. (frames - 1) * p[1] < lasts /\ lasts <= frames * p[1]
        BY <2>2, <2>6
      <3>4. ASSUME NEW k \in DOMAIN output
            PROVE  /\ B(output[k].left) <= (k - 1) * p[1]
                   /\ (k - 1) * p[1] < B(output[k].left + 1)
                   /\ output[k].right # output[k].left =>
                        0 < output[k].offset /\ output[k].offset < output[k].span
        BY <2>2, <2>5, <2>11, <3>1, <3>2
      <3>5. ASSUME NEW i \in DOMAIN source, B(i + 1) - B(i) >= p[1]
            PROVE  \E k \in DOMAIN output : output[k].left = i
        BY <2>2, <2>3, <2>5, <2>12, <3>1, <3>2, <3>5
      <3>6. QED
        BY <3>3, <3>4, <3>5 DEF TimelineFollowsClock, B, lasts, p
  <1>2. QED
    BY <1>1, TimelineInvariance, PTL

-----------------------------------------------------------------------------
(***************************************************************************)
(* The proxy scan: rows of rising index, each compared with the one before *)
(* it and not more than a cadence behind.                                  *)
(***************************************************************************)
ScanRow == [index : Nat, cut : BOOLEAN]

\* The rows come in the order of the frames.
Rising(rows) == \A i, j \in DOMAIN rows : i < j => rows[i].index < rows[j].index

\* A row lies no more than a cadence behind the one before it, and scores if
\* the pictures of the two do.
Linked(rows, shown, cadence) ==
  \A j \in 2 .. Len(rows) :
    /\ rows[j].index <= rows[j - 1].index + cadence
    /\ rows[j].cut <=> <<shown[rows[j - 1].index], shown[rows[j].index]>> \in Scoring

\* What the scan has found up to its place, and what detect_scenes is given.
ScanInv ==
  /\ stage \in {"scan", "scanned", "scenes"} =>
       /\ picture \in [0 .. frames - 1 -> Pictures]
       /\ scan = [at |-> scan.at, previous |-> scan.previous, cadence |-> scan.cadence,
                  rows |-> scan.rows, row |-> scan.row]
       /\ scan.cadence \in Nat \ {0}
       /\ Linked(scan.rows, picture, scan.cadence)
  /\ stage \in {"scan", "scanned", "scenes", "fill"} =>
       /\ scan.rows \in Seq(ScanRow) /\ Rising(scan.rows)
       /\ scan.rows # <<>> => scan.rows[1].index = 0
  /\ stage = "scan" =>
       /\ scan.at \in 0 .. frames - 1 /\ scan.row = 0
       /\ scan.at = 0 => scan.rows = <<>>
       /\ scan.at # 0 =>
            /\ scan.rows # <<>> /\ scan.rows[Len(scan.rows)].index = scan.previous
            /\ scan.previous \in Nat /\ scan.previous % scan.cadence = 0
            /\ scan.previous < scan.at /\ scan.at <= scan.previous + scan.cadence
  /\ stage \in {"scanned", "scenes"} =>
       scan.rows # <<>> /\ scan.rows[Len(scan.rows)].index = frames - 1

\* What appending a row does to a sequence of them.
LEMMA RowAppended ==
  ASSUME NEW rows \in Seq(ScanRow), NEW row \in ScanRow
  PROVE  /\ Append(rows, row) \in Seq(ScanRow) /\ Append(rows, row) # <<>>
         /\ Len(Append(rows, row)) = Len(rows) + 1
         /\ DOMAIN Append(rows, row) = DOMAIN rows \cup {Len(rows) + 1}
         /\ Append(rows, row)[Len(rows) + 1] = row
         /\ \A i \in DOMAIN rows : Append(rows, row)[i] = rows[i] /\ i < Len(rows) + 1
  OBVIOUS

\* A row that compares a frame with the row before it, not more than a
\* cadence back, keeps the rows linked.
LEMMA RowKeepsLinked ==
  ASSUME NEW rows \in Seq(ScanRow), rows # <<>>, NEW shown,
         NEW cadence \in Nat \ {0}, NEW previous \in Nat, NEW at \in Nat,
         Linked(rows, shown, cadence), rows[Len(rows)].index = previous,
         at <= previous + cadence, NEW row \in ScanRow, row.index = at,
         row.cut <=> <<shown[previous], shown[at]>> \in Scoring
  PROVE  Linked(Append(rows, row), shown, cadence)
  <1> DEFINE more == Append(rows, row)
  <1>1. PICK n \in Nat \ {0} : n = Len(rows) /\ DOMAIN rows = 1 .. n
    OBVIOUS
  <1>2. /\ Len(more) = n + 1 /\ more[n + 1] = row
        /\ \A i \in 1 .. n : more[i] = rows[i]
    BY <1>1, RowAppended
  <1> HIDE DEF more
  <1>3. ASSUME NEW j \in 2 .. n + 1
        PROVE  /\ more[j].index <= more[j - 1].index + cadence
               /\ more[j].cut <=> <<shown[more[j - 1].index], shown[more[j].index]>> \in Scoring
    <2>1. CASE j = n + 1
      <3>1. more[j] = row /\ more[j - 1] = rows[n] /\ rows[n].index = previous
        BY <1>1, <1>2, <2>1
      <3>2. QED
        BY <3>1
    <2>2. CASE j # n + 1
      <3>1. j \in 2 .. n /\ j \in 1 .. n /\ j - 1 \in 1 .. n
        BY <2>2
      <3>2. more[j] = rows[j] /\ more[j - 1] = rows[j - 1]
        BY <1>2, <3>1
      <3>3. QED
        BY <1>1, <3>1, <3>2 DEF Linked
    <2>3. QED
      BY <2>1, <2>2
  <1>4. QED
    BY <1>1, <1>2, <1>3 DEF Linked, more

\* The first frame is always sampled.
LEMMA ScanBegins ==
  ASSUME Timed, BeginScan
  PROVE  ScanInv'
  <1>1. PICK cadence \in Cadences : scan' = [NoScan EXCEPT !.cadence = cadence]
    BY DEF BeginScan
  <1>2. scan' = [at |-> 0, previous |-> 0, cadence |-> cadence, rows |-> <<>>, row |-> 0]
    BY <1>1 DEF NoScan
  <1>3. /\ scan'.at = 0 /\ scan'.previous = 0 /\ scan'.cadence = cadence
        /\ scan'.rows = <<>> /\ scan'.row = 0
    BY <1>2
  <1>4. stage' = "scan" /\ frames' = frames /\ frames \in Nat \ {0}
    BY DEF BeginScan, Timed
  <1>5. cadence \in Nat \ {0} /\ picture' \in [0 .. frames' - 1 -> Pictures]
    BY <1>1, <1>4, PlannerAssumption DEF BeginScan
  <1>6. /\ scan'.rows \in Seq(ScanRow) /\ Rising(scan'.rows)
        /\ Linked(scan'.rows, picture', cadence)
    BY <1>3 DEF Rising, Linked
  <1>7. QED
    BY <1>2, <1>3, <1>4, <1>5, <1>6 DEF ScanInv

\* The frames between two samples are no more than a cadence.
LEMMA CadenceStep ==
  ASSUME NEW at \in Nat, NEW previous \in Nat, NEW c \in Nat \ {0},
         previous % c = 0, previous < at, at <= previous + c, at % c # 0
  PROVE  at < previous + c
  <1>1. SUFFICES ASSUME at = previous + c PROVE FALSE
    OBVIOUS
  <1>2. PICK q \in Int : q = previous \div c
    BY Quotient
  <1>3. previous = q * c
    BY <1>2, Quotient
  <1>4. (q + 1) * c = at /\ (q + 1 + 1) * c = at + c
    BY <1>1, <1>3
  <1>5. at \div c = q + 1
    BY <1>4, QuotientIs, q + 1 \in Int
  <1>6. at % c = 0
    BY <1>4, <1>5, Quotient
  <1>7. QED
    BY <1>6

\* A frame is read and becomes a row if it is a sample or the last.
LEMMA ScanStep ==
  ASSUME Timed, ScanInv, ScanFrame
  PROVE  ScanInv'
  <1>1. stage = "scan" /\ scan.at < frames /\ frames' = frames /\ picture' = picture
    BY DEF ScanFrame
  <1>2. PICK at \in 0 .. frames - 1, c \in Nat \ {0}, rows \in Seq(ScanRow) :
          at = scan.at /\ c = scan.cadence /\ rows = scan.rows
    BY <1>1 DEF ScanInv
  <1>3. PICK n \in Nat \ {0} : n = frames
    BY <1>1 DEF Timed
  <1> DEFINE sampled == at % c = 0
             last == at = n - 1
             row == Row(at, scan.previous)
             more == IF sampled \/ last THEN Append(rows, row) ELSE rows
             previous == IF sampled THEN at ELSE scan.previous
  <1>4. scan' = [scan EXCEPT !.at = at + 1, !.previous = previous, !.rows = more]
    BY <1>2, <1>3 DEF ScanFrame
  <1>5. scan = [at |-> scan.at, previous |-> scan.previous, cadence |-> scan.cadence,
                rows |-> scan.rows, row |-> scan.row]
    BY <1>1 DEF ScanInv
  <1>6. scan' = [at |-> at + 1, previous |-> previous, cadence |-> c, rows |-> more,
                 row |-> scan.row]
    <2> HIDE DEF previous, more
    <2> QED
      BY <1>2, <1>4, <1>5
  <1>7. /\ scan'.at = at + 1 /\ scan'.previous = previous /\ scan'.cadence = c
        /\ scan'.rows = more /\ scan'.row = scan.row
    <2> HIDE DEF previous, more
    <2> QED
      BY <1>6
  <1>8. stage' = (IF last THEN "scanned" ELSE "scan")
    BY <1>1, <1>2, <1>3 DEF ScanFrame
  <1>9. /\ Linked(rows, picture, c) /\ Rising(rows)
        /\ picture \in [0 .. n - 1 -> Pictures]
        /\ rows # <<>> => rows[1].index = 0
        /\ scan.row = 0
        /\ at = 0 => rows = <<>>
        /\ at # 0 => /\ rows # <<>> /\ rows[Len(rows)].index = scan.previous
                     /\ scan.previous \in Nat /\ scan.previous % c = 0
                     /\ scan.previous < at /\ at <= scan.previous + c
    BY <1>1, <1>2, <1>3 DEF ScanInv
  <1>10. row \in ScanRow /\ row.index = at
         /\ (row.cut <=> <<picture[scan.previous], picture[at]>> \in Scoring)
    <2>1. (<<picture[scan.previous], picture[at]>> \in Scoring) \in BOOLEAN
      OBVIOUS
    <2> DEFINE scores == <<picture[scan.previous], picture[at]>> \in Scoring
    <2>2. row = [index |-> at, cut |-> scores]
      BY DEF Row
    <2> HIDE DEF scores, row
    <2>3. row \in ScanRow /\ row.index = at /\ row.cut = scores
      BY <1>2, <2>1, <2>2 DEF ScanRow, scores
    <2>4. QED
      BY <2>3 DEF scores
  <1>11. at = 0 => sampled
    BY <1>2
  <1>12. /\ more \in Seq(ScanRow) /\ Rising(more) /\ more # <<>> /\ more[1].index = 0
         /\ Linked(more, picture, c)
         /\ sampled \/ last => more[Len(more)].index = at
         /\ ~(sampled \/ last) => more = rows
    <2>1. CASE at = 0
      <3>1. more = Append(rows, row) /\ rows = <<>> /\ row.index = 0
        BY <1>9, <1>10, <1>11, <2>1
      <3> HIDE DEF more, row
      <3>2. more = <<row>> /\ Len(more) = 1 /\ more[1] = row
        BY <3>1
      <3>3. more \in Seq(ScanRow) /\ DOMAIN more = {1}
        BY <1>10, <3>2
      <3>4. Linked(more, picture, c)
        BY <3>2 DEF Linked
      <3>5. QED
        BY <1>11, <2>1, <3>1, <3>2, <3>3, <3>4 DEF Rising
    <2>2. CASE at # 0 /\ (sampled \/ last)
      <3>1. more = Append(rows, row)
        BY <2>2
      <3>2. PICK p \in Nat : p = scan.previous
        BY <1>9, <2>2
      <3>3. Linked(Append(rows, row), picture, c)
        <4>1. /\ rows # <<>> /\ at \in Nat /\ rows[Len(rows)].index = p /\ at <= p + c
              /\ (row.cut <=> <<picture[p], picture[at]>> \in Scoring)
          BY <1>9, <1>10, <2>2, <3>2
        <4> HIDE DEF row
        <4>2. QED
          BY <1>9, <1>10, <4>1, RowKeepsLinked
      <3> HIDE DEF more, row
      <3>4. /\ more \in Seq(ScanRow) /\ more # <<>> /\ Len(more) = Len(rows) + 1
            /\ DOMAIN more = DOMAIN rows \cup {Len(rows) + 1}
            /\ more[Len(rows) + 1] = row
            /\ \A i \in DOMAIN rows : more[i] = rows[i] /\ i < Len(rows) + 1
        BY <1>10, <3>1, RowAppended
      <3>5. 1 \in DOMAIN rows /\ Len(rows) \in DOMAIN rows /\ DOMAIN rows = 1 .. Len(rows)
        BY <1>9, <2>2
      <3>6. \A i \in DOMAIN rows : rows[i].index \in Nat /\ rows[i].index < at
        <4>1. \A i \in DOMAIN rows : rows[i].index \in Nat
          <5>1. \A i \in DOMAIN rows : rows[i] \in ScanRow
            OBVIOUS
          <5>2. QED
            BY <5>1 DEF ScanRow
        <4>2. \A i \in DOMAIN rows : i = Len(rows) \/ rows[i].index < rows[Len(rows)].index
          <5>1. \A i \in DOMAIN rows : i = Len(rows) \/ i < Len(rows)
            OBVIOUS
          <5>2. \A i, j \in DOMAIN rows : i < j => rows[i].index < rows[j].index
            BY <1>9 DEF Rising
          <5>3. QED
            BY <3>5, <5>1, <5>2
        <4>3. rows[Len(rows)].index < at
          BY <1>9, <2>2
        <4>4. QED
          BY <1>2, <3>5, <4>1, <4>2, <4>3
      <3>7. Rising(more)
        BY <1>9, <1>10, <3>4, <3>5, <3>6 DEF Rising
      <3>8. QED
        BY <1>9, <1>10, <2>2, <3>1, <3>3, <3>4, <3>5, <3>7
    <2>3. CASE at # 0 /\ ~(sampled \/ last)
      BY <1>9, <2>3
    <2>4. QED
      BY <2>1, <2>2, <2>3
  <1>13. ~last => /\ at + 1 \in 0 .. n - 1 /\ more[Len(more)].index = previous
                  /\ previous \in Nat /\ previous % c = 0
                  /\ previous < at + 1 /\ at + 1 <= previous + c
    <2> SUFFICES ASSUME ~last
                 PROVE  /\ at + 1 \in 0 .. n - 1 /\ more[Len(more)].index = previous
                        /\ previous \in Nat /\ previous % c = 0
                        /\ previous < at + 1 /\ at + 1 <= previous + c
      OBVIOUS
    <2>1. at + 1 \in 0 .. n - 1
      BY <1>2, <1>3
    <2>2. CASE sampled
      BY <1>2, <1>12, <2>1, <2>2
    <2>3. CASE ~sampled
      <3>1. at # 0 /\ previous = scan.previous /\ more = rows
        BY <1>11, <1>12, <2>3
      <3>2. PICK p \in Nat : p = scan.previous
        BY <1>9, <3>1
      <3>3. at < p + c
        BY <1>2, <1>9, <2>3, <3>1, <3>2, CadenceStep
      <3>4. QED
        BY <1>2, <1>9, <2>1, <3>1, <3>2, <3>3
    <2>4. QED
      BY <2>2, <2>3
  <1> HIDE DEF more, previous
  <1>14. CASE last
    BY <1>1, <1>3, <1>6, <1>7, <1>8, <1>9, <1>12, <1>14 DEF ScanInv
  <1>15. CASE ~last
    BY <1>1, <1>2, <1>3, <1>6, <1>7, <1>8, <1>9, <1>12, <1>13, <1>15 DEF ScanInv
  <1>16. QED
    BY <1>14, <1>15

\* The scan's invariant.
THEOREM ScanInvariance == PlanSpec => []ScanInv
  <1>1. PlanInit => ScanInv
    BY DEF PlanInit, ScanInv
  <1>2. Timed /\ ScanInv /\ [PlanNext]_planVars => ScanInv'
    <2> SUFFICES ASSUME Timed, ScanInv, [PlanNext]_planVars PROVE ScanInv'
      OBVIOUS
    <2>1. CASE DetectScene
      <3>1. /\ stage = "scanned" /\ stage' \in {"scanned", "scenes"} /\ picture' = picture
            /\ frames' = frames /\ scan' = [scan EXCEPT !.row = scan.row + 1]
        BY <2>1 DEF DetectScene
      <3>2. scan = [at |-> scan.at, previous |-> scan.previous, cadence |-> scan.cadence,
                    rows |-> scan.rows, row |-> scan.row]
        BY <3>1 DEF ScanInv
      <3>3. scan' = [at |-> scan.at, previous |-> scan.previous, cadence |-> scan.cadence,
                     rows |-> scan.rows, row |-> scan.row + 1]
        BY <3>1, <3>2
      <3>4. QED
        BY <3>1, <3>3 DEF ScanInv
    <2>2. CASE PlanTimeline \/ PlanWindows \/ PlanInterpolation \/ BeginChunks \/ NextChunk
      <3>1. stage' \notin {"scan", "scanned", "scenes", "fill"}
        BY <2>2 DEF PlanTimeline, PlanWindows, PlanInterpolation, BeginChunks, NextChunk
      <3>2. QED
        BY <3>1 DEF ScanInv
    <2>3. CASE BeginSamples \/ FillBin
      <3>1. /\ stage \in {"scenes", "fill"} /\ stage' \notin {"scan", "scanned", "scenes"}
            /\ scan' = scan
        BY <2>3 DEF BeginSamples, FillBin
      <3>2. QED
        BY <3>1 DEF ScanInv
    <2>4. CASE UNCHANGED planVars
      <3>1. UNCHANGED <<stage, frames, picture, scan>>
        BY <2>4 DEF planVars
      <3>2. QED
        BY <3>1 DEF ScanInv
    <2>5. QED
      BY <2>1, <2>2, <2>3, <2>4, ScanBegins, ScanStep DEF PlanNext
  <1>3. QED
    BY <1>1, <1>2, TimelineInvariance, PTL DEF PlanSpec

-----------------------------------------------------------------------------
(***************************************************************************)
(* The scenes cut the timeline at the rows that score.                     *)
(***************************************************************************)
SceneRecord == [start : Nat, end : Nat]

\* What plan_windows and _scene_map demand: scenes cover the frames from 0 to
\* n in order, without gap or overlap.
Partition(parts, n) ==
  /\ parts \in Seq(SceneRecord) /\ parts # <<>>
  /\ parts[1].start = 0 /\ parts[Len(parts)].end = n
  /\ \A i \in DOMAIN parts : parts[i].start < parts[i].end
  /\ \A i, j \in DOMAIN parts : i < j => parts[i].end <= parts[j].start
  /\ \A f \in 0 .. n - 1 : \E i \in DOMAIN parts : parts[i].start <= f /\ f < parts[i].end

\* Scenes begin at the rows that score among the first k.
BeginAtRows(parts, rows, k) ==
  {parts[i].start : i \in 2 .. Len(parts)} = {rows[j].index : j \in {i \in 2 .. k : rows[i].cut}}

\* The scenes of the rows handled so far partition the whole timeline.
SceneInv ==
  /\ stage \in {"probe", "timed", "scan"} => scenes = <<>>
  /\ stage = "scanned" =>
       /\ scan.row \in 0 .. Len(scan.rows) - 1
       /\ scan.row = 0 => scenes = <<>>
       /\ scan.row # 0 =>
            /\ Partition(scenes, frames) /\ BeginAtRows(scenes, scan.rows, scan.row)
            /\ scenes[Len(scenes)].start <= scan.rows[scan.row].index
  /\ stage = "scenes" => BeginAtRows(scenes, scan.rows, Len(scan.rows))
  /\ stage \in {"scenes", "windows", "ticks", "fill", "samples", "chunks"} =>
       Partition(scenes, frames)

\* The fields of a scene.
LEMMA SceneFields ==
  ASSUME NEW parts \in Seq(SceneRecord), NEW i \in DOMAIN parts
  PROVE  parts[i].start \in Nat /\ parts[i].end \in Nat
         /\ parts[i] = [start |-> parts[i].start, end |-> parts[i].end]
  <1>1. parts[i] \in SceneRecord
    OBVIOUS
  <1>2. QED
    BY <1>1 DEF SceneRecord

\* What appending does to a sequence.
LEMMA Appended ==
  ASSUME NEW S, NEW s \in Seq(S), NEW e \in S
  PROVE  /\ Append(s, e) \in Seq(S) /\ Append(s, e) # <<>>
         /\ Len(Append(s, e)) = Len(s) + 1
         /\ DOMAIN Append(s, e) = DOMAIN s \cup {Len(s) + 1}
         /\ Append(s, e)[Len(s) + 1] = e
         /\ \A i \in DOMAIN s : Append(s, e)[i] = s[i] /\ i < Len(s) + 1
  OBVIOUS

\* The scenes after a row that begins one.
WithScene(parts, at, new) == Append(Closed(parts, at), new)

\* The last scene is closed and another one appended.
LEMMA SceneAppended ==
  ASSUME NEW parts \in Seq(SceneRecord), parts # <<>>, NEW at \in Nat,
         NEW new \in SceneRecord
  PROVE  /\ WithScene(parts, at, new) \in Seq(SceneRecord)
         /\ Len(WithScene(parts, at, new)) = Len(parts) + 1
         /\ WithScene(parts, at, new)[Len(parts) + 1] = new
         /\ \A i \in DOMAIN parts : WithScene(parts, at, new)[i].start = parts[i].start
         /\ \A i \in DOMAIN parts : i # Len(parts) =>
              WithScene(parts, at, new)[i].end = parts[i].end
         /\ WithScene(parts, at, new)[Len(parts)].end = at
  <1>1. PICK k \in Nat \ {0} : k = Len(parts) /\ DOMAIN parts = 1 .. k
    OBVIOUS
  <1>2. PICK closed : closed = Closed(parts, at)
    OBVIOUS
  <1>3. ASSUME NEW i \in 1 .. k
        PROVE  /\ closed[i] \in SceneRecord /\ closed[i].start = parts[i].start
               /\ closed[i].end = IF i = k THEN at ELSE parts[i].end
    <2>1. /\ parts[i].start \in Nat /\ parts[i].end \in Nat
          /\ parts[i] = [start |-> parts[i].start, end |-> parts[i].end]
      BY <1>1, SceneFields
    <2>2. closed[i] = [start |-> parts[i].start, end |-> IF i = k THEN at ELSE parts[i].end]
      BY <1>1, <1>2, <2>1 DEF Closed
    <2>3. QED
      BY <2>1, <2>2 DEF SceneRecord
  <1>4. closed \in Seq(SceneRecord) /\ Len(closed) = k /\ DOMAIN closed = 1 .. k
    <2>1. closed = [i \in 1 .. k |-> closed[i]]
      BY <1>1, <1>2 DEF Closed
    <2>2. \A i \in 1 .. k : closed[i] \in SceneRecord
      BY <1>3
    <2>3. closed \in [1 .. k -> SceneRecord]
      BY <2>1, <2>2
    <2>4. QED
      BY <2>3
  <1> DEFINE more == WithScene(parts, at, new)
  <1>5. more = Append(closed, new)
    BY <1>2 DEF WithScene
  <1> HIDE DEF more
  <1>6. /\ more \in Seq(SceneRecord) /\ Len(more) = k + 1 /\ more[k + 1] = new
        /\ \A i \in 1 .. k : more[i] = closed[i]
    BY <1>4, <1>5, Appended
  <1>7. QED
    BY <1>1, <1>3, <1>6 DEF more

\* Closing the last scene at a frame inside it leaves a partition.
LEMMA PartitionCut ==
  ASSUME NEW n \in Nat, NEW k \in Nat \ {0}, NEW at \in Nat, NEW parts, NEW more,
         Partition(parts, n), Len(parts) = k, parts[k].start < at, at < n,
         more \in Seq(SceneRecord), Len(more) = k + 1,
         more[k + 1].start = at, more[k + 1].end = n,
         \A i \in DOMAIN parts : /\ more[i].start = parts[i].start
                                 /\ more[i].end = IF i = k THEN at ELSE parts[i].end
  PROVE  Partition(more, n)
  <1>1. parts \in Seq(SceneRecord) /\ DOMAIN parts = 1 .. k /\ DOMAIN more = 1 .. k + 1
    BY DEF Partition
  <1>2. /\ parts[1].start = 0 /\ parts[k].end = n
        /\ \A i \in 1 .. k : parts[i].start < parts[i].end
        /\ \A i, j \in 1 .. k : i < j => parts[i].end <= parts[j].start
        /\ \A f \in 0 .. n - 1 : \E i \in 1 .. k : parts[i].start <= f /\ f < parts[i].end
    BY <1>1 DEF Partition
  <1>3. \A i \in 1 .. k : parts[i].start \in Nat /\ parts[i].end \in Nat
    BY <1>1, SceneFields
  <1>4. ASSUME NEW i \in 1 .. k
        PROVE  more[i].start = parts[i].start /\ more[i].start < more[i].end
               /\ more[i].end <= at /\ more[i].end \in Nat
    <2>1. CASE i = k
      BY <1>1, <1>2, <2>1
    <2>2. CASE i # k
      <3>1. i < k /\ k \in 1 .. k
        BY <2>2
      <3>2. parts[i].end <= parts[k].start
        BY <1>2, <3>1
      <3>3. more[i].start = parts[i].start /\ more[i].end = parts[i].end
        BY <1>1, <2>2
      <3>4. parts[i].start < parts[i].end
        BY <1>2
      <3>5. parts[i].end <= at
        BY <1>3, <3>1, <3>2
      <3>6. QED
        BY <1>3, <3>3, <3>4, <3>5
    <2>3. QED
      BY <2>1, <2>2
  <1>5. \A i \in DOMAIN more : more[i].start < more[i].end
    <2>1. \A i \in DOMAIN more : i \in 1 .. k \/ i = k + 1
      BY <1>1
    <2>2. QED
      BY <1>4, <2>1
  <1>6. ASSUME NEW i \in DOMAIN more, NEW j \in DOMAIN more, i < j
        PROVE  more[i].end <= more[j].start
    <2>1. i \in 1 .. k /\ i # k + 1 /\ (j \in 1 .. k \/ j = k + 1)
      BY <1>1, <1>6
    <2>2. CASE j = k + 1
      BY <1>4, <2>1, <2>2
    <2>3. CASE j \in 1 .. k
      <3>1. i # k /\ parts[i].end <= parts[j].start
        BY <1>2, <1>6, <2>1, <2>3
      <3>2. more[i].end = parts[i].end /\ more[j].start = parts[j].start
        BY <1>1, <2>1, <2>3, <3>1
      <3>3. QED
        BY <3>1, <3>2
    <2>4. QED
      BY <2>1, <2>2, <2>3
  <1>7. ASSUME NEW f \in 0 .. n - 1
        PROVE  \E i \in DOMAIN more : more[i].start <= f /\ f < more[i].end
    <2>1. PICK i \in 1 .. k : parts[i].start <= f /\ f < parts[i].end
      BY <1>2
    <2>2. i \in DOMAIN more /\ k + 1 \in DOMAIN more
      BY <1>1
    <2>3. CASE i = k /\ at <= f
      BY <2>2, <2>3
    <2>4. CASE ~(i = k /\ at <= f)
      <3>1. more[i].start = parts[i].start /\ f < more[i].end
        BY <1>1, <2>1, <2>4, SMTT(30)
      <3>2. QED
        BY <2>1, <2>2, <3>1
    <2>5. QED
      BY <2>3, <2>4
  <1>8. more # <<>> /\ more[1].start = 0 /\ more[Len(more)].end = n
    <2>1. 1 \in 1 .. k
      OBVIOUS
    <2>2. QED
      BY <1>1, <1>2, <2>1
  <1>9. QED
    BY <1>5, <1>6, <1>7, <1>8 DEF Partition

\* Beginning a scene at a frame behind the start of the last one.
LEMMA SceneBegins ==
  ASSUME NEW parts \in Seq(SceneRecord), NEW at \in Nat, NEW n \in Nat,
         NEW new \in SceneRecord, new.start = at, new.end = n,
         Partition(parts, n), parts[Len(parts)].start < at, at < n
  PROVE  Partition(WithScene(parts, at, new), n)
  <1>1. parts # <<>>
    BY DEF Partition
  <1>2. WithScene(parts, at, new) \in Seq(SceneRecord)
    BY <1>1, SceneAppended
  <1>3. Len(WithScene(parts, at, new)) = Len(parts) + 1
    BY <1>1, SceneAppended
  <1>4. WithScene(parts, at, new)[Len(parts) + 1] = new
    BY <1>1, SceneAppended
  <1>5. \A i \in DOMAIN parts : WithScene(parts, at, new)[i].start = parts[i].start
    BY <1>1, SceneAppended, ZenonT(60)
  <1>6. \A i \in DOMAIN parts : i # Len(parts) =>
          WithScene(parts, at, new)[i].end = parts[i].end
    BY <1>1, SceneAppended, ZenonT(60)
  <1>7. WithScene(parts, at, new)[Len(parts)].end = at
    BY <1>1, SceneAppended
  <1> DEFINE more == WithScene(parts, at, new)
  <1>8. /\ more \in Seq(SceneRecord)
        /\ Len(more) = Len(parts) + 1
        /\ more[Len(parts) + 1] = new
        /\ \A i \in DOMAIN parts : more[i].start = parts[i].start
        /\ \A i \in DOMAIN parts : i # Len(parts) => more[i].end = parts[i].end
        /\ more[Len(parts)].end = at
    BY <1>2, <1>3, <1>4, <1>5, <1>6, <1>7
  <1> HIDE DEF more
  <1>9. more[Len(parts) + 1].start = at /\ more[Len(parts) + 1].end = n
    BY <1>8
  <1>10. \A i \in DOMAIN parts : /\ more[i].start = parts[i].start
                               /\ more[i].end = IF i = Len(parts) THEN at ELSE parts[i].end
    BY <1>8
  <1>11. PICK k \in Nat \ {0} : k = Len(parts)
    BY <1>1
  <1>12. /\ Partition(parts, n) /\ Len(parts) = k /\ parts[k].start < at
        /\ more \in Seq(SceneRecord) /\ Len(more) = k + 1
        /\ more[k + 1].start = at /\ more[k + 1].end = n
        /\ \A i \in DOMAIN parts : /\ more[i].start = parts[i].start
                                  /\ more[i].end = IF i = k THEN at ELSE parts[i].end
    BY <1>8, <1>9, <1>10, <1>11
  <1>13. Partition(more, n)
    BY <1>12, PartitionCut
  <1>14. QED
    BY <1>13 DEF more

\* One row more: a scene begins at it if it scores.
LEMMA DetectKeeps ==
  ASSUME Timed, ScanInv, SceneInv, DetectScene
  PROVE  SceneInv'
  <1>1. stage = "scanned" /\ frames' = frames
    BY DEF DetectScene
  <1>2. PICK n \in Nat \ {0}, rows \in Seq(ScanRow) : n = frames /\ rows = scan.rows
    BY <1>1 DEF Timed, ScanInv
  <1>3. PICK k \in 0 .. Len(rows) - 1 : k = scan.row
    BY <1>1, <1>2 DEF SceneInv
  <1>4. /\ Rising(rows) /\ rows # <<>> /\ rows[1].index = 0
        /\ rows[Len(rows)].index = n - 1
    BY <1>1, <1>2 DEF ScanInv
  <1>5. \A i \in DOMAIN rows : rows[i].index \in Nat /\ rows[i].cut \in BOOLEAN
    <2>1. \A i \in DOMAIN rows : rows[i] \in ScanRow
      OBVIOUS
    <2>2. QED
      BY <2>1 DEF ScanRow
  <1>6. k + 1 \in DOMAIN rows /\ Len(rows) \in DOMAIN rows
    BY <1>2, <1>3, <1>4
  <1>7. scan' = [scan EXCEPT !.row = scan.row + 1]
        /\ scan = [at |-> scan.at, previous |-> scan.previous, cadence |-> scan.cadence,
                   rows |-> scan.rows, row |-> scan.row]
    BY <1>1 DEF DetectScene, ScanInv
  <1>8. scan'.rows = rows /\ scan'.row = k + 1
    BY <1>2, <1>3, <1>7
  <1>9. stage' = (IF k + 1 = Len(rows) THEN "scenes" ELSE "scanned")
    BY <1>1, <1>2, <1>3 DEF DetectScene
  <1>10. PICK at \in Nat : at = rows[k + 1].index /\ at < n
    <2>1. k + 1 = Len(rows) \/ rows[k + 1].index < rows[Len(rows)].index
      BY <1>3, <1>4, <1>6 DEF Rising
    <2>2. QED
      BY <1>2, <1>4, <1>5, <1>6, <2>1
  <1>11. scenes' = IF k = 0 \/ rows[k + 1].cut
                   THEN Append(Closed(scenes, at), [start |-> at, end |-> n])
                   ELSE scenes
    BY <1>2, <1>3, <1>10 DEF DetectScene
  <1>12. /\ Partition(scenes', n) /\ BeginAtRows(scenes', rows, k + 1)
         /\ scenes'[Len(scenes')].start <= at
    <2>1. CASE k = 0
      <3>1. scenes = <<>>
        BY <1>1, <1>3, <2>1 DEF SceneInv
      <3>2. at = 0
        BY <1>4, <1>10, <2>1
      <3>3. scenes' = <<[start |-> 0, end |-> n]>>
        <4>1. Closed(<<>>, 0) = <<>>
          BY DEF Closed
        <4>2. scenes' = Append(<<>>, [start |-> 0, end |-> n])
          BY <1>11, <2>1, <3>1, <3>2, <4>1
        <4>3. QED
          BY <4>2
      <3>4. PICK one : one = [start |-> 0, end |-> n]
        OBVIOUS
      <3>5. one \in SceneRecord /\ one.start = 0 /\ one.end = n
        BY <1>2, <3>4 DEF SceneRecord
      <3>6. scenes' = <<one>>
        BY <3>3, <3>4
      <3>7. <<one>> \in Seq(SceneRecord) /\ Len(<<one>>) = 1 /\ <<one>>[1] = one
            /\ DOMAIN <<one>> = {1} /\ <<one>> # <<>>
        BY <3>5
      <3>8. Partition(<<one>>, n)
        BY <1>2, <3>5, <3>7 DEF Partition
      <3>9. BeginAtRows(<<one>>, rows, 1)
        BY <3>7 DEF BeginAtRows
      <3>10. QED
        BY <2>1, <3>2, <3>5, <3>6, <3>7, <3>8, <3>9
    <2>2. CASE k # 0
      <3>1. PICK parts : parts = scenes
        OBVIOUS
      <3>2. /\ Partition(parts, n) /\ BeginAtRows(parts, rows, k)
            /\ parts[Len(parts)].start <= rows[k].index
        BY <1>1, <1>2, <1>3, <2>2, <3>1 DEF SceneInv
      <3>3. k \in DOMAIN rows /\ k \in Nat \ {0} /\ rows[k].index < at /\ rows[k].index \in Nat
        <4>1. k \in DOMAIN rows /\ k < k + 1
          BY <1>3, <2>2
        <4>2. QED
          BY <1>3, <1>4, <1>5, <1>6, <1>10, <2>2, <4>1 DEF Rising
      <3>4. parts \in Seq(SceneRecord) /\ Len(parts) \in Nat \ {0} /\ Len(parts) \in DOMAIN parts
        BY <3>2 DEF Partition
      <3>5. parts[Len(parts)].start \in Nat
        BY <3>4, SceneFields
      <3>6. parts[Len(parts)].start < at
        BY <3>2, <3>3, <3>5
      <3>7. CASE rows[k + 1].cut
        <4>1. PICK more : more = scenes'
          OBVIOUS
        <4>2. more = Append(Closed(parts, at), [start |-> at, end |-> n])
          BY <1>11, <3>1, <3>7, <4>1
        <4>3. /\ Partition(more, n) /\ Len(more) = Len(parts) + 1
              /\ more[Len(parts) + 1].start = at
              /\ \A i \in DOMAIN parts : more[i].start = parts[i].start
          <5>1. parts # <<>> /\ n \in Nat /\ parts \in Seq(SceneRecord)
            BY <3>4
          <5>2. PICK new \in SceneRecord : new = [start |-> at, end |-> n]
            BY <5>1 DEF SceneRecord
          <5>3. new.start = at /\ new.end = n
            BY <5>2
          <5>4. more = WithScene(parts, at, new)
            BY <4>2, <5>2 DEF WithScene
          <5> DEFINE with == WithScene(parts, at, new)
          <5>5. Partition(with, n)
            BY <1>10, <3>2, <3>6, <5>1, <5>3, SceneBegins
          <5>6. Len(WithScene(parts, at, new)) = Len(parts) + 1
            BY <5>1, SceneAppended
          <5>7. WithScene(parts, at, new)[Len(parts) + 1] = new
            BY <5>1, SceneAppended
          <5>8. \A i \in DOMAIN parts : WithScene(parts, at, new)[i].start = parts[i].start
            BY <5>1, SceneAppended, ZenonT(60)
          <5>9. /\ Len(with) = Len(parts) + 1 /\ with[Len(parts) + 1] = new
                /\ \A i \in DOMAIN parts : with[i].start = parts[i].start
            BY <5>6, <5>7, <5>8
          <5> HIDE DEF with
          <5>10. more = with
            BY <5>4 DEF with
          <5>11. QED
            BY <5>3, <5>5, <5>9, <5>10
        <4>4. BeginAtRows(more, rows, k + 1)
          <5> DEFINE m == Len(parts)
          <5>1. m \in Nat \ {0} /\ DOMAIN parts = 1 .. m
            BY <3>4
          <5>2. {more[i].start : i \in 2 .. m + 1}
                  = {parts[i].start : i \in 2 .. m} \cup {at}
            <6> HIDE DEF m
            <6>1. 2 .. m + 1 = (2 .. m) \cup {m + 1} /\ 2 .. m \subseteq 1 .. m
              BY <5>1
            <6>2. more[m + 1].start = at /\ \A i \in 1 .. m : more[i].start = parts[i].start
              BY <4>3, <5>1 DEF m
            <6>3. QED
              BY <6>1, <6>2
          <5>3. {rows[j].index : j \in {i \in 2 .. k + 1 : rows[i].cut}}
                  = {rows[j].index : j \in {i \in 2 .. k : rows[i].cut}} \cup {at}
            <6>1. 2 .. k + 1 = (2 .. k) \cup {k + 1}
              BY <3>3
            <6>2. {i \in 2 .. k + 1 : rows[i].cut} = {i \in 2 .. k : rows[i].cut} \cup {k + 1}
              BY <3>7, <6>1
            <6>3. QED
              BY <1>10, <6>2
          <5>4. QED
            BY <3>2, <4>3, <5>2, <5>3 DEF BeginAtRows
        <4>5. more[Len(more)].start = at
          BY <4>3
        <4>6. QED
          BY <1>10, <4>1, <4>3, <4>4, <4>5
      <3>8. CASE ~rows[k + 1].cut
        <4>1. scenes' = parts
          BY <1>11, <2>2, <3>1, <3>8
        <4>2. 2 .. k + 1 = (2 .. k) \cup {k + 1}
          BY <3>3
        <4>3. {i \in 2 .. k + 1 : rows[i].cut} = {i \in 2 .. k : rows[i].cut}
          BY <3>8, <4>2
        <4>4. BeginAtRows(parts, rows, k + 1)
          BY <3>2, <4>3 DEF BeginAtRows
        <4>5. QED
          BY <3>2, <3>5, <3>6, <4>1, <4>4
      <3>9. QED
        BY <3>7, <3>8
    <2>3. QED
      BY <2>1, <2>2
  <1>13. CASE k + 1 = Len(rows)
    BY <1>1, <1>2, <1>8, <1>9, <1>12, <1>13 DEF SceneInv
  <1>14. CASE k + 1 # Len(rows)
    <2>1. k + 1 \in 0 .. Len(rows) - 1 /\ k + 1 # 0
      BY <1>3, <1>14
    <2>2. QED
      BY <1>1, <1>2, <1>8, <1>9, <1>10, <1>12, <1>14, <2>1 DEF SceneInv
  <1>15. QED
    BY <1>13, <1>14

\* The invariant of the detected scenes.
THEOREM SceneInvariance == PlanSpec => []SceneInv
  <1>1. PlanInit => SceneInv
    BY DEF PlanInit, SceneInv
  <1>2. Timed /\ ScanInv /\ ScanInv' /\ SceneInv /\ [PlanNext]_planVars => SceneInv'
    <2> SUFFICES ASSUME Timed, ScanInv, ScanInv', SceneInv, [PlanNext]_planVars
                 PROVE  SceneInv'
      OBVIOUS
    <2>1. CASE PlanTimeline \/ BeginScan
      <3>1. /\ stage \in {"probe", "timed"} /\ scenes' = scenes
            /\ stage' \in {"timed", "scan", "refused"}
        BY <2>1 DEF PlanTimeline, BeginScan
      <3>2. QED
        BY <3>1 DEF SceneInv
    <2>2. CASE ScanFrame
      <3>1. stage = "scan" /\ scenes' = scenes /\ stage' \in {"scan", "scanned"}
        BY <2>2 DEF ScanFrame
      <3>2. scenes' = <<>>
        BY <3>1 DEF SceneInv
      <3>3. CASE stage' = "scan"
        BY <3>2, <3>3 DEF SceneInv
      <3>4. CASE stage' = "scanned"
        <4>1. scan'.row = 0
          <5>1. scan = [at |-> scan.at, previous |-> scan.previous, cadence |-> scan.cadence,
                        rows |-> scan.rows, row |-> scan.row] /\ scan.row = 0
            BY <3>1 DEF ScanInv
          <5>2. PICK rows, at, previous :
                  scan' = [scan EXCEPT !.at = at, !.previous = previous, !.rows = rows]
            BY <2>2 DEF ScanFrame
          <5>3. QED
            BY <5>1, <5>2
        <4>2. scan'.rows \in Seq(ScanRow) /\ scan'.rows # <<>>
          BY <3>4 DEF ScanInv
        <4>3. 0 \in 0 .. Len(scan'.rows) - 1
          BY <4>2
        <4>4. QED
          BY <3>2, <3>4, <4>1, <4>3 DEF SceneInv
      <3>5. QED
        BY <3>1, <3>3, <3>4
    <2>3. CASE PlanWindows \/ PlanInterpolation \/ BeginSamples \/ FillBin \/ BeginChunks
               \/ NextChunk
      <3>1. /\ stage \in {"scenes", "fill", "chunks"} /\ scenes' = scenes /\ frames' = frames
            /\ stage' \in {"windows", "ticks", "fill", "samples", "chunks", "refused"}
        BY <2>3 DEF PlanWindows, PlanInterpolation, BeginSamples, FillBin, BeginChunks, NextChunk
      <3>2. QED
        BY <3>1 DEF SceneInv
    <2>4. CASE UNCHANGED planVars
      <3>1. UNCHANGED <<stage, frames, scan, scenes>>
        BY <2>4 DEF planVars
      <3>2. QED
        BY <3>1 DEF SceneInv
    <2>5. QED
      BY <2>1, <2>2, <2>3, <2>4, DetectKeeps DEF PlanNext
  <1>3. QED
    BY <1>1, <1>2, TimelineInvariance, ScanInvariance, PTL DEF PlanSpec

\* What the scan does and does not see: behind every recorded bound a change
\* of picture less than a cadence away, and before every change from one held
\* picture to another a bound as near; for every cadence and every length.
THEOREM RecordedCutsAreNear == PlanSpec => []CutsAreNear
  <1>1. ASSUME Timed, ScanInv, SceneInv, stage = "scenes" PROVE CutsAreNear
    <2>1. PICK n \in Nat \ {0}, rows \in Seq(ScanRow), cadence \in Nat \ {0} :
            n = frames /\ rows = scan.rows /\ cadence = scan.cadence
      BY <1>1 DEF Timed, ScanInv
    <2>2. /\ picture \in [0 .. n - 1 -> Pictures] /\ Linked(rows, picture, cadence)
          /\ Rising(rows) /\ rows # <<>>
          /\ rows[1].index = 0 /\ rows[Len(rows)].index = n - 1
      BY <1>1, <2>1 DEF ScanInv
    <2>3. PICK last \in Nat \ {0} : last = Len(rows) /\ DOMAIN rows = 1 .. last
      BY <2>2
    <2>4. Bounds = {rows[j].index : j \in {i \in 2 .. last : rows[i].cut}}
      BY <1>1, <2>1, <2>3 DEF SceneInv, BeginAtRows, Bounds
    <2>5. \A i \in 1 .. last : rows[i].index \in 0 .. n - 1
      <3> SUFFICES ASSUME NEW i \in 1 .. last PROVE rows[i].index \in 0 .. n - 1
        OBVIOUS
      <3>1. rows[i] \in ScanRow
        BY <2>3
      <3>2. rows[i].index \in Nat
        BY <3>1 DEF ScanRow
      <3>3. i = last \/ rows[i].index < rows[last].index
        BY <2>2, <2>3 DEF Rising
      <3>4. QED
        BY <2>2, <2>3, <3>2, <3>3
    <2>6. ASSUME NEW j \in 2 .. last
          PROVE  /\ rows[j].index \in 0 .. n - 1 /\ rows[j - 1].index \in 0 .. n - 1
                 /\ rows[j - 1].index < rows[j].index
                 /\ rows[j].index <= rows[j - 1].index + cadence
                 /\ rows[j].cut <=>
                      <<picture[rows[j - 1].index], picture[rows[j].index]>> \in Scoring
      <3>1. j \in 1 .. last /\ j - 1 \in 1 .. last /\ j - 1 < j
        OBVIOUS
      <3>2. rows[j - 1].index < rows[j].index
        BY <2>2, <2>3, <3>1 DEF Rising
      <3>3. QED
        BY <2>2, <2>3, <2>5, <3>1, <3>2 DEF Linked
    <2>7. ASSUME NEW b \in Bounds
          PROVE  \E c \in 1 .. b : b < c + cadence /\ picture[c - 1] # picture[c]
      <3>1. PICK j \in 2 .. last : rows[j].cut /\ b = rows[j].index
        BY <2>4
      <3>2. PICK p \in 0 .. n - 1 : p = rows[j - 1].index
        BY <2>6
      <3>3. /\ b \in 0 .. n - 1 /\ p < b /\ b <= p + cadence
            /\ <<picture[p], picture[b]>> \in Scoring
        BY <2>6, <3>1, <3>2
      <3>4. picture[p] # picture[b]
        <4>1. picture[p] \in Pictures
          BY <2>2
        <4>2. QED
          BY <3>3, <4>1, PictureAssumption
      <3> DEFINE changed == {x \in p + 1 .. b : picture[x] # picture[p]}
      <3>5. b \in changed /\ changed \subseteq Nat
        BY <3>3, <3>4
      <3>6. PICK c \in changed : \A x \in changed : c <= x
        BY <3>5, LeastNatural
      <3>7. c \in p + 1 .. b /\ c - 1 \notin changed /\ picture[c] # picture[p]
        BY <3>5, <3>6
      <3>8. picture[c - 1] = picture[p]
        BY <3>3, <3>7
      <3> HIDE DEF changed
      <3>9. c \in 1 .. b /\ b < c + cadence
        BY <3>3, <3>7
      <3>10. QED
        BY <3>7, <3>8, <3>9
    <2>8. ASSUME NEW c \in 1 .. n - 1, <<picture[c - 1], picture[c]>> \in Scoring,
                 Held(c - cadence, c - 1), Held(c, c + cadence - 1)
          PROVE  \E b \in Bounds : c <= b /\ b < c + cadence
      <3> DEFINE behind == {j \in 1 .. last : c <= rows[j].index}
      <3>1. behind \subseteq Nat /\ last \in behind
        BY <2>2, <2>3
      <3>2. PICK j \in behind : \A i \in behind : j <= i
        BY <3>1, LeastNatural
      <3>3. j \in 2 .. last /\ c <= rows[j].index
        BY <2>2, <3>2
      <3>4. ~(c <= rows[j - 1].index)
        BY <3>2, <3>3
      <3> HIDE DEF behind
      <3>5. PICK p \in 0 .. n - 1, b \in 0 .. n - 1 :
              p = rows[j - 1].index /\ b = rows[j].index
        BY <2>6, <3>3
      <3>6. p < c /\ c <= b /\ b <= p + cadence
        <4>1. c <= b /\ ~(c <= p)
          BY <3>3, <3>4, <3>5
        <4>2. b <= p + cadence
          BY <2>6, <3>3, <3>5
        <4>3. QED
          BY <4>1, <4>2
      <3>7. p \in c - cadence .. c - 1 /\ b \in c .. c + cadence - 1
        BY <3>6
      <3>8. DOMAIN picture = 0 .. n - 1 /\ c \in 0 .. n - 1 /\ c - 1 \in 0 .. n - 1
        BY <2>2
      <3>9. picture[p] = picture[c - 1]
        <4>1. c - 1 \in c - cadence .. c - 1
          OBVIOUS
        <4>2. QED
          BY <2>8, <3>7, <3>8, <4>1 DEF Held
      <3>10. picture[b] = picture[c]
        <4>1. c \in c .. c + cadence - 1
          OBVIOUS
        <4>2. QED
          BY <2>8, <3>7, <3>8, <4>1 DEF Held
      <3>11. rows[j].cut
        BY <2>6, <2>8, <3>3, <3>5, <3>9, <3>10
      <3>12. QED
        BY <2>4, <3>3, <3>5, <3>6, <3>11
    <2>9. QED
      BY <2>1, <2>7, <2>8 DEF CutsAreNear
  <1>2. Timed /\ ScanInv /\ SceneInv => CutsAreNear
    BY <1>1 DEF CutsAreNear
  <1>3. QED
    BY <1>2, TimelineInvariance, ScanInvariance, SceneInvariance, PTL

-----------------------------------------------------------------------------
(***************************************************************************)
(* Samples: both sides of every recorded cut, then a frame per bin.        *)
(***************************************************************************)
SampleInv ==
  /\ stage \in {"fill", "samples"} =>
       /\ samples = [count |-> samples.count, chosen |-> samples.chosen,
                     bins |-> samples.bins, bin |-> samples.bin]
       /\ samples.count \in 1 .. frames
       /\ samples.chosen \subseteq 0 .. frames - 1
       /\ \A i \in 2 .. Len(scenes) :
            {scenes[i].start - 1, scenes[i].start} \subseteq samples.chosen
  /\ stage = "fill" =>
       /\ samples.bins \in Nat \ {0} /\ samples.bin \in 0 .. samples.bins - 1
       /\ Cardinality(samples.chosen) = samples.count - samples.bins + samples.bin
  /\ stage = "samples" => Cardinality(samples.chosen) = samples.count

\* A scene of a partition lies inside the timeline, and any but the first
\* begins behind the first frame.
LEMMA SceneInside ==
  ASSUME NEW parts, NEW n \in Nat, Partition(parts, n), NEW i \in DOMAIN parts
  PROVE  /\ parts[i].start \in Nat /\ parts[i].end \in Nat
         /\ parts[i].start < parts[i].end /\ parts[i].end <= n
         /\ i # 1 => parts[i].start > 0
  <1>1. parts \in Seq(SceneRecord) /\ parts # <<>>
    BY DEF Partition
  <1>2. PICK k \in Nat \ {0} : k = Len(parts) /\ DOMAIN parts = 1 .. k
    BY <1>1
  <1>3. \A j \in 1 .. k : /\ parts[j].start \in Nat /\ parts[j].end \in Nat
                          /\ parts[j].start < parts[j].end
    BY <1>1, <1>2, SceneFields DEF Partition
  <1>4. parts[k].end = n /\ \A l, j \in 1 .. k : l < j => parts[l].end <= parts[j].start
    BY <1>2 DEF Partition
  <1>5. i \in 1 .. k /\ 1 \in 1 .. k /\ k \in 1 .. k
    BY <1>2
  <1>6. parts[i].end <= n
    <2>1. CASE i = k
      BY <1>3, <1>4, <1>5, <2>1
    <2>2. CASE i # k
      <3>1. parts[i].end <= parts[k].start
        BY <1>4, <1>5, <2>2
      <3>2. QED
        BY <1>3, <1>4, <1>5, <3>1
    <2>3. QED
      BY <2>1, <2>2
  <1>7. i # 1 => parts[i].start > 0
    <2> SUFFICES ASSUME i # 1 PROVE parts[i].start > 0
      OBVIOUS
    <2>1. parts[1].end <= parts[i].start
      BY <1>4, <1>5
    <2>2. QED
      BY <1>3, <1>5, <2>1
  <1>8. QED
    BY <1>3, <1>5, <1>6, <1>7

\* The mandatory frames are frames of the video and contain both sides of
\* every recorded cut.
LEMMA MandatoryFacts ==
  ASSUME Timed, ScanInv, SceneInv, stage = "scenes", NEW peaks \in SUBSET DOMAIN scan.rows
  PROVE  /\ Mandatory({scan.rows[i].index : i \in peaks}) \subseteq 0 .. frames - 1
         /\ \A i \in 2 .. Len(scenes) :
              {scenes[i].start - 1, scenes[i].start}
                \subseteq Mandatory({scan.rows[j].index : j \in peaks})
  <1> DEFINE extremes == {scan.rows[i].index : i \in peaks}
  <1>1. PICK n \in Nat \ {0}, rows \in Seq(ScanRow), parts \in Seq(SceneRecord) :
          n = frames /\ rows = scan.rows /\ parts = scenes
    BY DEF Timed, ScanInv, SceneInv, Partition
  <1>2. Partition(parts, n)
    BY <1>1 DEF SceneInv
  <1>3. extremes \subseteq 0 .. n - 1
    <2>1. rows # <<>> /\ Rising(rows) /\ rows[Len(rows)].index = n - 1
      BY <1>1 DEF ScanInv
    <2>2. ASSUME NEW i \in DOMAIN rows
          PROVE  rows[i].index \in 0 .. n - 1
      <3>1. rows[i].index \in Nat
        <4>1. rows[i] \in ScanRow
          OBVIOUS
        <4>2. QED
          BY <4>1 DEF ScanRow
      <3>2. i = Len(rows) \/ rows[i].index < rows[Len(rows)].index
        BY <2>1 DEF Rising
      <3>3. QED
        BY <2>1, <3>1, <3>2
    <2>3. QED
      BY <1>1, <2>2
  <1> HIDE DEF extremes
  <1>4. \A i \in DOMAIN parts : (parts[i].start + parts[i].end - 1) \div 2 \in 0 .. n - 1
    <2>1. ASSUME NEW i \in DOMAIN parts
          PROVE  (parts[i].start + parts[i].end - 1) \div 2 \in 0 .. n - 1
      <3>1. PICK a \in Nat, b \in Nat : /\ a = parts[i].start /\ b = parts[i].end
                                        /\ a < b /\ b <= n
        BY <1>2, SceneInside
      <3>2. (a + b - 1) \div 2 \in 0 .. n - 1
        <4>1. PICK c \in Nat : c = a + b - 1 /\ c < 2 * n
          BY <3>1
        <4>2. c \div 2 \in Nat /\ 2 * (c \div 2) <= c
          BY <4>1, SMTT(30)
        <4>3. QED
          BY <3>1, <4>1, <4>2
      <3>3. QED
        BY <3>1, <3>2
    <2>2. QED
      BY <2>1
  <1>5. \A i \in 2 .. Len(parts) : {parts[i].start - 1, parts[i].start} \subseteq 0 .. n - 1
    <2>1. ASSUME NEW i \in 2 .. Len(parts)
          PROVE  {parts[i].start - 1, parts[i].start} \subseteq 0 .. n - 1
      <3>1. i \in DOMAIN parts /\ i # 1
        OBVIOUS
      <3>2. /\ parts[i].start \in Nat /\ parts[i].end \in Nat
            /\ parts[i].start < parts[i].end /\ parts[i].end <= n /\ parts[i].start > 0
        BY <1>2, <3>1, SceneInside
      <3>3. QED
        BY <3>2
    <2>2. QED
      BY <2>1
  <1>6. Mandatory(extremes) =
          {0, n - 1} \cup extremes
            \cup {(parts[i].start + parts[i].end - 1) \div 2 : i \in DOMAIN parts}
            \cup UNION {{parts[i].start - 1, parts[i].start} : i \in 2 .. Len(parts)}
    BY <1>1 DEF Mandatory
  <1>7. Mandatory(extremes) \subseteq 0 .. n - 1
    <2>1. {0, n - 1} \subseteq 0 .. n - 1
      OBVIOUS
    <2>2. QED
      BY <1>3, <1>4, <1>5, <1>6, <2>1, ZenonT(60)
  <1>8. \A i \in 2 .. Len(parts) :
          {parts[i].start - 1, parts[i].start} \subseteq Mandatory(extremes)
    BY <1>6
  <1>9. QED
    BY <1>1, <1>7, <1>8 DEF extremes

\* The mandatory frames, if there are not too many.
LEMMA SamplesBegin ==
  ASSUME Timed, ScanInv, SceneInv, BeginSamples
  PROVE  SampleInv'
  <1>1. stage = "scenes" /\ frames' = frames /\ scenes' = scenes
    BY DEF BeginSamples
  <1>2. PICK count \in 1 .. frames, peaks \in (SUBSET DOMAIN scan.rows) \ {{}} :
          \E mandatory, bins :
            /\ mandatory = Mandatory({scan.rows[i].index : i \in peaks})
            /\ bins = count - Cardinality(mandatory)
            /\ IF bins < 0
               THEN stage' = "refused" /\ UNCHANGED samples
               ELSE /\ stage' = IF bins = 0 THEN "samples" ELSE "fill"
                    /\ samples' = [count |-> count, chosen |-> mandatory,
                                   bins |-> bins, bin |-> 0]
    BY DEF BeginSamples
  <1>3. PICK mandatory, bins :
          /\ mandatory = Mandatory({scan.rows[i].index : i \in peaks})
          /\ bins = count - Cardinality(mandatory)
          /\ IF bins < 0
             THEN stage' = "refused" /\ UNCHANGED samples
             ELSE /\ stage' = IF bins = 0 THEN "samples" ELSE "fill"
                  /\ samples' = [count |-> count, chosen |-> mandatory,
                                 bins |-> bins, bin |-> 0]
    BY <1>2
  <1>4. peaks \in SUBSET DOMAIN scan.rows
    OBVIOUS
  <1>5. /\ mandatory \subseteq 0 .. frames - 1
        /\ \A i \in 2 .. Len(scenes) :
             {scenes[i].start - 1, scenes[i].start} \subseteq mandatory
    BY <1>1, <1>3, <1>4, MandatoryFacts
  <1>6. Cardinality(mandatory) \in Nat
    <2>1. IsFiniteSet(0 .. frames - 1)
      BY <1>1, FS_Interval DEF Timed
    <2>2. IsFiniteSet(mandatory)
      BY <1>5, <2>1, FS_Subset
    <2>3. QED
      BY <2>2, FS_CardinalityType
  <1>7. CASE stage' = "refused"
    BY <1>7 DEF SampleInv
  <1>8. CASE stage' # "refused"
    <2>1. /\ ~(bins < 0) /\ stage' = (IF bins = 0 THEN "samples" ELSE "fill")
          /\ samples' = [count |-> count, chosen |-> mandatory, bins |-> bins, bin |-> 0]
      BY <1>3, <1>8
    <2>2. /\ samples'.count = count /\ samples'.chosen = mandatory
          /\ samples'.bins = bins /\ samples'.bin = 0
      BY <2>1
    <2>3. bins \in Nat /\ Cardinality(mandatory) = count - bins /\ count \in Nat
      <3>1. frames \in Nat
        BY <1>1 DEF Timed
      <3>2. QED
        BY <1>3, <1>6, <2>1, <3>1
    <2>4. samples' = [count |-> samples'.count, chosen |-> samples'.chosen,
                      bins |-> samples'.bins, bin |-> samples'.bin]
      BY <2>1, <2>2
    <2>5. QED
      BY <1>1, <1>5, <2>1, <2>2, <2>3, <2>4 DEF SampleInv
  <1>9. QED
    BY <1>7, <1>8

\* A bin is filled with a frame not chosen yet, and there always is one.
LEMMA SamplesFill ==
  ASSUME Timed, SampleInv, FillBin
  PROVE  SampleInv'
  <1>1. stage = "fill" /\ frames' = frames /\ scenes' = scenes
    BY DEF FillBin
  <1>2. PICK n \in Nat \ {0}, count \in Nat, bins \in Nat \ {0}, bin \in Nat,
             chosen \in {samples.chosen} :
          /\ n = frames /\ count = samples.count /\ bins = samples.bins
          /\ bin = samples.bin /\ chosen = samples.chosen
          /\ count <= n /\ bin < bins
    BY <1>1 DEF Timed, SampleInv
  <1>3. /\ chosen \subseteq 0 .. n - 1 /\ Cardinality(chosen) = count - bins + bin
        /\ samples = [count |-> count, chosen |-> chosen, bins |-> bins, bin |-> bin]
        /\ count \in 1 .. n
        /\ \A i \in 2 .. Len(scenes) : {scenes[i].start - 1, scenes[i].start} \subseteq chosen
    BY <1>1, <1>2 DEF SampleInv
  <1>4. IsFiniteSet(0 .. n - 1) /\ Cardinality(0 .. n - 1) = n
    BY FS_Interval
  <1>5. IsFiniteSet(chosen)
    BY <1>3, <1>4, FS_Subset
  <1>6. PICK open : open = Unselected(chosen)
    OBVIOUS
  <1>7. open = (0 .. n - 1) \ chosen
    BY <1>2, <1>6 DEF Unselected
  <1>8. open # {}
    <2> SUFFICES ASSUME open = {} PROVE FALSE
      OBVIOUS
    <2>1. chosen = 0 .. n - 1
      BY <1>3, <1>7
    <2>2. QED
      BY <1>2, <1>3, <1>4, <2>1
  <1>9. PICK target \in Nat : target = ((2 * bin + 1) * n) \div (2 * bins)
    <2>1. (2 * bin + 1) * n \in Nat /\ 2 * bins \in Nat \ {0}
      OBVIOUS
    <2>2. QED
      BY <2>1
  <1>10. PICK f : f = Closest(open, target)
    OBVIOUS
  <1>11. f \in open
    <2>1. open \subseteq Nat
      BY <1>7
    <2>2. QED
      BY <1>8, <1>10, <2>1, ClosestIsCandidate
  <1> DEFINE grown == chosen \cup {f}
             kept == IF bin + 1 = bins THEN grown \cup TopUp(grown) ELSE grown
  <1>12. /\ samples' = [samples EXCEPT !.chosen = kept, !.bin = bin + 1]
         /\ stage' = IF bin + 1 = bins THEN "samples" ELSE "fill"
    BY <1>1, <1>2, <1>6, <1>8, <1>9, <1>10 DEF FillBin
  <1>13. Cardinality(grown) = count - bins + (bin + 1)
    <2>1. f \notin chosen
      BY <1>7, <1>11
    <2>2. Cardinality(grown) = Cardinality(chosen) + 1
      BY <1>5, <2>1, FS_AddElement
    <2>3. QED
      BY <1>3, <2>2
  <1>14. bin + 1 = bins => TopUp(grown) = {}
    <2> SUFFICES ASSUME bin + 1 = bins, NEW g \in TopUp(grown) PROVE FALSE
      OBVIOUS
    <2> DEFINE before == {x \in Unselected(grown) : x < g}
    <2>1. Cardinality(before) < samples.count - Cardinality(grown)
      BY DEF TopUp
    <2>2. before \subseteq 0 .. n - 1
      BY <1>2 DEF Unselected
    <2>3. Cardinality(before) \in Nat
      BY <1>4, <2>2, FS_Subset, FS_CardinalityType
    <2> HIDE DEF before, grown
    <2>4. QED
      BY <1>2, <1>13, <2>1, <2>3
  <1>15. /\ samples'.count = count /\ samples'.chosen = grown
         /\ samples'.bins = bins /\ samples'.bin = bin + 1
         /\ samples' = [count |-> count, chosen |-> grown, bins |-> bins, bin |-> bin + 1]
    <2>1. kept = grown
      BY <1>14
    <2> HIDE DEF kept, grown
    <2>2. QED
      BY <1>3, <1>12, <2>1
  <1>16. grown \subseteq 0 .. n - 1
    BY <1>3, <1>7, <1>11
  <1> HIDE DEF kept, grown
  <1>17. /\ samples' = [count |-> samples'.count, chosen |-> samples'.chosen,
                        bins |-> samples'.bins, bin |-> samples'.bin]
         /\ samples'.count \in 1 .. frames'
         /\ samples'.chosen \subseteq 0 .. frames' - 1
         /\ \A i \in 2 .. Len(scenes') :
              {scenes'[i].start - 1, scenes'[i].start} \subseteq samples'.chosen
    BY <1>1, <1>2, <1>3, <1>11, <1>15, <1>16, SMTT(30) DEF grown
  <1>18. CASE bin + 1 = bins
    <2>1. Cardinality(samples'.chosen) = samples'.count
      BY <1>13, <1>15, <1>18
    <2>2. QED
      BY <1>12, <1>17, <1>18, <2>1 DEF SampleInv
  <1>19. CASE bin + 1 # bins
    <2>1. samples'.bins \in Nat \ {0} /\ samples'.bin \in 0 .. samples'.bins - 1
      BY <1>2, <1>15, <1>19
    <2>2. Cardinality(samples'.chosen) = samples'.count - samples'.bins + samples'.bin
      BY <1>13, <1>15
    <2>3. QED
      BY <1>12, <1>17, <1>19, <2>1, <2>2 DEF SampleInv
  <1>20. QED
    BY <1>18, <1>19

\* A sample has exactly the frames asked for, inside the video, and both
\* sides of every recorded cut.
THEOREM SamplesAreWhole == PlanSpec => []SamplesCover
  <1>1. PlanInit => SampleInv
    BY DEF PlanInit, SampleInv
  <1>2. Timed /\ ScanInv /\ SceneInv /\ SampleInv /\ [PlanNext]_planVars => SampleInv'
    <2> SUFFICES ASSUME Timed, ScanInv, SceneInv, SampleInv, [PlanNext]_planVars
                 PROVE  SampleInv'
      OBVIOUS
    <2>1. CASE \/ PlanTimeline \/ BeginScan \/ ScanFrame \/ DetectScene \/ PlanWindows
               \/ PlanInterpolation \/ BeginChunks \/ NextChunk
      <3>1. stage' \notin {"fill", "samples"}
        BY <2>1 DEF PlanTimeline, BeginScan, ScanFrame, DetectScene, PlanWindows,
                    PlanInterpolation, BeginChunks, NextChunk
      <3>2. QED
        BY <3>1 DEF SampleInv
    <2>2. CASE UNCHANGED planVars
      <3>1. UNCHANGED <<stage, frames, scenes, samples>>
        BY <2>2 DEF planVars, results
      <3>2. QED
        BY <3>1 DEF SampleInv
    <2>3. QED
      BY <2>1, <2>2, SamplesBegin, SamplesFill DEF PlanNext
  <1>3. SampleInv => SamplesCover
    BY DEF SampleInv, SamplesCover
  <1>4. QED
    BY <1>1, <1>2, <1>3, TimelineInvariance, ScanInvariance, SceneInvariance, PTL DEF PlanSpec

-----------------------------------------------------------------------------
(***************************************************************************)
(* Windows and interpolation ticks over the scenes.                        *)
(***************************************************************************)
PlannedOver ==
  /\ stage = "windows" => \E w \in Policies : windows = Windows(w)
  /\ stage = "ticks" =>
       \E r \in Steps : ticks = [i \in 1 .. Ceiling(frames * r[2], r[1]) |-> Tick(i - 1, r)]

\* What the two planners leave behind, and nothing follows them.
LEMMA PlannedOverInvariance == PlanSpec => []PlannedOver
  <1>1. PlanInit => PlannedOver
    BY DEF PlanInit, PlannedOver
  <1>2. PlannedOver /\ [PlanNext]_planVars => PlannedOver'
    <2> SUFFICES ASSUME PlannedOver, [PlanNext]_planVars PROVE PlannedOver'
      OBVIOUS
    <2>1. CASE PlanWindows
      <3>1. PICK w \in Policies : windows' = Windows(w)
        BY <2>1 DEF PlanWindows
      <3>2. stage' = "windows" /\ scenes' = scenes
        BY <2>1 DEF PlanWindows
      <3>3. Windows(w)' = Windows(w)
        BY <3>2 DEF Windows, Window
      <3>4. QED
        BY <3>1, <3>2, <3>3 DEF PlannedOver
    <2>2. CASE PlanInterpolation
      <3>1. PICK r \in Steps :
              ticks' = [i \in 1 .. Ceiling(frames * r[2], r[1]) |-> Tick(i - 1, r)]
        BY <2>2 DEF PlanInterpolation
      <3>2. stage' = "ticks" /\ scenes' = scenes /\ frames' = frames
        BY <2>2 DEF PlanInterpolation
      <3>3. \A n : Tick(n, r)' = Tick(n, r)
        BY <3>2 DEF Tick, SceneOf
      <3>4. ticks' = [i \in 1 .. Ceiling(frames' * r[2], r[1]) |-> Tick(i - 1, r)']
        BY <3>1, <3>2, <3>3
      <3>5. QED
        BY <3>1, <3>2, <3>4 DEF PlannedOver
    <2>3. CASE \/ PlanTimeline \/ BeginScan \/ ScanFrame \/ DetectScene
               \/ BeginSamples \/ FillBin \/ BeginChunks \/ NextChunk
      <3>1. stage' \notin {"windows", "ticks"}
        BY <2>3 DEF PlanTimeline, BeginScan, ScanFrame, DetectScene, BeginSamples, FillBin,
                    BeginChunks, NextChunk
      <3>2. QED
        BY <3>1 DEF PlannedOver
    <2>4. CASE UNCHANGED planVars
      <3>1. UNCHANGED <<stage, frames, scenes, windows, ticks>>
        BY <2>4 DEF planVars, results
      <3>2. \A w : Windows(w)' = Windows(w)
        BY <3>1 DEF Windows, Window
      <3>3. \A n, r : Tick(n, r)' = Tick(n, r)
        BY <3>1 DEF Tick, SceneOf
      <3>4. ASSUME NEW r \in Steps,
                   ticks = [i \in 1 .. Ceiling(frames * r[2], r[1]) |-> Tick(i - 1, r)]
            PROVE  ticks' = [i \in 1 .. Ceiling(frames' * r[2], r[1]) |-> Tick(i - 1, r)']
        BY <3>1, <3>3, <3>4
      <3>5. QED
        BY <3>1, <3>2, <3>4 DEF PlannedOver
    <2>5. QED
      BY <2>1, <2>2, <2>3, <2>4 DEF PlanNext
  <1>3. QED
    BY <1>1, <1>2, PTL DEF PlanSpec

\* The scene of a frame is the one it lies in.
LEMMA SceneOfIs ==
  ASSUME NEW n \in Nat, Partition(scenes, n), NEW i \in DOMAIN scenes, NEW f \in Nat,
         scenes[i].start <= f, f < scenes[i].end
  PROVE  SceneOf(f) = i
  <1>1. PICK parts : parts = scenes
    OBVIOUS
  <1>2. Partition(parts, n) /\ i \in DOMAIN parts /\ parts[i].start <= f /\ f < parts[i].end
    BY <1>1
  <1>3. parts \in Seq(SceneRecord)
    BY <1>2 DEF Partition
  <1>4. ASSUME NEW j \in DOMAIN parts, parts[j].start <= f, f < parts[j].end
        PROVE  j = i
    <2>1. /\ parts[i].start \in Nat /\ parts[i].end \in Nat
          /\ parts[j].start \in Nat /\ parts[j].end \in Nat
      BY <1>2, <1>3, SceneFields
    <2>2. i \in Nat /\ j \in Nat
      BY <1>2, <1>3
    <2>3. CASE i < j
      <3>1. parts[i].end <= parts[j].start
        BY <1>2, <2>3 DEF Partition
      <3>2. QED
        BY <1>2, <1>4, <2>1, <3>1
    <2>4. CASE j < i
      <3>1. parts[j].end <= parts[i].start
        BY <1>2, <2>4 DEF Partition
      <3>2. QED
        BY <1>2, <1>4, <2>1, <3>1
    <2>5. QED
      BY <2>2, <2>3, <2>4
  <1>5. SceneOf(f) = CHOOSE j \in DOMAIN parts : parts[j].start <= f /\ f < parts[j].end
    BY <1>1 DEF SceneOf
  <1>6. QED
    BY <1>2, <1>4, <1>5

\* A window lies inside its scene with its context.
LEMMA WindowFacts ==
  ASSUME NEW w \in WindowPolicy, NEW i, NEW a \in Nat, NEW b \in Nat, NEW from \in Nat,
         scenes[i].start = a, scenes[i].end = b, a <= from, from < b
  PROVE  /\ Window(w, i, from).scene = i /\ Window(w, i, from).from = from
         /\ Window(w, i, from).to = Smaller(from + w.core, b)
         /\ Window(w, i, from).inputFrom \in a .. from
         /\ Window(w, i, from).inputTo \in Window(w, i, from).to .. b
         /\ Window(w, i, from).to \in from + 1 .. b
  <1>1. w.core \in Nat \ {0} /\ w.before \in Nat /\ w.after \in Nat
    BY DEF WindowPolicy
  <1>2. PICK to \in Int : to = Smaller(from + w.core, b)
    BY <1>1 DEF Smaller
  <1>3. PICK before \in Int : before = Larger(a, from - w.before)
    BY <1>1 DEF Larger
  <1>4. PICK after \in Int : after = Smaller(b, to + w.after)
    BY <1>1 DEF Smaller
  <1>5. Window(w, i, from) = [scene |-> i, from |-> from, to |-> to,
                              inputFrom |-> before, inputTo |-> after]
    BY <1>2, <1>3, <1>4 DEF Window
  <1>6. to \in from + 1 .. b /\ before \in a .. from /\ after \in to .. b
    BY <1>1, <1>2, <1>3, <1>4 DEF Smaller, Larger
  <1>7. QED
    BY <1>2, <1>5, <1>6

\* The multiple of c at or below a.
LEMMA MultipleBelow ==
  ASSUME NEW a \in Nat, NEW c \in Nat \ {0}
  PROVE  /\ \E q \in Nat : q * c <= a /\ a < q * c + c
         /\ \A q \in Nat : (q * c) % c = 0
         /\ a % c = 0 => \E q \in Nat : a = q * c
         /\ \A p, q \in Nat : q * c <= a /\ a < q * c + c /\ p * c <= a /\ a < p * c + c => p = q
  <1>1. PICK q \in Int : q = a \div c
    BY Quotient
  <1>2. q * c <= a /\ a < (q + 1) * c /\ a % c = a - q * c
    BY <1>1, Quotient
  <1>3. q \in Nat
    <2>1. 0 * c < (q + 1) * c
      BY <1>2
    <2>2. 0 < q + 1
      BY <2>1, TimesKeepsOrder, 0 \in Int, q + 1 \in Int
    <2>3. QED
      BY <2>2
  <1>4. (q + 1) * c = q * c + c
    OBVIOUS
  <1>5. ASSUME NEW p \in Nat PROVE (p * c) % c = 0
    <2>1. p * c \in Int /\ p * c <= p * c /\ p * c < (p + 1) * c
      OBVIOUS
    <2>2. (p * c) \div c = p
      BY <2>1, QuotientIs
    <2>3. (p * c) % c = p * c - ((p * c) \div c) * c
      BY <2>1, Quotient
    <2>4. QED
      BY <2>1, <2>2, <2>3
  <1>6. ASSUME NEW p \in Nat, NEW r \in Nat, r * c <= a, a < r * c + c, p * c <= a, a < p * c + c
        PROVE  p = r
    <2>1. a < (p + 1) * c /\ a < (r + 1) * c
      BY <1>6
    <2>2. a \div c = p
      BY <1>6, <2>1, QuotientIs
    <2>3. a \div c = r
      BY <1>6, <2>1, QuotientIs
    <2>4. QED
      BY <2>2, <2>3
  <1>7. a % c = 0 => a = q * c
    BY <1>2
  <1>8. QED
    BY <1>2, <1>3, <1>4, <1>5, <1>6, <1>7

\* Every frame lies in the core of exactly one window.
LEMMA CoresCoverFrames ==
  ASSUME NEW n \in Nat \ {0}, Partition(scenes, n), NEW w \in WindowPolicy, NEW f \in 0 .. n - 1
  PROVE  Cardinality({x \in Windows(w) : x.from <= f /\ f < x.to}) = 1
  <1>1. PICK core \in Nat \ {0} : core = w.core
    BY DEF WindowPolicy
  <1>2. PICK i \in DOMAIN scenes : scenes[i].start <= f /\ f < scenes[i].end
    BY DEF Partition
  <1>3. f \in Nat
    OBVIOUS
  <1>4. PICK a \in Nat, b \in Nat : a = scenes[i].start /\ b = scenes[i].end
    BY SceneFields DEF Partition
  <1>5. PICK q \in Nat : q * core <= f - a /\ f - a < q * core + core
    <2>1. f - a \in Nat
      BY <1>2, <1>3, <1>4
    <2>2. QED
      BY <2>1, MultipleBelow
  <1>6. PICK from \in Nat : from = a + q * core /\ a <= from /\ from <= f /\ f < from + core
    BY <1>5
  <1> DEFINE home == Window(w, i, from)
             here == {x \in Windows(w) : x.from <= f /\ f < x.to}
  <1>7. home \in Windows(w)
    <2>1. (from - a) % core = 0
      <3>1. from - a = q * core
        BY <1>6
      <3>2. QED
        BY <3>1, MultipleBelow
    <2>2. from \in a .. b - 1
      BY <1>2, <1>4, <1>6
    <2>3. QED
      BY <1>1, <1>4, <2>1, <2>2 DEF Windows
  <1>8. home.from <= f /\ f < home.to
    <2>1. from < b
      BY <1>2, <1>4, <1>6
    <2>2. home.from = from /\ home.to = Smaller(from + w.core, b)
      BY <1>4, <1>6, <2>1, WindowFacts
    <2>3. QED
      BY <1>1, <1>2, <1>4, <1>6, <2>2 DEF Smaller
  <1>9. ASSUME NEW x \in Windows(w), x.from <= f, f < x.to
        PROVE  x = home
    <2>1. PICK j \in DOMAIN scenes, g \in Int :
            /\ g \in scenes[j].start .. scenes[j].end - 1
            /\ (g - scenes[j].start) % w.core = 0
            /\ x = Window(w, j, g)
      BY <1>9 DEF Windows
    <2>2. PICK c \in Nat, d \in Nat : c = scenes[j].start /\ d = scenes[j].end
      BY SceneFields DEF Partition
    <2>3. g \in Nat /\ c <= g /\ g < d /\ (g - c) % core = 0
      BY <1>1, <2>1, <2>2
    <2>4. x.from = g /\ x.to = Smaller(g + w.core, d)
      BY <2>1, <2>2, <2>3, WindowFacts
    <2>5. g <= f /\ f < g + core /\ f < d
      BY <1>1, <1>9, <2>2, <2>3, <2>4 DEF Smaller
    <2>6. j = i
      <3>1. n \in Nat /\ scenes[j].start <= f /\ f < scenes[j].end
        BY <2>2, <2>3, <2>5
      <3>2. SceneOf(f) = j
        BY <1>3, <3>1, SceneOfIs
      <3>3. SceneOf(f) = i
        BY <1>2, <1>3, <3>1, SceneOfIs
      <3>4. QED
        BY <3>2, <3>3
    <2>7. c = a
      BY <1>4, <2>2, <2>6
    <2>8. PICK p \in Nat : g - a = p * core
      <3>1. g - a \in Nat /\ (g - a) % core = 0
        BY <2>3, <2>7
      <3>2. QED
        BY <3>1, MultipleBelow
    <2>9. p = q
      <3>1. f - a \in Nat /\ p * core <= f - a /\ f - a < p * core + core
        BY <1>3, <1>6, <2>5, <2>8
      <3>2. QED
        BY <1>5, <3>1, MultipleBelow
    <2>10. g = from
      BY <1>6, <2>8, <2>9
    <2>11. QED
      BY <2>1, <2>6, <2>10
  <1>10. here = {home}
    BY <1>7, <1>8, <1>9
  <1>11. QED
    BY <1>10, FS_Singleton

\* No window reaches outside its scene.
LEMMA WindowsKeepScenes ==
  ASSUME NEW n \in Nat \ {0}, Partition(scenes, n), NEW w \in WindowPolicy, NEW x \in Windows(w)
  PROVE  /\ x.inputFrom <= x.from /\ x.to <= x.inputTo
         /\ SceneOf(x.inputFrom) = x.scene /\ SceneOf(x.inputTo - 1) = x.scene
  <1>1. PICK j \in DOMAIN scenes, g \in Int :
          /\ g \in scenes[j].start .. scenes[j].end - 1
          /\ x = Window(w, j, g)
    BY DEF Windows
  <1>2. PICK a \in Nat, b \in Nat : a = scenes[j].start /\ b = scenes[j].end
    BY SceneFields DEF Partition
  <1>3. g \in Nat /\ a <= g /\ g < b
    BY <1>1, <1>2
  <1>4. /\ x.scene = j /\ x.from = g /\ x.inputFrom \in a .. g
        /\ x.inputTo \in x.to .. b /\ x.to \in g + 1 .. b
    BY <1>1, <1>2, <1>3, WindowFacts
  <1>5. PICK l \in Nat : l = x.inputFrom /\ a <= l /\ l <= g
    BY <1>3, <1>4
  <1>6. PICK m \in Nat : m = x.inputTo - 1 /\ a <= m /\ m < b
    BY <1>3, <1>4
  <1>7. SceneOf(l) = j
    <2>1. scenes[j].start <= l /\ l < scenes[j].end /\ n \in Nat
      BY <1>2, <1>3, <1>5
    <2>2. QED
      BY <2>1, SceneOfIs
  <1>8. SceneOf(m) = j
    <2>1. scenes[j].start <= m /\ m < scenes[j].end /\ n \in Nat
      BY <1>2, <1>6
    <2>2. QED
      BY <2>1, SceneOfIs
  <1>9. QED
    BY <1>4, <1>5, <1>6, <1>7, <1>8

\* The fields of a tick.
LEMMA TickFacts ==
  ASSUME NEW m \in Nat, NEW r, NEW a \in Nat \ {0}, NEW b \in Nat \ {0}, r[1] = a, r[2] = b,
         NEW n \in Nat \ {0}, frames = n, NEW q \in Nat, q * b <= m * a, m * a < (q + 1) * b
  PROVE  /\ Tick(m, r).left = Smaller(q, n - 1)
         /\ SceneOf(Tick(m, r).left) = SceneOf(Tick(m, r).right)
         /\ Tick(m, r).right # Tick(m, r).left =>
              0 < Tick(m, r).offset /\ Tick(m, r).offset < Tick(m, r).over
  <1>1. PICK x \in Int : x = m * a
    OBVIOUS
  <1>2. x \div b = q /\ x % b = x - q * b
    <2>1. q \in Int /\ q * b <= x /\ x < (q + 1) * b
      BY <1>1
    <2>2. x \div b = q
      BY <2>1, QuotientIs
    <2>3. QED
      BY <2>2, Quotient
  <1>3. PICK left \in Nat : left = Smaller(q, n - 1)
    BY DEF Smaller
  <1>4. PICK alone : alone <=> \/ x % b = 0
                               \/ left + 1 >= n
                               \/ SceneOf(left) # SceneOf(left + 1)
    OBVIOUS
  <1>5. Tick(m, r) = [left |-> left, right |-> IF alone THEN left ELSE left + 1,
                      offset |-> IF alone THEN 0 ELSE x - left * b, over |-> b]
    BY <1>1, <1>2, <1>3, <1>4 DEF Tick
  <1>6. /\ Tick(m, r).left = left
        /\ Tick(m, r).right = IF alone THEN left ELSE left + 1
        /\ Tick(m, r).offset = IF alone THEN 0 ELSE x - left * b
        /\ Tick(m, r).over = b
    BY <1>5
  <1>7. CASE alone
    BY <1>3, <1>6, <1>7
  <1>8. CASE ~alone
    <2>1. left = q
      BY <1>3, <1>4, <1>8 DEF Smaller
    <2>2. x - q * b # 0 /\ x - q * b >= 0 /\ x - q * b < b
      <3>1. x % b # 0
        BY <1>4, <1>8
      <3>2. x % b \in Nat /\ x % b < b
        BY Quotient
      <3>3. QED
        BY <1>2, <3>1, <3>2
    <2>3. SceneOf(left) = SceneOf(left + 1)
      BY <1>4, <1>8
    <2>4. QED
      BY <1>3, <1>6, <1>8, <2>1, <2>2, <2>3
  <1>9. QED
    BY <1>7, <1>8

\* The input frame of a tick, with its position.
LEMMA TickQuotient ==
  ASSUME NEW m \in Nat, NEW a \in Nat \ {0}, NEW b \in Nat \ {0}
  PROVE  \E q \in Nat : q * b <= m * a /\ m * a < (q + 1) * b
  <1>1. PICK x \in Nat : x = m * a
    OBVIOUS
  <1>2. PICK q \in Nat : q * b <= x /\ x < q * b + b
    BY MultipleBelow
  <1>3. q * b + b = (q + 1) * b
    OBVIOUS
  <1>4. QED
    BY <1>1, <1>2, <1>3

\* The tick rounded up to a frame falls on that frame.
LEMMA TickOfFrame ==
  ASSUME NEW m \in Nat, NEW g \in Nat, NEW n \in Nat, g < n, NEW last \in Nat,
         NEW a \in Nat \ {0}, NEW b \in Nat \ {0}, a <= b,
         (m - 1) * a < g * b, n * b <= last * a
  PROVE  m * a < (g + 1) * b /\ m < last
  <1>1. PICK x \in Int, y \in Int, z \in Int, u \in Int :
          x = m * a /\ y = g * b /\ z = n * b /\ u = last * a
    OBVIOUS
  <1>2. (m - 1) * a = x - a /\ (g + 1) * b = y + b
    BY <1>1
  <1>3. x < y + b
    BY <1>1, <1>2
  <1>4. (g + 1) * b <= n * b
    <2>1. g + 1 <= n /\ g + 1 \in Int /\ n \in Int
      OBVIOUS
    <2>2. QED
      BY <2>1, TimesKeepsOrder
  <1>5. m * a < last * a
    BY <1>1, <1>2, <1>3, <1>4
  <1>6. m < last
    BY <1>5, TimesKeepsOrder, m \in Int, last \in Int
  <1>7. QED
    BY <1>1, <1>2, <1>3, <1>6

\* One of the first ticks falls on frame f.
Reached(f, last, r) == \E m \in Nat : m < last /\ Tick(m, r).left = f

\* Some tick falls on each frame.
LEMMA TickReaches ==
  ASSUME NEW n \in Nat \ {0}, frames = n, NEW r, NEW a \in Nat \ {0}, NEW b \in Nat \ {0},
         r[1] = a, r[2] = b, a <= b, NEW last \in Nat, n * b <= last * a, NEW g \in Nat, g < n
  PROVE  Reached(g, last, r)
  <1>1. g * b \in Int /\ g * b >= 0
    OBVIOUS
  <1>2. PICK m \in Nat : g * b <= m * a /\ (m - 1) * a < g * b
    BY <1>1, CeilingFacts
  <1>3. m * a < (g + 1) * b /\ m < last
    BY <1>2, TickOfFrame
  <1>4. Tick(m, r).left = Smaller(g, n - 1)
    BY <1>2, <1>3, TickFacts
  <1>5. QED
    BY <1>3, <1>4 DEF Smaller, Reached

\* A later tick never falls on an earlier frame.
LEMMA TicksRise ==
  ASSUME NEW n \in Nat \ {0}, frames = n, NEW r, NEW a \in Nat \ {0}, NEW b \in Nat \ {0},
         r[1] = a, r[2] = b, NEW m \in Nat, NEW k \in Nat, k = m + 1
  PROVE  Tick(m, r).left <= Tick(k, r).left
  <1>1. PICK p \in Nat : p * b <= m * a /\ m * a < (p + 1) * b
    BY TickQuotient
  <1>2. PICK q \in Nat : q * b <= k * a /\ k * a < (q + 1) * b
    BY TickQuotient
  <1>3. Tick(m, r).left = Smaller(p, n - 1)
    BY <1>1, TickFacts
  <1>4. Tick(k, r).left = Smaller(q, n - 1)
    BY <1>2, TickFacts
  <1>5. p <= q
    <2>1. m * a <= k * a
      BY TimesKeepsOrder, m \in Int, k \in Int
    <2>2. p * b < (q + 1) * b
      <3>1. p * b \in Int /\ m * a \in Int /\ k * a \in Int /\ (q + 1) * b \in Int
        OBVIOUS
      <3>2. QED
        BY <1>1, <1>2, <2>1, <3>1
    <2>3. p < q + 1
      BY <2>2, TimesKeepsOrder, p \in Int, q + 1 \in Int
    <2>4. QED
      BY <2>3
  <1>6. QED
    BY <1>3, <1>4, <1>5 DEF Smaller

\* The pair of a tick keeps to the scene of its frame.
LEMMA TickKeepsScene ==
  ASSUME NEW n \in Nat \ {0}, frames = n, NEW r, NEW a \in Nat \ {0}, NEW b \in Nat \ {0},
         r[1] = a, r[2] = b, NEW m \in Nat
  PROVE  /\ SceneOf(Tick(m, r).left) = SceneOf(Tick(m, r).right)
         /\ Tick(m, r).right # Tick(m, r).left =>
              0 < Tick(m, r).offset /\ Tick(m, r).offset < Tick(m, r).over
  <1>1. PICK q \in Nat : q * b <= m * a /\ m * a < (q + 1) * b
    BY TickQuotient
  <1>2. QED
    BY <1>1, TickFacts

\* What ScenesAreKept says of the ticks.
Interpolated(made, n) ==
  /\ \A f \in 0 .. n - 1 : \E t \in DOMAIN made : made[t].left = f
  /\ \A t \in DOMAIN made :
       /\ SceneOf(made[t].left) = SceneOf(made[t].right)
       /\ made[t].right # made[t].left =>
            0 < made[t].offset /\ made[t].offset < made[t].over
       /\ t > 1 => made[t - 1].left <= made[t].left

\* The ticks of an interpolated timeline reach every frame in order, and no
\* pair leaves the scene of its frame.
LEMMA TicksKeepScenes ==
  ASSUME NEW n \in Nat \ {0}, frames = n, NEW r \in Rate, r[1] <= r[2],
         NEW made, made = [i \in 1 .. Ceiling(n * r[2], r[1]) |-> Tick(i - 1, r)]
  PROVE  Interpolated(made, n)
  <1>1. PICK a \in Nat \ {0}, b \in Nat \ {0} : r[1] = a /\ r[2] = b /\ a <= b
    BY RateFields
  <1>2. n * b \in Int /\ n * b > 0
    OBVIOUS
  <1>3. PICK last \in Nat \ {0} : last = Ceiling(n * b, a) /\ n * b <= last * a
    BY <1>2, CeilingFacts
  <1>4. DOMAIN made = 1 .. last /\ \A t \in 1 .. last : made[t] = Tick(t - 1, r)
    BY <1>1, <1>3
  <1>5. ASSUME NEW f \in 0 .. n - 1
        PROVE  \E t \in DOMAIN made : made[t].left = f
    <2>1. f \in Nat /\ f < n /\ last \in Nat
      OBVIOUS
    <2>2. n * b <= last * a /\ r[1] = a /\ r[2] = b /\ a <= b
      BY <1>1, <1>3
    <2>3. Reached(f, last, r)
      BY <2>1, <2>2, TickReaches
    <2>4. PICK m \in Nat : m < last /\ Tick(m, r).left = f
      BY <2>3 DEF Reached
    <2>5. PICK k \in 1 .. last : k = m + 1 /\ k - 1 = m
      BY <2>4
    <2>6. QED
      BY <1>4, <2>4, <2>5
  <1>6. ASSUME NEW t \in 1 .. last
        PROVE  /\ SceneOf(made[t].left) = SceneOf(made[t].right)
               /\ made[t].right # made[t].left =>
                    0 < made[t].offset /\ made[t].offset < made[t].over
    <2>1. PICK m \in Nat : m = t - 1
      OBVIOUS
    <2>2. /\ SceneOf(Tick(m, r).left) = SceneOf(Tick(m, r).right)
          /\ Tick(m, r).right # Tick(m, r).left =>
               0 < Tick(m, r).offset /\ Tick(m, r).offset < Tick(m, r).over
      BY <1>1, TickKeepsScene
    <2>3. made[t] = Tick(m, r)
      BY <1>4, <2>1
    <2>4. QED
      BY <2>2, <2>3
  <1>7. ASSUME NEW t \in 1 .. last, t > 1
        PROVE  made[t - 1].left <= made[t].left
    <2>1. PICK m \in Nat, k \in Nat, s \in 1 .. last :
            s = t - 1 /\ m = s - 1 /\ k = t - 1 /\ k = m + 1
      BY <1>7
    <2>2. Tick(m, r).left <= Tick(k, r).left
      BY <1>1, <2>1, TicksRise
    <2>3. made[s] = Tick(m, r) /\ made[t] = Tick(k, r)
      BY <1>4, <2>1
    <2>4. QED
      BY <2>1, <2>2, <2>3
  <1>8. QED
    BY <1>4, <1>5, <1>6, <1>7 DEF Interpolated

\* Windows cover every frame by one core, interpolation reaches every frame,
\* and neither mixes scenes.
THEOREM PlansKeepScenes == PlanSpec => []ScenesAreKept
  <1>1. Timed /\ SceneInv /\ PlannedOver => ScenesAreKept
    <2> SUFFICES ASSUME Timed, SceneInv, PlannedOver PROVE ScenesAreKept
      OBVIOUS
    <2>1. ASSUME stage = "windows"
          PROVE  /\ \A f \in 0 .. frames - 1 :
                      Cardinality({w \in windows : w.from <= f /\ f < w.to}) = 1
                 /\ \A w \in windows :
                      /\ w.inputFrom <= w.from /\ w.to <= w.inputTo
                      /\ SceneOf(w.inputFrom) = w.scene /\ SceneOf(w.inputTo - 1) = w.scene
      <3>1. PICK w \in WindowPolicy : windows = Windows(w)
        BY <2>1, PlannerAssumption DEF PlannedOver
      <3>2. frames \in Nat \ {0} /\ Partition(scenes, frames)
        BY <2>1 DEF Timed, SceneInv
      <3>3. \A f \in 0 .. frames - 1 :
              Cardinality({x \in Windows(w) : x.from <= f /\ f < x.to}) = 1
        BY <3>2, CoresCoverFrames
      <3>4. \A x \in Windows(w) :
              /\ x.inputFrom <= x.from /\ x.to <= x.inputTo
              /\ SceneOf(x.inputFrom) = x.scene /\ SceneOf(x.inputTo - 1) = x.scene
        BY <3>2, WindowsKeepScenes
      <3>5. QED
        BY <3>1, <3>3, <3>4
    <2>2. ASSUME stage = "ticks"
          PROVE  /\ \A f \in 0 .. frames - 1 : \E t \in DOMAIN ticks : ticks[t].left = f
                 /\ \A t \in DOMAIN ticks :
                      /\ SceneOf(ticks[t].left) = SceneOf(ticks[t].right)
                      /\ ticks[t].right # ticks[t].left =>
                           0 < ticks[t].offset /\ ticks[t].offset < ticks[t].over
                      /\ t > 1 => ticks[t - 1].left <= ticks[t].left
      <3>1. PICK r \in Steps :
              ticks = [i \in 1 .. Ceiling(frames * r[2], r[1]) |-> Tick(i - 1, r)]
        BY <2>2 DEF PlannedOver
      <3>2. r \in Rate /\ r[1] <= r[2]
        BY PlannerAssumption
      <3>3. PICK n \in Nat \ {0} : n = frames
        BY <2>2 DEF Timed
      <3>4. PICK made : made = ticks
        OBVIOUS
      <3>5. made = [i \in 1 .. Ceiling(n * r[2], r[1]) |-> Tick(i - 1, r)]
        BY <3>1, <3>3, <3>4
      <3>6. frames = n
        BY <3>3
      <3>7. Interpolated(made, n)
        BY <3>2, <3>5, <3>6, TicksKeepScenes
      <3>8. QED
        BY <3>4, <3>6, <3>7 DEF Interpolated
    <2>3. QED
      BY <2>1, <2>2 DEF ScenesAreKept
  <1>2. QED
    BY <1>1, TimelineInvariance, SceneInvariance, PlannedOverInvariance, PTL

-----------------------------------------------------------------------------
(***************************************************************************)
(* The chunks of a planned timeline: the loop of plan_chunks starts with   *)
(* nothing placed, over scene ends inside the output.                      *)
(***************************************************************************)
ChunkInv ==
  /\ TypeOK /\ CoveredOnce /\ CoresAreContiguous /\ CoreLengthsBounded /\ ContextInside
  /\ stage # "chunks" => start = 0 /\ chunks = <<>>

\* The recorded bounds are scene ends that a request may name.
LEMMA BoundsAreInside ==
  ASSUME Timed, SceneInv, stage = "scenes"
  PROVE  Bounds \subseteq 1 .. frames - 1 /\ frames \in Nat \ {0}
  <1>1. PICK n \in Nat \ {0} : n = frames
    BY DEF Timed
  <1>2. PICK parts \in Seq(SceneRecord) : parts = scenes /\ Partition(parts, n)
    BY <1>1 DEF SceneInv, Partition
  <1>3. ASSUME NEW b \in Bounds PROVE b \in 1 .. n - 1
    <2>1. PICK i \in 2 .. Len(parts) : b = parts[i].start
      BY <1>2 DEF Bounds
    <2>2. i \in DOMAIN parts /\ i # 1
      OBVIOUS
    <2>3. /\ parts[i].start \in Nat /\ parts[i].end \in Nat
          /\ parts[i].start < parts[i].end /\ parts[i].end <= n /\ parts[i].start > 0
      BY <1>2, <2>2, SceneInside
    <2>4. QED
      BY <2>1, <2>3
  <1>4. QED
    BY <1>1, <1>3

\* BeginChunks asks for a valid request.
LEMMA ChunksBegin ==
  ASSUME Timed, SceneInv, ChunkInv, BeginChunks
  PROVE  ChunkInv'
  <1>1. /\ stage = "scenes" /\ stage' = "chunks" /\ start' = start /\ chunks' = chunks
    BY DEF BeginChunks
  <1>2. PICK r \in Requests : request' = [r EXCEPT !.frames = frames, !.sceneEnds = Bounds]
    BY DEF BeginChunks
  <1>3. r \in Request
    BY RequestAssumption
  <1>4. PICK n \in Nat \ {0}, ends \in SUBSET Nat :
          n = frames /\ ends = Bounds /\ ends \subseteq 1 .. n - 1
    <2>1. Bounds \subseteq 1 .. frames - 1 /\ frames \in Nat \ {0}
      BY <1>1, BoundsAreInside
    <2>2. Bounds \in SUBSET Nat
      BY <2>1
    <2>3. QED
      BY <2>1, <2>2
  <1>5. request' = [r EXCEPT !.frames = n, !.sceneEnds = ends]
    BY <1>2, <1>4
  <1>6. /\ request' \in Request /\ request'.sceneEnds \subseteq 1 .. (request'.frames - 1)
    BY <1>3, <1>4, <1>5 DEF Request
  <1>7. start' = 0 /\ chunks' = <<>>
    BY <1>1 DEF ChunkInv
  <1>8. TypeOK'
    BY <1>6, <1>7 DEF TypeOK
  <1>9. CoveredOnce'
    BY <1>6, <1>7 DEF CoveredOnce, Covering, Request
  <1>10. CoreLengthsBounded'
    BY <1>6, <1>7 DEF CoreLengthsBounded
  <1>11. CoresAreContiguous' /\ ContextInside'
    BY <1>7 DEF CoresAreContiguous, ContextInside
  <1>12. QED
    BY <1>1, <1>8, <1>9, <1>10, <1>11 DEF ChunkInv

\* The chunks of a planned timeline cover each of its frames exactly once, one
\* behind the other, with cores inside their bounds and context inside the output,
\* whatever the scan found.
THEOREM PlannedChunksHold ==
  PlanSpec => [](EveryFrameOnce /\ CoreLengthsBounded /\ CoresAreContiguous /\ ContextInside)
  <1>1. PlanInit => ChunkInv
    <2> SUFFICES ASSUME PlanInit PROVE ChunkInv
      OBVIOUS
    <2>1. request \in Requests
      BY PlannerAssumption DEF PlanInit
    <2>2. /\ request \in Request /\ request.sceneEnds \subseteq 1 .. (request.frames - 1)
          /\ start = 0 /\ chunks = <<>>
      BY <2>1, RequestAssumption DEF PlanInit
    <2>3. TypeOK
      BY <2>2 DEF TypeOK
    <2>4. CoveredOnce
      BY <2>2 DEF CoveredOnce, Covering, Request
    <2>5. CoreLengthsBounded
      BY <2>2 DEF CoreLengthsBounded
    <2>6. CoresAreContiguous /\ ContextInside
      BY <2>2 DEF CoresAreContiguous, ContextInside
    <2>7. QED
      BY <2>2, <2>3, <2>4, <2>5, <2>6 DEF ChunkInv
  <1>2. Timed /\ SceneInv /\ ChunkInv /\ [PlanNext]_planVars => ChunkInv'
    <2> SUFFICES ASSUME Timed, SceneInv, ChunkInv, [PlanNext]_planVars PROVE ChunkInv'
      OBVIOUS
    <2>1. CASE NextChunk
      <3>1. stage = "chunks" /\ stage' = "chunks" /\ PlaceChunk /\ [Next]_vars
        BY <2>1 DEF NextChunk, Next
      <3>2. TypeOK /\ CoveredOnce /\ CoreLengthsBounded /\ CoresAreContiguous /\ ContextInside
        BY DEF ChunkInv
      <3>3. TypeOK'
        BY <3>1, <3>2, TypeKept
      <3>4. CoveredOnce'
        BY <3>1, <3>2, OnceKept
      <3>5. CoreLengthsBounded'
        BY <3>1, <3>2, LengthsKept
      <3>6. CoresAreContiguous' /\ ContextInside'
        BY <3>1, <3>2, ContiguousKept, ContextKept
      <3>7. QED
        BY <3>1, <3>3, <3>4, <3>5, <3>6 DEF ChunkInv
    <2>2. CASE \/ PlanTimeline \/ BeginScan \/ ScanFrame \/ DetectScene \/ PlanWindows
               \/ PlanInterpolation \/ BeginSamples \/ FillBin \/ UNCHANGED planVars
      <3>1. UNCHANGED <<request, start, chunks>> /\ (stage' = "chunks" <=> stage = "chunks")
        BY <2>2 DEF PlanTimeline, BeginScan, ScanFrame, DetectScene, PlanWindows,
                    PlanInterpolation, BeginSamples, FillBin, planVars, chunking
      <3>2. [Next]_vars
        BY <3>1 DEF vars
      <3>3. TypeOK /\ CoveredOnce /\ CoreLengthsBounded /\ CoresAreContiguous /\ ContextInside
        BY DEF ChunkInv
      <3>4. /\ TypeOK' /\ CoveredOnce' /\ CoreLengthsBounded'
            /\ CoresAreContiguous' /\ ContextInside'
        BY <3>2, <3>3, TypeKept, OnceKept, LengthsKept, ContiguousKept, ContextKept
      <3>5. QED
        BY <3>1, <3>4 DEF ChunkInv
    <2>3. QED
      BY <2>1, <2>2, ChunksBegin DEF PlanNext
  <1>3. ChunkInv => EveryFrameOnce /\ CoreLengthsBounded /\ CoresAreContiguous /\ ContextInside
    BY OnceMeansOnce DEF ChunkInv
  <1>4. QED
    BY <1>1, <1>2, <1>3, TimelineInvariance, SceneInvariance, PTL DEF PlanSpec
=============================================================================
