---------------------------- MODULE ReleaseProofs ----------------------------
(***************************************************************************)
(* Theorems about Release: for any matrix of cases, any receipts, weight   *)
(* files, requests and resources, and any number of replaced files.        *)
(***************************************************************************)
EXTENDS Release, FiniteSetTheorems, WellFoundedInduction, TLAPS

Result == [state : GateState, judged : Receipt]
Record == [capabilities : [Capability -> BOOLEAN], results : [Case -> Result]]
Artifact == [root : Roots, sha : Nat, header : Weight, license : {"none", "verified"}]
Steps == {"start", "recipe", "weight", "header", "plan", "admit", "verify", "started"}
Planned == {"plan", "admit", "verify", "started"}
Job == [step : Steps, record : Record, kind : {"none", "lanczos", "neural", "interpolation"},
        large : BOOLEAN, artifact : Artifact,
        plan : [source : Nat, environment : Nat, request : Requests], live : Lives]

TypeInv ==
  /\ receipt \in [Case -> Receipt]
  /\ script \in [at : {"idle", "hash", "parse", "report", "record"}, case : Case,
                 results : [Case -> Result]]
  /\ record \in Record /\ job \in Job
  /\ weight \in [Roots -> Weight] /\ \A r \in Roots : IsFiniteSet(weight[r].tensors)
  /\ live \in [source : Nat, environment : Nat] /\ swapped \in BOOLEAN

\* A case counts as passed only by a receipt that qualifies.
Sound(results) == \A c \in Case : results[c].state = "PASS" => Qualifies(results[c].judged, c)

\* A record claims only what its results show.
Backed(r) == \A k \in Capability : r.capabilities[k] =>
               \A c \in Requirement[k] : Qualifies(r.results[c].judged, c)

\* The script, the record and the recipe: each is derived from the one before.
Qualified ==
  /\ Sound(script.results) /\ Backed(record) /\ Backed(job.record)
  /\ \A k \in Needed(job.kind, job.large) : job.record.capabilities[k]

\* resolve: the hash is of the file while nobody replaces it, and the header
\* that was accepted lays out its tensors.
Resolved ==
  /\ job.step \in {"weight", "header"} => job.kind = "neural"
  /\ job.step = "header" \/ (job.kind = "neural" /\ job.step \in Planned) =>
       job.artifact.sha = Entry.sha /\ job.artifact.license = "verified"
  /\ job.step = "header" /\ ~swapped => weight[job.artifact.root].sha = Entry.sha
  /\ job.kind = "neural" /\ job.step \in Planned =>
       /\ IsFiniteSet(job.artifact.header.tensors) /\ LaidOut(job.artifact.header)
       /\ ~swapped => job.artifact.header.sha = Entry.sha

\* admit: the resources that were found admit the plan.
Admitted == job.step \in {"verify", "started"} => Admits(job.plan.request, job.live)

Inv == TypeInv /\ Qualified /\ Resolved /\ Admitted
-----------------------------------------------------------------------------
(***************************************************************************)
(* inspect_safetensors: tensors that follow each other in the order of     *)
(* their offsets take every byte once.                                     *)
(***************************************************************************)
Tensors == [name : Nat, start : Nat, end : Nat, size : Nat]

\* A set of natural numbers that is not empty has a least element.
LEMMA LeastNumber ==
  ASSUME NEW T, T \subseteq Nat, T # {}
  PROVE  \E n \in T : \A m \in T : n <= m
  <1> DEFINE R == OpToRel(<, Nat)
  <1>1. IsWellFoundedOn(R, Nat)
    BY NatLessThanWellFounded
  <1>2. \A x, y \in Nat : y < x => <<y, x>> \in R
    BY DEF OpToRel
  <1> HIDE DEF R
  <1>3. PICK x \in T : \A y \in T : <<y, x>> \notin R
    BY <1>1, WFMin
  <1>4. \A y \in T : ~(y < x)
    BY <1>2, <1>3
  <1>5. QED
    BY <1>4

\* The order of the offsets is total where sizes are what the offsets say.
LEMMA BeforeIsTotal ==
  ASSUME NEW t \in Tensors, NEW u \in Tensors, t.end - t.start = t.size, u.end - u.start = u.size
  PROVE  t = u \/ Before(t, u) \/ Before(u, t)
  <1>1. CASE t.start = u.start /\ t.end = u.end /\ t.name = u.name
    <2>1. t.size = u.size
      BY <1>1
    <2>2. QED
      BY <1>1, <2>1 DEF Tensors
  <1>2. CASE ~(t.start = u.start /\ t.end = u.end /\ t.name = u.name)
    BY <1>2 DEF Before, Tensors
  <1>3. QED
    BY <1>1, <1>2

\* It is transitive, and nothing is before itself.
LEMMA BeforeIsStrict ==
  ASSUME NEW t \in Tensors, NEW u \in Tensors, NEW v \in Tensors
  PROVE  ~Before(t, t) /\ (Before(t, u) /\ Before(u, v) => Before(t, v))
  BY DEF Before, Tensors

\* A set of tensors that is not empty has a first one.
LEMMA FirstTensor ==
  ASSUME NEW S, S \subseteq Tensors, S # {}, \A t \in S : t.end - t.start = t.size
  PROVE  \E l \in S : \A u \in S : u = l \/ Before(l, u)
  <1> DEFINE Starts == {t.start : t \in S}
  <1>1. Starts \subseteq Nat /\ Starts # {}
    BY DEF Tensors
  <1>2. PICK s \in Starts : \A n \in Starts : s <= n
    BY <1>1, LeastNumber
  <1> DEFINE Ends == {t.end : t \in {u \in S : u.start = s}}
  <1>3. Ends \subseteq Nat /\ Ends # {}
    BY DEF Tensors
  <1>4. PICK e \in Ends : \A n \in Ends : e <= n
    BY <1>3, LeastNumber
  <1> DEFINE Labels == {t.name : t \in {u \in S : u.start = s /\ u.end = e}}
  <1>5. Labels \subseteq Nat /\ Labels # {}
    BY <1>4 DEF Tensors
  <1>6. PICK a \in Labels : \A n \in Labels : a <= n
    BY <1>5, LeastNumber
  <1>7. PICK l \in S : l.start = s /\ l.end = e /\ l.name = a
    BY <1>6
  <1>8. ASSUME NEW u \in S
        PROVE  u = l \/ Before(l, u)
    <2>1. s <= u.start /\ (u.start = s => e <= u.end)
      BY <1>2, <1>4
    <2>2. u.start = s /\ u.end = e => a <= u.name
      BY <1>6
    <2>3. s \in Nat /\ e \in Nat /\ a \in Nat /\ u \in Tensors
      BY <1>1, <1>3, <1>5
    <2> HIDE DEF Starts, Ends, Labels
    <2>4. ~Before(u, l)
      BY <1>7, <2>1, <2>2, <2>3 DEF Before, Tensors
    <2>5. QED
      BY <1>7, <2>4, BeforeIsTotal
  <1>9. QED
    BY <1>8

\* A finite set of tensors that is not empty has a last one.
LEMMA LastTensor ==
  ASSUME NEW S, IsFiniteSet(S), S \subseteq Tensors, S # {}, \A t \in S : t.end - t.start = t.size
  PROVE  \E g \in S : \A u \in S \ {g} : Before(u, g)
  <1> DEFINE HasLast(U) == \E g \in U : \A u \in U \ {g} : Before(u, g)
             Bad == {U \in SUBSET S : U # {} /\ ~HasLast(U)}
             Sizes == {Cardinality(U) : U \in Bad}
  <1> SUFFICES ASSUME Bad # {} PROVE FALSE
    OBVIOUS
  <1>1. \A U \in SUBSET S : IsFiniteSet(U) /\ Cardinality(U) \in Nat
    BY FS_Subset, FS_CardinalityType
  <1>2. Sizes \subseteq Nat /\ Sizes # {}
    BY <1>1
  <1>3. PICK n \in Sizes : \A m \in Sizes : n <= m
    BY <1>2, LeastNumber
  <1>4. PICK U \in Bad : Cardinality(U) = n
    BY <1>3
  <1>5. PICK x \in U : TRUE
    BY <1>4
  <1> DEFINE V == U \ {x}
  <1>6. V \in SUBSET S /\ Cardinality(V) = n - 1 /\ n \in Nat
    BY <1>1, <1>2, <1>3, <1>4, <1>5, FS_RemoveElement
  <1>7. V \notin Bad
    <2>1. V \in Bad => Cardinality(V) \in Sizes
      OBVIOUS
    <2>2. ~(n <= n - 1)
      BY <1>6
    <2> HIDE DEF V, Bad, Sizes
    <2>3. QED
      BY <1>3, <1>6, <2>1, <2>2
  <1>8. CASE V = {}
    BY <1>4, <1>5, <1>8
  <1>9. CASE V # {}
    <2>1. PICK g \in V : \A u \in V \ {g} : Before(u, g)
      BY <1>6, <1>7, <1>9
    <2>2. x \in Tensors /\ g \in Tensors /\ x # g
      BY <1>4, <1>5, <2>1
    <2>3. x.end - x.start = x.size /\ g.end - g.start = g.size
      BY <1>4, <1>5, <2>1
    <2>4. CASE Before(x, g)
      BY <1>4, <1>5, <2>1, <2>4
    <2>5. CASE Before(g, x)
      <3>1. \A u \in U \ {x} : Before(u, x)
        BY <1>4, <2>1, <2>2, <2>5, BeforeIsStrict
      <3>2. QED
        BY <1>4, <1>5, <3>1
    <2>6. QED
      BY <2>2, <2>3, <2>4, <2>5, BeforeIsTotal
  <1>10. QED
    BY <1>8, <1>9

\* EndOf is the end of the last.
LEMMA EndOfLast ==
  ASSUME NEW S, IsFiniteSet(S), S \subseteq Tensors, S # {}, \A t \in S : t.end - t.start = t.size
  PROVE  \E g \in S : (\A u \in S \ {g} : Before(u, g)) /\ EndOf(S) = g.end
  <1>1. \E g \in S : \A u \in S \ {g} : Before(u, g)
    BY LastTensor
  <1> DEFINE g == CHOOSE t \in S : \A u \in S \ {t} : Before(u, t)
  <1>2. g \in S /\ \A u \in S \ {g} : Before(u, g)
    BY <1>1
  <1>3. EndOf(S) = g.end
    BY DEF EndOf
  <1>4. QED
    BY <1>2, <1>3

\* In a file that is laid out a tensor ends where a later one begins, or before.
LEMMA TensorsFollow ==
  ASSUME NEW w, w.tensors \subseteq Tensors, IsFiniteSet(w.tensors), LaidOut(w),
         NEW t \in w.tensors, NEW u \in w.tensors, Before(t, u)
  PROVE  t.end <= u.start
  <1> DEFINE T == w.tensors
             Over(v) == {x \in T : Before(x, v) /\ ~(x.end <= v.start)}
             Bad == {v \in T : Over(v) # {}}
  <1>1. \A v \in T : v.end - v.start = v.size /\ v.end >= v.start
    BY DEF LaidOut, Sized
  <1>2. \A v \in T : v.start = EndOf({x \in T : Before(x, v)})
    BY DEF LaidOut
  <1>3. T \subseteq Tensors /\ IsFiniteSet(T) /\ t \in T /\ u \in T
    OBVIOUS
  <1> HIDE DEF T
  <1> SUFFICES ASSUME Bad # {} PROVE FALSE
    BY <1>3
  <1>4. PICK l \in Bad : \A v \in Bad : v = l \/ Before(l, v)
    BY <1>1, <1>3, FirstTensor
  <1>5. PICK x \in T : Before(x, l) /\ ~(x.end <= l.start)
    BY <1>4
  <1> DEFINE P == {y \in T : Before(y, l)}
  <1>6. P \subseteq Tensors /\ P # {} /\ IsFiniteSet(P) /\ \A y \in P : y.end - y.start = y.size
    BY <1>1, <1>3, <1>5, FS_Subset
  <1>7. PICK g \in P : (\A y \in P \ {g} : Before(y, g)) /\ EndOf(P) = g.end
    BY <1>6, EndOfLast
  <1>8. l.start = g.end /\ l \in T /\ g \in T /\ Before(g, l)
    BY <1>2, <1>4, <1>7
  <1>9. x # g /\ Before(x, g)
    <2>1. x.end \in Nat /\ g.end \in Nat
      BY <1>3, <1>5, <1>8 DEF Tensors
    <2>2. x # g
      BY <1>5, <1>8, <2>1
    <2>3. QED
      BY <1>5, <1>7, <2>2
  <1>10. g \notin Bad
    <2>1. g # l /\ ~Before(l, g)
      BY <1>3, <1>8, BeforeIsStrict
    <2>2. QED
      BY <1>4, <2>1
  <1>11. x.end <= g.start
    BY <1>5, <1>8, <1>9, <1>10
  <1>12. QED
    BY <1>1, <1>3, <1>5, <1>8, <1>11 DEF Tensors

\* In a file that is laid out every byte behind the header is of one tensor.
LEMMA BytesAreTaken ==
  ASSUME NEW w, w.tensors \subseteq Tensors, IsFiniteSet(w.tensors), LaidOut(w), w.data \in Nat
  PROVE  /\ \A b \in 0 .. w.data - 1 :
              Cardinality({t \in w.tensors : t.start <= b /\ b < t.end}) = 1
         /\ \A t \in w.tensors : t.end <= w.data
  <1> DEFINE T == w.tensors
             n == w.data
  <1>1. \A v \in T : v.end - v.start = v.size /\ v.end >= v.start
    BY DEF LaidOut, Sized
  <1>2. \A v \in T : v.start = EndOf({x \in T : Before(x, v)})
    BY DEF LaidOut
  <1>3. T \subseteq Tensors /\ IsFiniteSet(T) /\ T # {} /\ EndOf(T) = n /\ n \in Nat
    BY DEF LaidOut, Sized
  <1>4. \A t, u \in T : Before(t, u) => t.end <= u.start
    BY TensorsFollow
  <1> HIDE DEF T, n
  <1>5. PICK g \in T : (\A u \in T \ {g} : Before(u, g)) /\ EndOf(T) = g.end
    BY <1>1, <1>3, EndOfLast
  <1>6. ASSUME NEW t \in T
        PROVE  t.end <= n
    BY <1>1, <1>3, <1>4, <1>5 DEF Tensors
  <1>7. ASSUME NEW b \in 0 .. n - 1
        PROVE  Cardinality({t \in T : t.start <= b /\ b < t.end}) = 1
    <2> DEFINE S == {t \in T : b < t.end}
               Holders == {t \in T : t.start <= b /\ b < t.end}
    <2>1. g \in S
      BY <1>3, <1>5
    <2>2. PICK l \in S : \A u \in S : u = l \/ Before(l, u)
      BY <1>1, <1>3, <2>1, FirstTensor
    <2>3. l.start <= b
      <3> DEFINE P == {y \in T : Before(y, l)}
      <3>1. l.start = EndOf(P) /\ l \in Tensors
        BY <1>2, <1>3, <2>2
      <3>2. CASE P = {}
        <4>1. EndOf(P) = 0
          BY <3>2 DEF EndOf
        <4>2. QED
          BY <3>1, <4>1
      <3>3. CASE P # {}
        <4>1. P \subseteq Tensors /\ IsFiniteSet(P) /\ \A y \in P : y.end - y.start = y.size
          BY <1>1, <1>3, FS_Subset
        <4>2. PICK h \in P : EndOf(P) = h.end
          BY <3>3, <4>1, EndOfLast
        <4>3. h \notin S
          <5>1. h \in Tensors /\ Before(h, l)
            BY <1>3, <4>2
          <5>2. h # l /\ ~Before(l, h)
            BY <3>1, <5>1, BeforeIsStrict
          <5>3. QED
            BY <2>2, <5>2
        <4>4. ~(b < h.end) /\ h.end \in Nat
          BY <1>3, <4>2, <4>3 DEF Tensors
        <4>5. QED
          BY <3>1, <4>2, <4>4
      <3>4. QED
        BY <3>2, <3>3
    <2>4. l \in Holders
      BY <2>2, <2>3
    <2>5. ASSUME NEW u \in Holders
          PROVE  u = l
      <3>1. u \in S /\ u \in T /\ l \in T /\ u.start <= b /\ b < l.end
        BY <2>2
      <3>2. CASE Before(l, u)
        <4>1. l.end <= u.start /\ l.end \in Nat /\ u.start \in Nat
          BY <1>3, <1>4, <3>1, <3>2 DEF Tensors
        <4>2. QED
          BY <3>1, <4>1
      <3>3. QED
        BY <2>2, <3>1, <3>2
    <2>6. Holders = {l}
      BY <2>4, <2>5
    <2>7. QED
      BY <2>6, FS_Singleton
  <1>8. QED
    BY <1>6, <1>7 DEF T, n
-----------------------------------------------------------------------------
(***************************************************************************)
(* The invariant.                                                          *)
(***************************************************************************)

\* The values that stand for nothing have their types.
LEMMA Blanks ==
  /\ NoReceipt \in Receipt /\ NoReceipt.state # "PASS"
  /\ NoWeight \in Weight /\ IsFiniteSet(NoWeight.tensors)
  /\ NoArtifact \in Artifact /\ FirstRecord \in Record /\ Idle.results \in [Case -> Result]
  /\ 1 \in Case /\ NoJob \in Job
  <1>1. 1 \in Case
    <2>1. Case = 1 .. Cardinality(Case) /\ Case # {}
      BY MatrixAssumption
    <2> DEFINE n == Cardinality(Case)
    <2>2. Case = 1 .. n /\ Case # {} /\ n \in Nat
      BY <2>1, MatrixAssumption, FS_CardinalityType
    <2> HIDE DEF n
    <2>3. QED
      BY <2>2
  <1>2. NoReceipt \in Receipt /\ NoReceipt.state # "PASS"
    BY <1>1 DEF NoReceipt, Receipt, GateState
  <1>3. NoWeight \in Weight /\ IsFiniteSet(NoWeight.tensors)
    BY FS_EmptySet DEF NoWeight, Weight
  <1>4. NoArtifact \in Artifact
    BY <1>3 DEF NoArtifact, Artifact, Roots
  <1>5. Unjudged \in [Case -> Result]
    BY <1>2 DEF Unjudged, Missing, Result, GateState
  <1>6. FirstRecord \in Record /\ Idle.results \in [Case -> Result]
    BY <1>5 DEF FirstRecord, Record, NoCapabilities, Idle
  <1>7. NoPlan \in [source : Nat, environment : Nat, request : Requests]
    BY PlanAssumption DEF NoPlan
  <1>8. NoJob \in Job
    BY <1>4, <1>6, <1>7, PlanAssumption DEF NoJob, Job, Steps
  <1>9. QED
    BY <1>1, <1>2, <1>3, <1>4, <1>6, <1>8

\* A case that is judged to have passed has a receipt that qualifies.
LEMMA JudgedPass ==
  ASSUME NEW c \in Case, NEW r \in Receipt, Judge(c, r) = "PASS"
  PROVE  Qualifies(r, c)
  BY DEF Judge, ValidReceipt, Qualifies

\* What derives from sound results is backed by them.
LEMMA DerivedIsBacked ==
  ASSUME NEW results \in [Case -> Result], Sound(results)
  PROVE  LET r == [capabilities |-> Derived(results), results |-> results]
         IN  r \in Record /\ Backed(r)
  <1> DEFINE r == [capabilities |-> Derived(results), results |-> results]
  <1>1. r \in Record
    BY DEF Record, Derived
  <1>2. Backed(r)
    BY MatrixAssumption DEF Backed, Derived, Sound
  <1>3. QED
    BY <1>1, <1>2

\* Nothing is claimed at first, and a new job claims nothing.
LEMMA NothingClaimed ==
  /\ Backed(FirstRecord) /\ Sound(Unjudged) /\ Sound(Idle.results)
  /\ Needed(NoJob.kind, NoJob.large) = {} /\ NoJob.record = FirstRecord
  /\ NoJob.step = "start" /\ NoJob.kind = "none"
  <1>1. Backed(FirstRecord)
    BY DEF Backed, FirstRecord, NoCapabilities
  <1>2. Sound(Unjudged) /\ Sound(Idle.results)
    BY DEF Sound, Unjudged, Missing, Idle
  <1>3. Needed(NoJob.kind, NoJob.large) = {}
    BY DEF Needed, NoJob
  <1>4. QED
    BY <1>1, <1>2, <1>3 DEF NoJob

\* At the start there is a record that claims nothing and no job.
LEMMA ReleaseStart ==
  ASSUME ReleaseInit
  PROVE  Inv
  <1>1. receipt \in [Case -> Receipt]
    BY Blanks, OfferAssumption DEF ReleaseInit
  <1>2. weight \in [Roots -> Weight] /\ \A r \in Roots : IsFiniteSet(weight[r].tensors)
    <2>1. \A w \in Weights \union {NoWeight} : w \in Weight /\ IsFiniteSet(w.tensors)
      BY Blanks, OfferAssumption
    <2>2. QED
      BY <2>1 DEF ReleaseInit
  <1>3. TypeInv
    BY <1>1, <1>2, Blanks DEF TypeInv, ReleaseInit, Idle
  <1>4. Qualified
    BY NothingClaimed DEF Qualified, ReleaseInit
  <1>5. Resolved /\ Admitted
    BY NothingClaimed DEF Resolved, Admitted, Planned, ReleaseInit
  <1>6. QED
    BY <1>3, <1>4, <1>5 DEF Inv

\* A step of run_acceptance.
LEMMA ScriptStep ==
  ASSUME Inv, BeginAcceptance \/ HashReceipt \/ ParseReceipt \/ WriteReport \/ WriteRecord
                \/ ScriptDies
  PROVE  Inv'
  <1>1. UNCHANGED <<receipt, job, weight, live, swapped, replaced>>
    BY DEF BeginAcceptance, HashReceipt, ParseReceipt, WriteReport, WriteRecord, ScriptDies, files
  <1>2. script.results \in [Case -> Result] /\ Sound(script.results) /\ script.case \in Case
    BY DEF Inv, TypeInv, Qualified
  <1>3. ASSUME NEW result \in Result, After(script.case, result),
               result.state = "PASS" => Qualifies(result.judged, script.case)
        PROVE  /\ script'.at \in {"hash", "report"} /\ script'.case \in Case
               /\ script' \in [at : {"idle", "hash", "parse", "report", "record"}, case : Case,
                               results : [Case -> Result]]
               /\ Sound(script'.results)
    <2> DEFINE c == script.case
               old == script.results
               next == IF c + 1 \in Case THEN c + 1 ELSE c
               at == IF c + 1 \in Case THEN "hash" ELSE "report"
    <2>1. script \in [at : {"idle", "hash", "parse", "report", "record"}, case : Case,
                      results : [Case -> Result]]
      BY DEF Inv, TypeInv
    <2>2. script' = [at |-> at, case |-> next, results |-> [old EXCEPT ![c] = result]]
      BY <1>3, <2>1 DEF After
    <2>3. next \in Case /\ at \in {"hash", "report"} /\ old \in [Case -> Result] /\ c \in Case
      BY <1>2
    <2>4. result.state = "PASS" => Qualifies(result.judged, c)
      BY <1>3
    <2>5. Sound(old)
      BY <1>2
    <2> HIDE DEF c, old, next, at
    <2>6. Sound([old EXCEPT ![c] = result])
      BY <2>3, <2>4, <2>5 DEF Sound
    <2>7. QED
      BY <1>3, <2>2, <2>3, <2>6
  <1>4. /\ script' \in [at : {"idle", "hash", "parse", "report", "record"}, case : Case,
                        results : [Case -> Result]]
        /\ Sound(script'.results) /\ record' \in Record /\ Backed(record')
    <2>1. CASE BeginAcceptance \/ ScriptDies
      BY <2>1, Blanks, NothingClaimed
      DEF BeginAcceptance, ScriptDies, files, Idle, Inv, TypeInv, Qualified
    <2>2. CASE HashReceipt
      <3>1. record' = record
        BY <2>2 DEF HashReceipt, files
      <3>2. Missing \in Result /\ Missing.state # "PASS"
        BY Blanks DEF Missing, Result, GateState
      <3>3. After(script.case, Missing) \/ script' = [script EXCEPT !.at = "parse"]
        BY <2>2 DEF HashReceipt
      <3>4. ASSUME script' = [script EXCEPT !.at = "parse"]
            PROVE  /\ script' \in [at : {"idle", "hash", "parse", "report", "record"}, case : Case,
                                   results : [Case -> Result]]
                   /\ script'.results = script.results
        BY <3>4 DEF Inv, TypeInv
      <3>5. QED
        BY <1>2, <1>3, <3>1, <3>2, <3>3, <3>4 DEF Inv, TypeInv, Qualified
    <2>3. CASE ParseReceipt
      <3> DEFINE c == script.case
                 r == receipt[c]
                 result == [state |-> Judge(c, r), judged |-> r]
      <3>1. record' = record /\ After(script.case, result)
        BY <2>3 DEF ParseReceipt, files
      <3>2. c \in Case /\ r \in Receipt
        BY DEF Inv, TypeInv
      <3> HIDE DEF c, r
      <3>3. Judge(c, r) \in GateState
        BY <3>2 DEF Judge, GateState, Receipt
      <3>4. result \in Result /\ (result.state = "PASS" => Qualifies(result.judged, c))
        BY <3>2, <3>3, JudgedPass DEF Result
      <3> HIDE DEF result
      <3>5. QED
        BY <1>3, <3>1, <3>4 DEF Inv, TypeInv, Qualified, c
    <2>4. CASE WriteReport
      <3>1. script' = Idle \/ script' = [script EXCEPT !.at = "record"]
        BY <2>4 DEF WriteReport
      <3>2. CASE script' = Idle
        BY <2>4, <3>2, Blanks, NothingClaimed DEF WriteReport, files, Idle, Inv, TypeInv, Qualified
      <3>3. CASE script' = [script EXCEPT !.at = "record"]
        BY <2>4, <3>3 DEF WriteReport, files, Inv, TypeInv, Qualified
      <3>4. QED
        BY <3>1, <3>2, <3>3
    <2>5. CASE WriteRecord
      <3>1. record' \in Record /\ Backed(record')
        BY <1>2, <2>5, DerivedIsBacked DEF WriteRecord
      <3>2. script' = Idle
        BY <2>5 DEF WriteRecord
      <3>3. QED
        BY <3>1, <3>2, Blanks, NothingClaimed DEF Idle
    <2>6. QED
      BY <2>1, <2>2, <2>3, <2>4, <2>5
  <1>5. TypeInv' /\ Qualified'
    BY <1>1, <1>4 DEF Inv, TypeInv, Qualified
  <1>6. Resolved' /\ Admitted'
    BY <1>1 DEF Inv, Resolved, Admitted, Admits
  <1>7. QED
    BY <1>5, <1>6 DEF Inv

\* What a user may select is what the record's capabilities allow.
LEMMA SelectableIsClaimed ==
  ASSUME NEW caps \in [Capability -> BOOLEAN], NEW large \in BOOLEAN,
         NEW kind \in Selectable(caps, large)
  PROVE  /\ kind \in {"lanczos", "neural", "interpolation"}
         /\ \A k \in Needed(kind, large) : caps[k]
  <1>1. \/ kind = "lanczos" /\ (~large \/ caps["8k"])
        \/ kind = "neural" /\ caps[IF large THEN "8k" ELSE "4k"]
        \/ kind = "interpolation" /\ caps["rife"]
    BY DEF Selectable
  <1>2. CASE kind = "lanczos" /\ (~large \/ caps["8k"])
    <2>1. Needed(kind, large) = IF large THEN {"8k"} ELSE {}
      BY <1>2 DEF Needed
    <2>2. QED
      BY <1>2, <2>1
  <1>3. CASE kind = "neural" /\ caps[IF large THEN "8k" ELSE "4k"]
    <2>1. Needed(kind, large) = {IF large THEN "8k" ELSE "4k"}
      BY <1>3 DEF Needed
    <2>2. QED
      BY <1>3, <2>1
  <1>4. CASE kind = "interpolation" /\ caps["rife"]
    <2>1. Needed(kind, large) = {"rife"}
      BY <1>4 DEF Needed
    <2>2. QED
      BY <1>4, <2>1
  <1>5. QED
    BY <1>1, <1>2, <1>3, <1>4

\* A job that is dropped leaves nothing to be shown.
LEMMA Dropped ==
  ASSUME Inv, job' = NoJob, UNCHANGED <<files, script, weight, live>>, swapped' \in BOOLEAN
  PROVE  Inv'
  <1>1. TypeInv'
    BY Blanks DEF Inv, TypeInv, files
  <1>2. Qualified'
    BY NothingClaimed DEF Inv, Qualified, files
  <1>3. Resolved' /\ Admitted'
    BY NothingClaimed DEF Resolved, Admitted, Planned
  <1>4. QED
    BY <1>1, <1>2, <1>3 DEF Inv

\* A record is loaded, or a recipe is frozen for what it allows.
LEMMA RecipeStep ==
  ASSUME Inv, Load \/ FreezeRecipe
  PROVE  Inv'
  <1>1. UNCHANGED <<files, script, weight, live, swapped, replaced>>
    BY DEF Load, FreezeRecipe
  <1>2. CASE Load
    <2>1. job' = [NoJob EXCEPT !.step = "recipe", !.record = record]
      BY <1>2 DEF Load
    <2>2. /\ job' \in Job /\ job'.record = record /\ job'.kind = "none" /\ job'.step = "recipe"
          /\ job'.large = NoJob.large
      BY <2>1, Blanks, NothingClaimed DEF Job, Steps, Inv, TypeInv
    <2>3. Needed(job'.kind, job'.large) = {}
      BY <2>2, NothingClaimed
    <2>4. TypeInv' /\ Qualified'
      BY <1>1, <2>2, <2>3 DEF Inv, TypeInv, Qualified, files
    <2>5. Resolved' /\ Admitted'
      BY <2>2 DEF Resolved, Admitted, Planned
    <2>6. QED
      BY <2>4, <2>5 DEF Inv
  <1>3. CASE FreezeRecipe
    <2>1. PICK large \in BOOLEAN : \E kind \in Selectable(job.record.capabilities, large) :
            job' = [job EXCEPT !.step = IF kind = "neural" THEN "weight" ELSE "plan",
                               !.kind = kind, !.large = large]
      BY <1>3 DEF FreezeRecipe
    <2>2. PICK kind \in Selectable(job.record.capabilities, large) :
            job' = [job EXCEPT !.step = IF kind = "neural" THEN "weight" ELSE "plan",
                               !.kind = kind, !.large = large]
      BY <2>1
    <2>3. job \in Job /\ job.record.capabilities \in [Capability -> BOOLEAN]
      BY DEF Inv, TypeInv, Job, Record
    <2>4. /\ kind \in {"lanczos", "neural", "interpolation"}
          /\ \A k \in Needed(kind, large) : job.record.capabilities[k]
      BY <2>3, SelectableIsClaimed
    <2>5. /\ job' \in Job /\ job'.record = job.record /\ job'.kind = kind /\ job'.large = large
          /\ job'.step = IF kind = "neural" THEN "weight" ELSE "plan"
      BY <2>2, <2>3, <2>4 DEF Job, Steps
    <2>6. TypeInv' /\ Qualified'
      BY <1>1, <2>4, <2>5 DEF Inv, TypeInv, Qualified, files
    <2>7. Resolved' /\ Admitted'
      BY <2>5 DEF Resolved, Admitted, Planned
    <2>8. QED
      BY <2>6, <2>7 DEF Inv
  <1>4. QED
    BY <1>2, <1>3

\* The weight is hashed, and read again for its header.
LEMMA WeightStep ==
  ASSUME Inv, ResolveHash \/ ResolveHeader
  PROVE  Inv'
  <1>1. UNCHANGED <<files, script, weight, live>> /\ job \in Job
    BY DEF ResolveHash, ResolveHeader, Inv, TypeInv
  <1>2. CASE ResolveHash
    <2>1. PICK license \in Licenses, r \in Existing :
            /\ Permits(license) /\ weight[r].sha = Entry.sha
            /\ job' = [job EXCEPT !.step = "header",
                         !.artifact = [NoArtifact EXCEPT !.root = r, !.sha = weight[r].sha,
                                                         !.license = license.status]]
      BY <1>2 DEF ResolveHash
    <2>2. r \in Roots /\ weight[r] \in Weight /\ license.status = "verified"
          /\ swapped' = FALSE /\ job.step = "weight"
      BY <1>2, <2>1 DEF Existing, Permits, Inv, TypeInv, ResolveHash
    <2> DEFINE a == [NoArtifact EXCEPT !.root = r, !.sha = weight[r].sha,
                                       !.license = license.status]
    <2>3. a \in Artifact /\ a.root = r /\ a.sha = Entry.sha /\ a.license = "verified"
      BY <2>1, <2>2, Blanks DEF Artifact, Weight
    <2>4. job' = [job EXCEPT !.step = "header", !.artifact = a]
      BY <2>1
    <2> HIDE DEF a
    <2>5. /\ job' \in Job /\ job'.record = job.record /\ job'.kind = job.kind
          /\ job'.large = job.large /\ job'.step = "header" /\ job'.artifact = a
      BY <1>1, <2>3, <2>4 DEF Job, Steps
    <2>6. TypeInv' /\ Qualified'
      BY <1>1, <2>2, <2>5 DEF Inv, TypeInv, Qualified, files
    <2>7. Resolved' /\ Admitted'
      BY <1>1, <2>1, <2>2, <2>3, <2>5 DEF Inv, Resolved, Admitted, Planned
    <2>8. QED
      BY <2>6, <2>7 DEF Inv
  <1>3. CASE ResolveHeader
    <2> DEFINE w == weight[job.artifact.root]
    <2>1. /\ job.step = "header" /\ swapped' = swapped
          /\ \/ LaidOut(w) /\ job' = [job EXCEPT !.step = "plan", !.artifact.header = w]
             \/ job' = NoJob
      BY <1>3 DEF ResolveHeader
    <2>2. CASE job' = NoJob
      BY <1>1, <2>1, <2>2, Dropped DEF Inv, TypeInv
    <2>3. CASE LaidOut(w) /\ job' = [job EXCEPT !.step = "plan", !.artifact.header = w]
      <3>1. job.artifact \in Artifact /\ w \in Weight /\ IsFiniteSet(w.tensors)
        BY <1>1 DEF Inv, TypeInv, Job, Artifact
      <3>2. ~swapped => w.sha = Entry.sha
        BY <2>1 DEF Inv, Resolved
      <3> HIDE DEF w
      <3> DEFINE old == job.artifact
                 a == [old EXCEPT !.header = w]
      <3>3. job' = [job EXCEPT !.step = "plan", !.artifact = a]
        BY <1>1, <2>3 DEF Job
      <3>4. /\ a \in Artifact /\ a.sha = old.sha /\ a.license = old.license /\ a.header = w
        BY <3>1 DEF Artifact
      <3> HIDE DEF a
      <3>5. /\ job' \in Job /\ job'.record = job.record /\ job'.kind = job.kind
            /\ job'.large = job.large /\ job'.step = "plan" /\ job'.artifact = a
        BY <1>1, <3>3, <3>4 DEF Job, Steps
      <3>6. TypeInv' /\ Qualified'
        BY <1>1, <2>1, <3>5 DEF Inv, TypeInv, Qualified, files
      <3>7. job.artifact.sha = Entry.sha /\ job.artifact.license = "verified"
        BY <2>1 DEF Inv, Resolved
      <3>8. Resolved' /\ Admitted'
        BY <2>1, <2>3, <3>1, <3>2, <3>4, <3>5, <3>7 DEF Resolved, Admitted, Planned, LaidOut, Sized
      <3>9. QED
        BY <3>6, <3>8 DEF Inv
    <2>4. QED
      BY <2>1, <2>2, <2>3
  <1>4. QED
    BY <1>2, <1>3

\* The plan is frozen, admitted, and verified before the start.
LEMMA PlanStep ==
  ASSUME Inv, FreezePlan \/ Admit \/ VerifyBindings
  PROVE  Inv'
  <1>1. /\ UNCHANGED <<files, script, weight, live, swapped, replaced>> /\ job \in Job
        /\ swapped \in BOOLEAN /\ live \in [source : Nat, environment : Nat]
    BY DEF FreezePlan, Admit, VerifyBindings, Inv, TypeInv
  <1>2. ASSUME job' \in Job, job.step \in Planned, job'.step \in Planned,
               job'.record = job.record, job'.kind = job.kind, job'.large = job.large,
               job'.artifact = job.artifact
        PROVE  TypeInv' /\ Qualified' /\ Resolved'
    <2>1. TypeInv' /\ Qualified'
      BY <1>1, <1>2 DEF Inv, TypeInv, Qualified, files
    <2>2. Resolved'
      BY <1>1, <1>2 DEF Inv, Resolved, Planned, LaidOut, Sized
    <2>3. QED
      BY <2>1, <2>2
  <1>3. CASE job' = NoJob
    BY <1>1, <1>3, Dropped
  <1>4. CASE FreezePlan
    <2>1. PICK request \in Requests :
            job' = [job EXCEPT !.step = "admit",
                      !.plan = [source |-> live.source, environment |-> live.environment,
                                request |-> request]]
      BY <1>4 DEF FreezePlan
    <2>2. /\ job' \in Job /\ job.step = "plan" /\ job'.step = "admit"
          /\ job'.record = job.record /\ job'.kind = job.kind /\ job'.large = job.large
          /\ job'.artifact = job.artifact
      BY <1>1, <1>4, <2>1 DEF FreezePlan, Job, Steps
    <2>3. Admitted'
      BY <2>2 DEF Admitted
    <2>4. QED
      BY <1>2, <2>2, <2>3 DEF Inv, Planned
  <1>5. CASE Admit
    <2>1. PICK now \in Lives :
            \/ /\ Admits(job.plan.request, now)
               /\ job' = [job EXCEPT !.step = "verify", !.live = now]
            \/ job' = NoJob
      BY <1>5 DEF Admit
    <2>2. CASE Admits(job.plan.request, now) /\ job' = [job EXCEPT !.step = "verify", !.live = now]
      <3>1. /\ job' \in Job /\ job.step = "admit" /\ job'.step = "verify"
            /\ job'.record = job.record /\ job'.kind = job.kind /\ job'.large = job.large
            /\ job'.artifact = job.artifact /\ job'.plan = job.plan /\ job'.live = now
        BY <1>1, <1>5, <2>2 DEF Admit, Job, Steps
      <3>2. Admitted'
        BY <2>2, <3>1 DEF Admitted, Admits
      <3>3. QED
        BY <1>2, <3>1, <3>2 DEF Inv, Planned
    <2>3. QED
      BY <1>3, <2>1, <2>2
  <1>6. CASE VerifyBindings
    <2>1. job.step = "verify" /\ (job' = [job EXCEPT !.step = "started"] \/ job' = NoJob)
      BY <1>6 DEF VerifyBindings
    <2>2. CASE job' = [job EXCEPT !.step = "started"]
      <3>1. /\ job' \in Job /\ job'.step = "started"
            /\ job'.record = job.record /\ job'.kind = job.kind /\ job'.large = job.large
            /\ job'.artifact = job.artifact /\ job'.plan = job.plan /\ job'.live = job.live
        BY <1>1, <2>2 DEF Job, Steps
      <3>2. Admitted'
        BY <2>1, <3>1 DEF Inv, Admitted, Admits
      <3>3. QED
        BY <1>2, <2>1, <3>1, <3>2 DEF Inv, Planned
    <2>3. QED
      BY <1>3, <2>1, <2>2
  <1>7. QED
    BY <1>4, <1>5, <1>6

\* A file is replaced, or the user starts over.
LEMMA SurroundingStep ==
  ASSUME Inv, ReplaceReceipt \/ ReplaceWeight \/ Drift \/ StartOver
  PROVE  Inv'
  <1>1. CASE StartOver
    BY <1>1, Dropped DEF StartOver, Inv, TypeInv
  <1>2. CASE ReplaceReceipt
    <2>1. UNCHANGED <<script, record, job, weight, live, swapped>>
      BY <1>2 DEF ReplaceReceipt
    <2>2. receipt' \in [Case -> Receipt]
      BY <1>2, Blanks, OfferAssumption DEF ReplaceReceipt, Inv, TypeInv
    <2>3. TypeInv' /\ Qualified'
      BY <2>1, <2>2 DEF Inv, TypeInv, Qualified
    <2>4. Resolved' /\ Admitted'
      BY <2>1 DEF Inv, Resolved, Admitted, Admits
    <2>5. QED
      BY <2>3, <2>4 DEF Inv
  <1>3. CASE ReplaceWeight
    <2>1. /\ UNCHANGED <<files, script, job, live>> /\ swapped' = (swapped \/ job.step = "header")
      BY <1>3 DEF ReplaceWeight
    <2>2. weight' \in [Roots -> Weight] /\ \A r \in Roots : IsFiniteSet(weight'[r].tensors)
      <3>1. PICK r \in Roots, w \in Weights : weight' = [weight EXCEPT ![r] = w]
        BY <1>3 DEF ReplaceWeight
      <3>2. w \in Weight /\ IsFiniteSet(w.tensors)
        BY <3>1, OfferAssumption
      <3>3. QED
        BY <3>1, <3>2 DEF Inv, TypeInv
    <2>3. TypeInv' /\ Qualified'
      BY <2>1, <2>2 DEF Inv, TypeInv, Qualified, files
    <2>4. Resolved'
      BY <2>1 DEF Inv, TypeInv, Resolved, Planned
    <2>5. Admitted'
      BY <2>1 DEF Inv, Admitted, Admits
    <2>6. QED
      BY <2>3, <2>4, <2>5 DEF Inv
  <1>4. CASE Drift
    <2>1. UNCHANGED <<files, script, job, weight, swapped>>
      BY <1>4 DEF Drift
    <2>2. live' \in [source : Nat, environment : Nat]
      BY <1>4 DEF Drift, Inv, TypeInv
    <2>3. TypeInv' /\ Qualified'
      BY <2>1, <2>2 DEF Inv, TypeInv, Qualified, files
    <2>4. Resolved' /\ Admitted'
      BY <2>1 DEF Inv, Resolved, Admitted, Admits
    <2>5. QED
      BY <2>3, <2>4 DEF Inv
  <1>5. QED
    BY <1>1, <1>2, <1>3, <1>4

\* Every step keeps the invariant.
LEMMA ReleaseStep ==
  ASSUME Inv, [ReleaseNext]_vars
  PROVE  Inv'
  <1>1. CASE UNCHANGED vars
    BY <1>1
    DEF vars, Inv, TypeInv, Qualified, Resolved, Admitted, Admits
  <1>2. QED
    BY <1>1, ScriptStep, RecipeStep, WeightStep, PlanStep, SurroundingStep DEF ReleaseNext

\* The invariant holds in every reachable state.
LEMMA ReleaseInvariant == ReleaseSpec => []Inv
  <1>1. ReleaseInit => Inv
    BY ReleaseStart
  <1>2. Inv /\ [ReleaseNext]_vars => Inv'
    BY ReleaseStep
  <1>3. QED
    BY <1>1, <1>2, PTL DEF ReleaseSpec

-----------------------------------------------------------------------------
(***************************************************************************)
(* Theorems.                                                               *)
(***************************************************************************)

\* A recipe is frozen only on audited receipts, whatever is replaced while the
\* script judges and wherever it dies.
THEOREM RecipesRestOnReceipts == ReleaseSpec => []RecipesAreQualified
  <1>1. Inv => RecipesAreQualified
    <2>1. SUFFICES ASSUME Inv, NEW k \in Needed(job.kind, job.large), NEW c \in Requirement[k]
                   PROVE  Qualifies(job.record.results[c].judged, c)
      BY DEF RecipesAreQualified
    <2>2. k \in Capability
      BY DEF Needed, Capability
    <2>3. job.record.capabilities[k] /\ Backed(job.record)
      BY <2>1 DEF Inv, Qualified
    <2>4. QED
      BY <2>1, <2>2, <2>3 DEF Backed
  <1>2. QED
    BY <1>1, ReleaseInvariant, PTL

\* A neural job is planned only with weights that are hashed as registered and
\* licensed, whose every byte belongs to one tensor, as long as the file is not
\* replaced between the two readings.
THEOREM PlannedWeightsAreWhole == ReleaseSpec => []WeightsAreWhole
  <1>1. Inv => WeightsAreWhole
    <2> DEFINE w == job.artifact.header
    <2> SUFFICES ASSUME Inv, job.kind = "neural", job.step \in Planned, ~swapped
                 PROVE  /\ job.artifact.sha = Entry.sha /\ w.sha = Entry.sha
                        /\ job.artifact.license = "verified"
                        /\ \A b \in 0 .. w.data - 1 :
                             Cardinality({t \in w.tensors : t.start <= b /\ b < t.end}) = 1
                        /\ \A t \in w.tensors : t.end <= w.data
      BY DEF WeightsAreWhole, Planned
    <2>1. /\ job.artifact.sha = Entry.sha /\ w.sha = Entry.sha
          /\ job.artifact.license = "verified" /\ IsFiniteSet(w.tensors) /\ LaidOut(w)
      BY DEF Inv, Resolved
    <2>2. w.tensors \subseteq Tensors /\ w.data \in Nat
      BY DEF Inv, TypeInv, Job, Artifact, Weight, Tensors
    <2> HIDE DEF w
    <2>3. /\ \A b \in 0 .. w.data - 1 :
               Cardinality({t \in w.tensors : t.start <= b /\ b < t.end}) = 1
          /\ \A t \in w.tensors : t.end <= w.data
      BY <2>1, <2>2, BytesAreTaken
    <2>4. QED
      BY <2>1, <2>3
  <1>2. QED
    BY <1>1, ReleaseInvariant, PTL

\* A job starts only with a reserve of 15 percent of the memory it was measured
\* to need, the disk it asks for and, unless it is a baseline, the time.
THEOREM StartedJobsHaveRoom == ReleaseSpec => []StartedJobsFit
  <1>1. Inv => StartedJobsFit
    <2> SUFFICES ASSUME Inv, job.step = "started" PROVE StartedJobsFit
      BY DEF StartedJobsFit
    <2> DEFINE vram == job.live.vram
               peak == job.plan.request.vram
    <2>1. Admits(job.plan.request, job.live)
      BY DEF Inv, Admitted
    <2>2. vram \in Nat /\ peak \in Nat
      BY PlanAssumption DEF Inv, TypeInv, Job
    <2>3. vram >= Reserve(peak)
      BY <2>1 DEF Admits
    <2> HIDE DEF vram, peak
    <2>4. 100 * vram >= 115 * peak
      BY <2>2, <2>3 DEF Reserve
    <2>5. QED
      BY <2>1, <2>4 DEF StartedJobsFit, Admits, vram, peak
  <1>2. QED
    BY <1>1, ReleaseInvariant, PTL
=============================================================================
