------------------------------- MODULE Release -------------------------------
(***************************************************************************)
(* From the evidence of a release to a job that may start.  Auditors put   *)
(* receipts into the evidence directory; scripts/run_acceptance.py judges  *)
(* them and writes the report and the capability record (acceptance.py);   *)
(* a user of that record is offered recipes and freezes one (recipes/),    *)
(* resolves its weights (models/registry.py, licenses.py, supply_chain.py, *)
(* models/weights.py), freezes a plan, has it admitted against the live    *)
(* resources (planning/session.py) and verifies its bindings (planning/    *)
(* execution_plan.py).                                                     *)
(*                                                                         *)
(* No code chains the functions after the record yet; the arguments of     *)
(* each fix their order here.  Receipts, weights, source and environment   *)
(* can be replaced between any two accesses.                               *)
(***************************************************************************)
EXTENDS Integers, FiniteSets

CONSTANTS
  Case,          \* the cases of the matrix, 1 .. n in its order
  Metrics,       \* RequiredMetrics[c] of a case are among these
  RequiredMetrics,
  Requirement,   \* Requirement[k]: the cases capability k requires
  Offered,       \* receipts an auditor may put down
  Weights,       \* weight files a user may attach
  Entry,         \* the registry entry of the approved model
  Licenses,      \* its possible license records
  Requests,      \* benchmark, disk and time a plan asks for
  Lives,         \* live resources
  MaxReplaced    \* bound on replaced files

GateState == {"PASS", "FAIL", "NOT_EVALUATED"}
Capability == {"4k", "8k", "rife"}

ASSUME MatrixAssumption ==
  /\ IsFiniteSet(Case) /\ Case = 1 .. Cardinality(Case) /\ Case # {}
  /\ RequiredMetrics \in [Case -> SUBSET Metrics]
  /\ Requirement \in [Capability -> (SUBSET Case) \ {{}}]

\* A receipt; hashes says that environment, job and artifact hash are present.
Receipt == [case : Case, state : GateState, metrics : SUBSET Metrics,
            hashes : BOOLEAN, audited : BOOLEAN, reason : BOOLEAN]
NoReceipt == [case |-> 1, state |-> "NOT_EVALUATED", metrics |-> {},
              hashes |-> FALSE, audited |-> FALSE, reason |-> FALSE]

\* A SafeTensors file: tensors [name, start, end, size by dtype and shape], and
\* the bytes behind the header.
Weight == [sha : Nat, data : Nat, named : BOOLEAN, safe : BOOLEAN,
           tensors : SUBSET [name : Nat, start : Nat, end : Nat, size : Nat]]
NoWeight == [sha |-> 0, data |-> 0, named |-> FALSE, safe |-> FALSE, tensors |-> {}]

ASSUME OfferAssumption ==
  /\ Offered \subseteq Receipt
  /\ Weights \subseteq Weight /\ \A w \in Weights : IsFiniteSet(w.tensors)

\* AdmissionRequest and LiveResources (ge = 0); an unknown time is -1.
ASSUME PlanAssumption ==
  /\ Requests \subseteq [disk : Nat, vram : Nat, seconds : Nat] /\ Requests # {}
  /\ Lives \subseteq [disk : Nat, vram : Nat, seconds : Nat \union {-1}] /\ Lives # {}
ASSUME BoundAssumption == MaxReplaced \in Nat

VARIABLES
  receipt,   \* receipt[c]: the file of case c
  script,    \* run_acceptance: at, case, results so far
  record,    \* release-capabilities.json
  job,       \* what the user has: step, caps, recipe, size, artifact, plan
  weight,    \* weight[r]: the model's file under weight root r
  live,      \* source and environment as they are
  swapped,   \* a weight was replaced while it was being resolved
  replaced   \* files replaced so far

vars == <<receipt, script, record, job, weight, live, swapped, replaced>>
files == <<receipt, record>>

Roots == 1 .. 2

-----------------------------------------------------------------------------
(***************************************************************************)
(* Acceptance.                                                             *)
(***************************************************************************)

\* AcceptanceReceipt.validate_pass_evidence.
ValidReceipt(r) == IF r.state = "PASS" THEN r.hashes /\ r.audited ELSE r.reason

\* Slip: the verdict of the receipt is taken without its metrics.
JudgeByState(c, r) ==
  IF r = NoReceipt \/ ~ValidReceipt(r) \/ r.case # c THEN "FAIL" ELSE r.state

\* _evaluate_case, once the receipt is read.
Judge(c, r) ==
  IF r = NoReceipt \/ ~ValidReceipt(r) \/ r.case # c THEN "FAIL"
  ELSE IF r.state = "PASS" /\ ~(RequiredMetrics[c] \subseteq r.metrics) THEN "FAIL"
  ELSE r.state

\* A case as the report has it.  judged is the receipt that was parsed.
Missing == [state |-> "NOT_EVALUATED", judged |-> NoReceipt]
Unjudged == [c \in Case |-> Missing]

NoCapabilities == [k \in Capability |-> FALSE]

\* run_acceptance: a capability needs every case it requires.
Derived(results) == [k \in Capability |-> \A c \in Requirement[k] : results[c].state = "PASS"]

\* The record of the repository was made without a report.
FirstRecord == [capabilities |-> NoCapabilities, results |-> Unjudged]

Idle == [at |-> "idle", case |-> 1, results |-> Unjudged]

After(c, result) ==
  script' = [script EXCEPT !.results[c] = result,
                           !.case = IF c + 1 \in Case THEN c + 1 ELSE c,
                           !.at = IF c + 1 \in Case THEN "hash" ELSE "report"]

BeginAcceptance ==
  /\ script.at = "idle"
  /\ script' = [Idle EXCEPT !.at = "hash"]
  /\ UNCHANGED <<files, job, weight, live, swapped, replaced>>

\* A receipt is there and is hashed, or the case is not evaluated ...
HashReceipt ==
  /\ script.at = "hash"
  /\ IF receipt[script.case] = NoReceipt THEN After(script.case, Missing)
     ELSE script' = [script EXCEPT !.at = "parse"]
  /\ UNCHANGED <<files, job, weight, live, swapped, replaced>>

\* ... and read again to be judged.
ParseReceipt ==
  LET c == script.case
  IN /\ script.at = "parse"
     /\ After(c, [state |-> Judge(c, receipt[c]), judged |-> receipt[c]])
     /\ UNCHANGED <<files, job, weight, live, swapped, replaced>>

\* The report is written, which no code reads; --capabilities-output may be
\* left out.
WriteReport ==
  /\ script.at = "report"
  /\ script' \in {Idle, [script EXCEPT !.at = "record"]}
  /\ UNCHANGED <<files, job, weight, live, swapped, replaced>>

\* release_capability_payload of the report in memory.
WriteRecord ==
  /\ script.at = "record"
  /\ record' = [capabilities |-> Derived(script.results), results |-> script.results]
  /\ script' = Idle
  /\ UNCHANGED <<receipt, job, weight, live, swapped, replaced>>

ScriptDies ==
  /\ script.at # "idle"
  /\ script' = Idle
  /\ UNCHANGED <<files, job, weight, live, swapped, replaced>>

-----------------------------------------------------------------------------
(***************************************************************************)
(* Recipes.                                                                *)
(***************************************************************************)
NoArtifact == [root |-> 1, sha |-> 0, header |-> NoWeight, license |-> "none"]
NoPlan == [source |-> 0, environment |-> 0, request |-> CHOOSE r \in Requests : TRUE]

NoJob == [step |-> "start", record |-> FirstRecord, kind |-> "none", large |-> FALSE,
          artifact |-> NoArtifact, plan |-> NoPlan, live |-> CHOOSE l \in Lives : TRUE]

\* ReleaseCapabilities.from_json_file.
Load ==
  /\ job.step = "start"
  /\ job' = [NoJob EXCEPT !.step = "recipe", !.record = record]
  /\ UNCHANGED <<files, script, weight, live, swapped, replaced>>

\* eligible_recipes: the candidates that can be frozen.  large is a target of
\* more than 3840 x 2160.
Selectable(capabilities, large) ==
  (IF ~large \/ capabilities["8k"] THEN {"lanczos"} ELSE {})
    \union (IF capabilities[IF large THEN "8k" ELSE "4k"] THEN {"neural"} ELSE {})
    \union (IF capabilities["rife"] THEN {"interpolation"} ELSE {})

\* freeze_recipe of a selectable candidate.
FreezeRecipe ==
  /\ job.step = "recipe"
  /\ \E large \in BOOLEAN : \E kind \in Selectable(job.record.capabilities, large) :
       job' = [job EXCEPT !.step = IF kind = "neural" THEN "weight" ELSE "plan",
                          !.kind = kind, !.large = large]
  /\ UNCHANGED <<files, script, weight, live, swapped, replaced>>

-----------------------------------------------------------------------------
(***************************************************************************)
(* Weights.                                                                *)
(***************************************************************************)

\* require_model for a private, non-commercial use, the terms verified.
Permits(license) == license.status = "verified" /\ license.private

\* The first root that has the file; require_safe_runtime_weight of it.
Existing == {r \in Roots : weight[r] # NoWeight /\ \A q \in 1 .. r - 1 : weight[q] = NoWeight}

\* resolve: entry, license, packages of the environment, size and hash of the
\* file.
ResolveHash ==
  /\ job.step = "weight"
  /\ \E license \in Licenses, r \in Existing :
       /\ Entry.enabled /\ Permits(license) /\ live.environment \in Entry.environments
       /\ weight[r].safe /\ weight[r].data = Entry.data
       /\ weight[r].sha = Entry.sha /\ license.sha = weight[r].sha
       /\ job' = [job EXCEPT !.step = "header",
                             !.artifact = [NoArtifact EXCEPT !.root = r, !.sha = weight[r].sha,
                                                             !.license = license.status]]
  /\ swapped' = FALSE
  /\ UNCHANGED <<files, script, weight, live, replaced>>

\* In the order of their offsets, and of their names where those are equal.
Before(t, u) ==
  \/ t.start < u.start
  \/ t.start = u.start /\ t.end < u.end
  \/ t.start = u.start /\ t.end = u.end /\ t.name < u.name
EndOf(tensors) ==
  IF tensors = {} THEN 0
  ELSE (CHOOSE t \in tensors : \A u \in tensors \ {t} : Before(u, t)).end

Sized(w) == w.tensors # {} /\ \A t \in w.tensors : t.end >= t.start /\ t.end - t.start = t.size

\* Slip: only gaps are looked for.
LaidOutWithoutGap(w) ==
  /\ Sized(w) /\ EndOf(w.tensors) = w.data
  /\ \A t \in w.tensors : t.start <= EndOf({u \in w.tensors : Before(u, t)})

\* inspect_safetensors: the tensors follow each other from 0 to the end of the
\* file.
LaidOut(w) ==
  /\ Sized(w) /\ EndOf(w.tensors) = w.data
  /\ \A t \in w.tensors : t.start = EndOf({u \in w.tensors : Before(u, t)})

\* resolve: the header, from a second reading of the same file.
ResolveHeader ==
  /\ job.step = "header"
  /\ LET w == weight[job.artifact.root]
     IN job' = IF LaidOut(w) /\ w.named
                 THEN [job EXCEPT !.step = "plan", !.artifact.header = w] ELSE NoJob
  /\ UNCHANGED <<files, script, weight, live, swapped, replaced>>

-----------------------------------------------------------------------------
(***************************************************************************)
(* The plan.                                                               *)
(***************************************************************************)

\* freeze_execution_plan.
FreezePlan ==
  /\ job.step = "plan"
  /\ \E request \in Requests :
       job' = [job EXCEPT !.step = "admit",
                          !.plan = [source |-> live.source, environment |-> live.environment,
                                    request |-> request]]
  /\ UNCHANGED <<files, script, weight, live, swapped, replaced>>

\* Slip: the reserve is rounded down.
ReserveRoundedDown(peak) == (peak * 115) \div 100

\* 115 percent of the measured peak, rounded up.
Reserve(peak) == (peak * 115 + 99) \div 100

\* admit: the remaining session time may be unknown (-1) for a baseline only.
Admits(request, now) ==
  /\ now.disk >= request.disk
  /\ now.vram >= Reserve(request.vram)
  /\ IF now.seconds = -1 THEN job.kind = "lanczos" ELSE now.seconds >= request.seconds

Admit ==
  /\ job.step = "admit"
  /\ \E now \in Lives :
       job' = IF Admits(job.plan.request, now)
                THEN [job EXCEPT !.step = "verify", !.live = now] ELSE NoJob
  /\ UNCHANGED <<files, script, weight, live, swapped, replaced>>

\* verify_plan_bindings: source and environment are the plan's.
VerifyBindings ==
  /\ job.step = "verify"
  /\ job' = IF job.plan.source = live.source /\ job.plan.environment = live.environment
              THEN [job EXCEPT !.step = "started"] ELSE NoJob
  /\ UNCHANGED <<files, script, weight, live, swapped, replaced>>

-----------------------------------------------------------------------------
(***************************************************************************)
(* The surroundings.                                                       *)
(***************************************************************************)
Replacing == replaced < MaxReplaced /\ replaced' = replaced + 1

\* An auditor puts down a receipt, or takes one away.
ReplaceReceipt ==
  /\ Replacing
  /\ \E c \in Case, r \in Offered \union {NoReceipt} : receipt' = [receipt EXCEPT ![c] = r]
  /\ UNCHANGED <<script, record, job, weight, live, swapped>>

ReplaceWeight ==
  /\ Replacing
  /\ \E r \in Roots, w \in Weights : weight' = [weight EXCEPT ![r] = w]
  /\ swapped' = (swapped \/ job.step = "header")
  /\ UNCHANGED <<files, script, job, live>>

\* The source file or the runtime is replaced.
Drift ==
  /\ Replacing
  /\ \E f \in {"source", "environment"} : live' = [live EXCEPT ![f] = @ + 1]
  /\ UNCHANGED <<files, script, job, weight, swapped>>

\* The user starts over with another job.
StartOver ==
  /\ job.step \notin {"start", "header"}
  /\ job' = NoJob
  /\ UNCHANGED <<files, script, weight, live, swapped, replaced>>

ReleaseInit ==
  /\ receipt \in [Case -> Offered \union {NoReceipt}]
  /\ script = Idle
  /\ record = FirstRecord
  /\ job = NoJob
  /\ weight \in [Roots -> Weights \union {NoWeight}]
  /\ live = [source |-> 0, environment |-> 0]
  /\ swapped = FALSE
  /\ replaced = 0

ReleaseNext ==
  \/ BeginAcceptance \/ HashReceipt \/ ParseReceipt \/ WriteReport \/ WriteRecord \/ ScriptDies
  \/ Load \/ FreezeRecipe \/ ResolveHash \/ ResolveHeader \/ FreezePlan \/ Admit \/ VerifyBindings
  \/ ReplaceReceipt \/ ReplaceWeight \/ Drift \/ StartOver

ReleaseSpec == ReleaseInit /\ [][ReleaseNext]_vars

-----------------------------------------------------------------------------
(***************************************************************************)
(* Properties.                                                             *)
(***************************************************************************)

\* What a receipt must say for its case to count.
Qualifies(r, c) ==
  /\ r.case = c /\ r.state = "PASS" /\ RequiredMetrics[c] \subseteq r.metrics
  /\ r.audited /\ r.hashes

Needed(kind, large) ==
  CASE kind = "lanczos" -> IF large THEN {"8k"} ELSE {}
    [] kind = "neural" -> {IF large THEN "8k" ELSE "4k"}
    [] kind = "interpolation" -> {"rife"}
    [] OTHER -> {}

\* A recipe is frozen only on audited receipts: whatever is replaced while the
\* script judges, and wherever it dies, every case of the capability that the
\* recipe needs had passed with all its metrics.
RecipesAreQualified ==
  \A k \in Needed(job.kind, job.large) : \A c \in Requirement[k] :
    Qualifies(job.record.results[c].judged, c)

\* A neural job is planned only with weights that are hashed as registered and
\* licensed, and whose every byte belongs to one tensor, as long as the file
\* is not replaced between the two readings.
WeightsAreWhole ==
  job.kind = "neural" /\ job.step \in {"plan", "admit", "verify", "started"} /\ ~swapped =>
    LET w == job.artifact.header
    IN /\ job.artifact.sha = Entry.sha /\ w.sha = Entry.sha /\ job.artifact.license = "verified"
       /\ \A b \in 0 .. w.data - 1 : Cardinality({t \in w.tensors : t.start <= b /\ b < t.end}) = 1
       /\ \A t \in w.tensors : t.end <= w.data

\* A job starts only with a reserve of 15 percent of the memory it was measured
\* to need, the disk it asks for and, unless it is a baseline that may pause,
\* the time.
StartedJobsFit ==
  job.step = "started" =>
    /\ 100 * job.live.vram >= 115 * job.plan.request.vram
    /\ job.live.disk >= job.plan.request.disk
    /\ job.kind # "lanczos" => job.live.seconds >= job.plan.request.seconds
=============================================================================
