------------------------------ MODULE Notebook ------------------------------
(***************************************************************************)
(* The Kaggle notebook (scripts/build_kaggle_notebook.py writes it to      *)
(* notebooks/): eight code cells over the globals of one kernel.  Its user *)
(* follows docs/kaggle-runbook.md: after an edit that changes the job or   *)
(* its privacy the cells are run in order again, after any other edit cell *)
(* 2 and then any cell that has run before.  A cell that raises keeps what *)
(* it had assigned; the kernel may be restarted at any time.               *)
(*                                                                         *)
(* A job is what its files say: state, committed chunks, final video.  How *)
(* a run gets there is in JobRun and Sessions; here a run commits some     *)
(* chunks, and may raise after any of them.                                *)
(***************************************************************************)
EXTENDS Integers

CONSTANTS
  Jobs,       \* ids of real jobs
  Smoke,      \* the job of run_phase0_smoke
  NoJob,      \* None
  NChunks,    \* chunks of every job
  Shape,      \* Shape[j]: frame count, size, time base of the output of j
  Texts,      \* what the user may write into the parameter cell
  MaxEdits,   \* bound on the edits
  MaxStarts   \* bound on the restarts of the kernel

AllJobs == Jobs \union {Smoke}

Visibility == {"private", "public", "unknown"}

\* run is RUN_JOB, limit MAX_NEW_CHUNKS (0 for None), resume RESUME_PAUSED and
\* pack PREPARE_CONTINUATION.
Parameters == [smoke : BOOLEAN, run : BOOLEAN, limit : Nat, resume : BOOLEAN, pack : BOOLEAN,
               visibility : Visibility, attested : BOOLEAN, internet : BOOLEAN, job : Jobs]

ASSUME NotebookAssumption ==
  /\ Smoke \notin Jobs /\ NoJob \notin AllJobs /\ NChunks \in Nat \ {0}
  /\ DOMAIN Shape = AllJobs /\ Texts \subseteq Parameters
  /\ MaxEdits \in Nat /\ MaxStarts \in Nat

VARIABLES
  text,      \* the parameter cell as written
  params,    \* the parameters as executed
  upTo,      \* cells 1 .. upTo have run for the present job
  prepared,  \* the job of PreparedPhase0, or none
  result,    \* Phase0Result: its job, and that of the artifact if there is one
  verdict,   \* qa_summary
  archive,   \* the continuation archive: the job it is named after and holds
  files,     \* files[j]: state, committed chunks and video of j
  edits, starts

vars == <<text, params, upTo, prepared, result, verdict, archive, files, edits, starts>>
disk == <<archive, files>>
user == <<text, edits, starts>>

\* What decides which job is meant and whether its media may be used.
JobPart(p) == <<p.smoke, p.visibility, p.attested, p.internet, p.job>>

\* The parameter cell as delivered.
Generic(j) == [smoke |-> TRUE, run |-> TRUE, limit |-> 0, resume |-> FALSE, pack |-> FALSE,
               visibility |-> "unknown", attested |-> FALSE, internet |-> FALSE, job |-> j]

\* _apply_profile.
Profiled(j) == [Generic(j) EXCEPT !.smoke = FALSE, !.limit = 1, !.visibility = "private"]

NoResult == [job |-> NoJob, artifact |-> NoJob]
NoVerdict == [state |-> "NOT_EVALUATED", job |-> NoJob]
NoArchive == [name |-> NoJob, job |-> NoJob]
NewFiles == [state |-> "running", chunks |-> 0, video |-> FALSE]

NotebookInit ==
  /\ text \in {Generic(j) : j \in Jobs} \union {Profiled(j) : j \in Jobs}
  /\ params = text /\ upTo = 0 /\ prepared = NoJob /\ result = NoResult /\ verdict = NoVerdict
  /\ archive = NoArchive /\ files = [j \in AllJobs |-> NewFiles]
  /\ edits = 0 /\ starts = 0

-----------------------------------------------------------------------------
\* Cell k is run, and ends well or raises.
Ran(k) == upTo >= k - 1 /\ upTo' = IF k > upTo THEN k ELSE upTo
Raised(k) == upTo >= k - 1 /\ upTo' = k - 1

\* 1: finds the code, which must be attached exactly once, and FFmpeg.
SetupCell ==
  /\ Ran(1) \/ Raised(1)
  /\ UNCHANGED <<params, prepared, result, verdict, disk, user>>

\* 2: the parameters take effect.
ParameterCell ==
  /\ upTo >= 1
  /\ params' = text
  /\ upTo' = IF upTo >= 2 /\ JobPart(text) = JobPart(params) THEN upTo ELSE 2
  /\ UNCHANGED <<prepared, result, verdict, disk, user>>

\* SensitiveMediaPreflight.run.
Private(p) ==
  /\ ~p.internet
  /\ p.visibility # "public"
  /\ p.visibility = "unknown" => p.attested

\* Slip: a failed preflight is reported, and the notebook goes on.
PreflightReported ==
  /\ Ran(3)
  /\ UNCHANGED <<params, prepared, result, verdict, disk, user>>

\* 3: a smoke job passes; a real one needs privacy, and ffprobe.
PreflightCell ==
  /\ \/ (params.smoke \/ Private(params)) /\ Ran(3)
     \/ ~params.smoke /\ Raised(3)
  /\ UNCHANGED <<params, prepared, result, verdict, disk, user>>

\* 4: prepared is reset first, and prepare_phase0 may refuse.
PrepareCell ==
  /\ \/ Ran(4) /\ prepared' = IF params.smoke THEN NoJob ELSE params.job
     \/ ~params.smoke /\ Raised(4) /\ prepared' = NoJob
  /\ UNCHANGED <<params, result, verdict, disk, user>>

\* 5: shows the capability record; nothing depends on it.
RecipeCell ==
  /\ Ran(5) \/ Raised(5)
  /\ UNCHANGED <<params, prepared, result, verdict, disk, user>>

\* run_phase0_smoke: a job of its own, whose source and plan are made anew and
\* always the same, without limit and never resumed.
SmokeRun == [job |-> Smoke, limit |-> 0, resume |-> FALSE]

\* run_prepared_phase0.
PreparedRun == [job |-> prepared, limit |-> params.limit, resume |-> params.resume]

Requested == IF params.smoke THEN SmokeRun ELSE PreparedRun

Runs(r) == files[r.job].state = "running" \/ (files[r.job].state = "paused" /\ r.resume)

\* How many chunks a run can commit.  Fewer than are left, when leases of an
\* interrupted run have not expired.
Commits(r) ==
  IF Runs(r) THEN {n \in 0 .. NChunks - files[r.job].chunks : r.limit # 0 => n <= r.limit} ELSE {0}

\* execute_lanczos_job: the files after n chunks were committed.
Slice(r, n) ==
  LET f == files[r.job]
      whole == f.chunks + n = NChunks
  IN [state |-> IF ~Runs(r) THEN f.state
                ELSE IF whole THEN "complete"
                ELSE IF r.limit # 0 /\ n = r.limit THEN "paused" ELSE "running",
      chunks |-> f.chunks + n,
      video |-> f.video \/ whole]

\* What run r makes of the files and returns.
Completed(r, n) ==
  LET new == Slice(r, n)
  IN /\ files' = [files EXCEPT ![r.job] = new]
     /\ result' = [job |-> r.job, artifact |-> IF new.state = "complete" THEN r.job ELSE NoJob]

\* It raises after n chunks, or after the last one before there is a video.
Interrupted(r, n) ==
  files' = [files EXCEPT ![r.job] =
              [Slice([r EXCEPT !.limit = 0], n) EXCEPT !.video = files[r.job].video]]

\* Slip: result keeps its value when no job is run.
RunCellKeepsResult ==
  /\ \/ ~params.run /\ Ran(6) /\ UNCHANGED <<result, files>>
     \/ /\ params.run /\ Requested.job # NoJob
        /\ \E n \in Commits(Requested) : Ran(6) /\ Completed(Requested, n)
  /\ UNCHANGED <<params, prepared, verdict, archive, user>>

\* 6: result is reset; the smoke job or the prepared one is run.
RunCell ==
  /\ \/ ~params.run /\ Ran(6) /\ result' = NoResult /\ UNCHANGED files
     \/ /\ params.run /\ Requested.job # NoJob
        /\ \E n \in Commits(Requested) :
             \/ Ran(6) /\ Completed(Requested, n)
             \/ Raised(6) /\ result' = NoResult /\ Interrupted(Requested, n)
     \/ params.run /\ Requested.job = NoJob /\ Raised(6) /\ result' = NoResult /\ UNCHANGED files
  /\ UNCHANGED <<params, prepared, verdict, archive, user>>

\* run_structural_qa: what was made of one job has the shape planned for another.
StructuralQa(made, expected) == IF Shape[made] = Shape[expected] THEN "PASS" ELSE "FAIL"

\* 7: the artifact is checked against the prepared timeline and
\* geometry or those of the smoke job.
QaCell ==
  LET expected == IF params.smoke THEN Smoke ELSE prepared
      made == result.artifact
  IN /\ \/ made = NoJob /\ Ran(7) /\ verdict' = NoVerdict
        \/ /\ made # NoJob /\ expected # NoJob /\ Ran(7)
           /\ verdict' = [state |-> StructuralQa(made, expected), job |-> made]
        \/ made # NoJob /\ expected = NoJob /\ Raised(7) /\ verdict' = NoVerdict
     /\ UNCHANGED <<params, prepared, result, disk, user>>

\* 8: packs the prepared job, once it was run, under the JOB_ID of the parameters.
ContinuationCell ==
  /\ \/ ~params.pack /\ Ran(8) /\ UNCHANGED archive
     \/ /\ params.pack /\ ~params.smoke /\ prepared # NoJob /\ result # NoResult /\ Ran(8)
        /\ archive' = [name |-> params.job, job |-> prepared]
     \/ /\ params.pack /\ (params.smoke \/ prepared = NoJob \/ result = NoResult) /\ Raised(8)
        /\ UNCHANGED archive
  /\ UNCHANGED <<params, prepared, result, verdict, files, user>>

-----------------------------------------------------------------------------
\* The user edits the parameter cell.
Edit ==
  /\ edits < MaxEdits /\ edits' = edits + 1
  /\ text' \in Texts \ {text}
  /\ UNCHANGED <<params, upTo, prepared, result, verdict, disk, starts>>

\* A new kernel: the globals are gone.
Restart ==
  /\ starts < MaxStarts /\ starts' = starts + 1
  /\ upTo' = 0 /\ prepared' = NoJob /\ result' = NoResult /\ verdict' = NoVerdict
  /\ UNCHANGED <<text, params, disk, edits>>

NotebookNext ==
  \/ SetupCell \/ ParameterCell \/ PreflightCell \/ PrepareCell \/ RecipeCell
  \/ RunCell \/ QaCell \/ ContinuationCell \/ Edit \/ Restart

NotebookSpec == NotebookInit /\ [][NotebookNext]_vars

-----------------------------------------------------------------------------
(***************************************************************************)
(* Properties.                                                             *)
(***************************************************************************)

\* Real media is prepared or read only under parameters that the preflight
\* lets pass, although no cell after Section 3 asks for its outcome: its
\* exception is all that stops them.
MediaIsPrivate ==
  [][(prepared' \notin {prepared, NoJob} \/ \E j \in Jobs : files'[j].chunks # files[j].chunks) =>
       /\ ~params.smoke /\ ~params.internet
       /\ params.visibility = "private" \/ (params.visibility = "unknown" /\ params.attested)]_vars

\* A PASS is about the job at hand, whose video is there and complete, although
\* the cells take the artifact from one global and the expectation from
\* another; and an archive holds the job that it is named after.
VerdictIsOfThisJob ==
  /\ upTo >= 7 /\ verdict.state = "PASS" =>
       /\ verdict.job = IF params.smoke THEN Smoke ELSE prepared
       /\ files[verdict.job] = [state |-> "complete", chunks |-> NChunks, video |-> TRUE]
  /\ archive.name = archive.job
=============================================================================
