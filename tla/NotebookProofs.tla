--------------------------- MODULE NotebookProofs ---------------------------
(***************************************************************************)
(* Theorems about Notebook: for any jobs and shapes, any edits of the      *)
(* parameter cell and any number of restarts.  The cells communicate       *)
(* through globals only, so the invariant says what each global means once *)
(* the cell that assigns it has run for the present job.                   *)
(***************************************************************************)
EXTENDS Notebook, TLAPS

JobFiles == [state : {"running", "paused", "complete"}, chunks : 0 .. NChunks, video : BOOLEAN]

Whole == [state |-> "complete", chunks |-> NChunks, video |-> TRUE]

\* The job that the parameters mean, as Section 7 expects it.
Expected == IF params.smoke THEN Smoke ELSE prepared

TypeInv ==
  /\ text \in Parameters /\ params \in Parameters
  /\ upTo \in 0 .. 8
  /\ prepared \in Jobs \union {NoJob}
  /\ result.artifact \in AllJobs \union {NoJob}
  /\ files \in [AllJobs -> JobFiles]

\* A job that is complete has all its chunks, although perhaps no video yet.
FilesInv == \A j \in AllJobs : files[j].state = "complete" => files[j].chunks = NChunks

\* What the cells that have run for the present job have established.
Established ==
  /\ upTo >= 3 => params.smoke \/ Private(params)
  /\ upTo >= 4 => prepared = IF params.smoke THEN NoJob ELSE params.job
  /\ result.artifact # NoJob => files[result.artifact] = Whole
  /\ upTo >= 6 /\ result.artifact # NoJob => result.artifact = Expected
  /\ verdict.state = "PASS" => verdict.job \in AllJobs /\ files[verdict.job] = Whole
  /\ upTo >= 7 /\ verdict.state = "PASS" => verdict.job = Expected
  /\ archive.name = archive.job

Inv == TypeInv /\ FilesInv /\ Established

\* The two ways in which a cell ends.
LEMMA Ends ==
  ASSUME NEW k \in 1 .. 8, upTo \in 0 .. 8, Ran(k) \/ Raised(k)
  PROVE  /\ upTo' \in 0 .. 8
         /\ upTo >= k - 1
         /\ upTo' = upTo \/ (upTo' = k /\ upTo = k - 1) \/ upTo' = k - 1
         /\ Raised(k) => upTo' = k - 1
  BY DEF Ran, Raised

\* execute_lanczos_job on files that are in order.
LEMMA SliceFields ==
  ASSUME Inv, NEW r, NEW n, r.job \in AllJobs, r.limit \in Nat, n \in Commits(r)
  PROVE  /\ Slice(r, n) \in JobFiles
         /\ Slice(r, n).state = "complete" => Slice(r, n).chunks = NChunks /\ Slice(r, n).video
         /\ files[r.job] = Whole => Slice(r, n) = Whole
  <1> DEFINE f == files[r.job]
             s == Slice(r, n)
  <1>1. f \in JobFiles /\ (f.state = "complete" => f.chunks = NChunks) /\ NChunks \in Nat \ {0}
    BY NotebookAssumption DEF Inv, TypeInv, FilesInv
  <1>2. n \in Nat /\ f.chunks + n <= NChunks /\ (~Runs(r) => n = 0)
    BY <1>1 DEF Commits, JobFiles
  <1> DEFINE whole == f.chunks + n = NChunks
             st == IF ~Runs(r) THEN f.state
                   ELSE IF whole THEN "complete"
                   ELSE IF r.limit # 0 /\ n = r.limit THEN "paused" ELSE "running"
             v == f.video \/ whole
  <1>3. s = [state |-> st, chunks |-> f.chunks + n, video |-> v]
    BY DEF Slice
  <1>4. /\ Runs(r) => f.state # "complete"
        /\ ~Runs(r) => st = f.state
        /\ Runs(r) /\ whole => st = "complete"
        /\ Runs(r) /\ ~whole => st \in {"paused", "running"}
    BY DEF Runs
  <1>5. v \in BOOLEAN /\ (whole => v = TRUE)
    OBVIOUS
  <1> HIDE DEF st, v, s
  <1>6. s.state = st /\ s.chunks = f.chunks + n /\ s.video = v
    BY <1>3
  <1>7. st = "complete" => whole
    BY <1>1, <1>2, <1>4 DEF JobFiles
  <1>8. s \in JobFiles
    <2>1. st \in {"running", "paused", "complete"} /\ f.chunks + n \in 0 .. NChunks
      BY <1>1, <1>2, <1>4 DEF JobFiles
    <2>2. QED
      BY <1>3, <1>5, <2>1 DEF JobFiles
  <1>9. f = Whole => s = Whole
    <2>1. f = Whole => st = "complete" /\ f.chunks + n = NChunks /\ v = TRUE
      BY <1>1, <1>2, <1>4, <1>5 DEF Whole, JobFiles
    <2>2. QED
      BY <1>3, <2>1 DEF Whole
  <1>10. QED
    BY <1>5, <1>6, <1>7, <1>8, <1>9 DEF s
-----------------------------------------------------------------------------
(***************************************************************************)
(* The files of a job under a run of it.                                   *)
(***************************************************************************)
Run == [job : AllJobs, limit : Nat, resume : BOOLEAN]

\* The files of one job are replaced: all jobs stay in order, and what was
\* whole stays whole.
LEMMA Replaced ==
  ASSUME Inv, NEW j \in AllJobs, NEW new \in JobFiles,
         new.state = "complete" => new.chunks = NChunks,
         files[j] = Whole => new = Whole,
         files' = [files EXCEPT ![j] = new]
  PROVE  /\ files' \in [AllJobs -> JobFiles] /\ FilesInv'
         /\ \A i \in AllJobs : files[i] = Whole => files'[i] = Whole
         /\ files'[j] = new
         /\ \A i \in AllJobs : i # j => files'[i] = files[i]
  BY DEF Inv, TypeInv, FilesInv

\* A run that ends (Completed): a complete job has its video.
LEMMA CompletedFields ==
  ASSUME Inv, NEW r \in Run, NEW n, n \in Commits(r), Completed(r, n)
  PROVE  /\ files' \in [AllJobs -> JobFiles] /\ FilesInv'
         /\ \A i \in AllJobs : files[i] = Whole => files'[i] = Whole
         /\ result'.artifact \in {r.job, NoJob}
         /\ result'.artifact # NoJob => files'[r.job] = Whole
         /\ \A i \in AllJobs : i # r.job => files'[i] = files[i]
  <1> DEFINE new == Slice(r, n)
  <1>1. r.job \in AllJobs /\ r.limit \in Nat
    BY DEF Run
  <1>2. /\ new \in JobFiles
        /\ new.state = "complete" => new.chunks = NChunks /\ new.video
        /\ files[r.job] = Whole => new = Whole
    BY <1>1, SliceFields
  <1>3. /\ files' = [files EXCEPT ![r.job] = new]
        /\ result' = [job |-> r.job, artifact |-> IF new.state = "complete" THEN r.job ELSE NoJob]
    BY DEF Completed
  <1> HIDE DEF new
  <1>4. /\ files' \in [AllJobs -> JobFiles] /\ FilesInv'
        /\ \A i \in AllJobs : files[i] = Whole => files'[i] = Whole
        /\ files'[r.job] = new
        /\ \A i \in AllJobs : i # r.job => files'[i] = files[i]
    BY <1>1, <1>2, <1>3, Replaced
  <1>5. new.state = "complete" => new = Whole
    BY <1>2 DEF JobFiles, Whole
  <1>6. QED
    BY <1>3, <1>4, <1>5

\* A run that raises (Interrupted): a complete job may be without a video.
LEMMA InterruptedFields ==
  ASSUME Inv, NEW r \in Run, NEW n, n \in Commits(r), Interrupted(r, n)
  PROVE  /\ files' \in [AllJobs -> JobFiles] /\ FilesInv'
         /\ \A i \in AllJobs : files[i] = Whole => files'[i] = Whole
         /\ \A i \in AllJobs : i # r.job => files'[i] = files[i]
  <1> DEFINE q == [r EXCEPT !.limit = 0]
             made == Slice(q, n)
             new == [made EXCEPT !.video = files[r.job].video]
  <1>1. r.job \in AllJobs /\ q.job = r.job /\ q.limit = 0 /\ q.resume = r.resume
    BY DEF Run
  <1>2. n \in Commits(q)
    BY <1>1 DEF Commits, Runs
  <1>3. files[r.job] \in JobFiles
    BY <1>1 DEF Inv, TypeInv
  <1>4. files' = [files EXCEPT ![r.job] = new]
    BY DEF Interrupted
  <1> HIDE DEF q
  <1>5. /\ made \in JobFiles
        /\ made.state = "complete" => made.chunks = NChunks /\ made.video
        /\ files[r.job] = Whole => made = Whole
    BY <1>1, <1>2, SliceFields
  <1> HIDE DEF made
  <1>6. /\ new \in JobFiles
        /\ new.state = "complete" => new.chunks = NChunks
        /\ files[r.job] = Whole => new = Whole
    BY <1>3, <1>5 DEF JobFiles, Whole
  <1> HIDE DEF new
  <1>7. QED
    BY <1>1, <1>4, <1>6, Replaced

\* Section 6 runs the job that the parameters mean.
LEMMA RequestedRun ==
  ASSUME Inv, Requested.job # NoJob
  PROVE  Requested \in Run /\ Requested.job = Expected
  <1>1. CASE params.smoke
    BY <1>1 DEF Requested, SmokeRun, Run, AllJobs, Expected
  <1>2. CASE ~params.smoke
    <2>1. prepared \in Jobs /\ params.limit \in Nat /\ params.resume \in BOOLEAN
      BY <1>2 DEF Requested, PreparedRun, Inv, TypeInv, Parameters
    <2>2. QED
      BY <1>2, <2>1 DEF Requested, PreparedRun, Run, AllJobs, Expected
  <1>3. QED
    BY <1>1, <1>2

-----------------------------------------------------------------------------
(***************************************************************************)
(* One cell after the other.                                               *)
(***************************************************************************)

\* A cell that assigns no global, and establishes nothing but privacy.
LEMMA OnlyRan ==
  ASSUME Inv, upTo' \in 0 .. 8,
         UNCHANGED <<params, prepared, result, verdict, disk, user>>,
         upTo' >= 3 => upTo >= 3 \/ params.smoke \/ Private(params),
         upTo' >= 4 => upTo >= 4,
         upTo' >= 6 => upTo >= 6,
         upTo' >= 7 => upTo >= 7
  PROVE  Inv'
  <1>1. /\ params' = params /\ prepared' = prepared /\ result' = result /\ verdict' = verdict
        /\ archive' = archive /\ files' = files /\ text' = text
    BY DEF disk, user
  <1>2. TypeInv' /\ FilesInv'
    BY <1>1 DEF Inv, TypeInv, FilesInv
  <1>3. Private(params) => Private(params')
    BY <1>1
  <1>4. Established'
    BY <1>1, <1>3 DEF Inv, TypeInv, Established, Expected
  <1>5. QED
    BY <1>2, <1>4 DEF Inv

\* Section 1 finds code and FFmpeg.
LEMMA SetupStep ==
  ASSUME Inv, SetupCell
  PROVE  Inv'
  <1>1. upTo \in 0 .. 8
    BY DEF Inv, TypeInv
  <1>2. QED
    BY <1>1, Ends, OnlyRan DEF SetupCell

\* The preflight passes, for a real job, only under private parameters.
LEMMA PreflightStep ==
  ASSUME Inv, PreflightCell
  PROVE  Inv'
  <1>1. upTo \in 0 .. 8
    BY DEF Inv, TypeInv
  <1>2. Ran(3) \/ Raised(3)
    BY DEF PreflightCell
  <1>3. Raised(3) \/ params.smoke \/ Private(params)
    BY DEF PreflightCell
  <1>4. QED
    BY <1>1, <1>2, <1>3, Ends, OnlyRan DEF PreflightCell

\* Section 5 shows a record.
LEMMA RecipeStep ==
  ASSUME Inv, RecipeCell
  PROVE  Inv'
  <1>1. upTo \in 0 .. 8
    BY DEF Inv, TypeInv
  <1>2. QED
    BY <1>1, Ends, OnlyRan DEF RecipeCell

\* New parameters mean the same job and the same privacy, or every cell from
\* the third on has to run again.
LEMMA ParameterStep ==
  ASSUME Inv, ParameterCell
  PROVE  Inv'
  <1>1. /\ params' = text /\ prepared' = prepared /\ result' = result /\ verdict' = verdict
        /\ archive' = archive /\ files' = files /\ text' = text
    BY DEF ParameterCell, disk, user
  <1>2. upTo' = IF upTo >= 2 /\ JobPart(text) = JobPart(params) THEN upTo ELSE 2
    BY DEF ParameterCell
  <1>3. TypeInv' /\ FilesInv'
    BY <1>1, <1>2 DEF Inv, TypeInv, FilesInv
  <1>4. CASE JobPart(text) = JobPart(params) /\ upTo' = upTo
    <2>1. /\ params'.smoke = params.smoke /\ params'.visibility = params.visibility
          /\ params'.attested = params.attested /\ params'.internet = params.internet
          /\ params'.job = params.job
      BY <1>1, <1>4 DEF JobPart
    <2>2. Private(params) => Private(params')
      BY <2>1 DEF Private
    <2>3. Expected' = Expected
      BY <1>1, <2>1 DEF Expected
    <2>4. Established'
      BY <1>1, <1>4, <2>1, <2>2, <2>3 DEF Inv, Established
    <2>5. QED
      BY <1>3, <2>4 DEF Inv
  <1>5. CASE upTo' = 2
    <2>1. Established'
      BY <1>1, <1>5 DEF Inv, Established
    <2>2. QED
      BY <1>3, <2>1 DEF Inv
  <1>6. QED
    BY <1>2, <1>4, <1>5

\* Section 4 prepares the job of the parameters, or leaves none.
LEMMA PrepareStep ==
  ASSUME Inv, PrepareCell
  PROVE  Inv'
  <1>1. /\ params' = params /\ result' = result /\ verdict' = verdict
        /\ archive' = archive /\ files' = files /\ text' = text
    BY DEF PrepareCell, disk, user
  <1>2. upTo \in 0 .. 8 /\ params \in Parameters
    BY DEF Inv, TypeInv
  <1>3. /\ upTo' \in 0 .. 8 /\ upTo >= 3
        /\ upTo' = upTo \/ (upTo' = 4 /\ upTo = 3) \/ upTo' = 3
        /\ Raised(4) => upTo' = 3
    BY <1>2, Ends DEF PrepareCell
  <1>4. \/ prepared' = IF params.smoke THEN NoJob ELSE params.job
        \/ upTo' = 3 /\ prepared' = NoJob
    BY <1>3 DEF PrepareCell
  <1>5. prepared' \in Jobs \union {NoJob}
    BY <1>2, <1>4 DEF Parameters
  <1>6. TypeInv' /\ FilesInv'
    BY <1>1, <1>3, <1>5 DEF Inv, TypeInv, FilesInv
  <1>7. Private(params) => Private(params')
    BY <1>1
  <1>8. upTo' >= 4 => prepared' = IF params'.smoke THEN NoJob ELSE params'.job
    BY <1>1, <1>2, <1>3, <1>4
  <1>9. upTo' >= 6 => upTo' = upTo /\ prepared' = prepared
    BY <1>1, <1>2, <1>3, <1>8 DEF Inv, Established
  <1>10. upTo' >= 6 => Expected' = Expected
    BY <1>1, <1>9 DEF Expected
  <1>11. Established'
    BY <1>1, <1>2, <1>3, <1>7, <1>8, <1>9, <1>10 DEF Inv, Established
  <1>12. QED
    BY <1>6, <1>11 DEF Inv

\* Section 6: what the globals say of a job stays true of its files, which
\* only grow, and the artifact is the job's.
LEMMA RunStep ==
  ASSUME Inv, RunCell
  PROVE  Inv'
  <1>1. /\ params' = params /\ prepared' = prepared /\ verdict' = verdict
        /\ archive' = archive /\ text' = text
    BY DEF RunCell, user
  <1>2. upTo \in 0 .. 8
    BY DEF Inv, TypeInv
  <1>3. Ran(6) \/ Raised(6)
    BY DEF RunCell
  <1>4. /\ upTo' \in 0 .. 8 /\ upTo >= 5
        /\ upTo' = upTo \/ (upTo' = 6 /\ upTo = 5) \/ upTo' = 5
    BY <1>2, <1>3, Ends
  <1>5. Expected' = Expected
    BY <1>1 DEF Expected
  <1> DEFINE Moved == /\ files' \in [AllJobs -> JobFiles] /\ FilesInv'
                      /\ \A i \in AllJobs : files[i] = Whole => files'[i] = Whole
             Made == /\ result'.artifact \in {Expected, NoJob}
                     /\ result'.artifact \in AllJobs \union {NoJob}
                     /\ result'.artifact # NoJob => files'[result'.artifact] = Whole
  <1>6. Moved /\ Made
    <2>1. CASE result' = NoResult /\ UNCHANGED files
      <3>1. Moved
        BY <2>1 DEF Inv, TypeInv, FilesInv
      <3>2. QED
        BY <2>1, <3>1 DEF NoResult
    <2>2. ASSUME Requested.job # NoJob, NEW n \in Commits(Requested), Completed(Requested, n)
          PROVE  Moved /\ Made
      <3> DEFINE r == Requested
      <3>1. r \in Run /\ r.job = Expected
        BY <2>2, RequestedRun
      <3>2. n \in Commits(r) /\ Completed(r, n)
        BY <2>2
      <3> HIDE DEF r
      <3>3. /\ Moved
            /\ result'.artifact \in {r.job, NoJob}
            /\ result'.artifact # NoJob => files'[r.job] = Whole
        BY <3>1, <3>2, CompletedFields
      <3>4. r.job \in AllJobs
        BY <3>1 DEF Run
      <3>5. QED
        BY <3>1, <3>3, <3>4
    <2>3. ASSUME Requested.job # NoJob, NEW n \in Commits(Requested), result' = NoResult,
                 Interrupted(Requested, n)
          PROVE  Moved /\ Made
      <3> DEFINE r == Requested
      <3>1. r \in Run
        BY <2>3, RequestedRun
      <3>2. n \in Commits(r) /\ Interrupted(r, n)
        BY <2>3
      <3> HIDE DEF r
      <3>3. Moved
        BY <3>1, <3>2, InterruptedFields
      <3>4. QED
        BY <2>3, <3>3 DEF NoResult
    <2>4. QED
      BY <2>1, <2>2, <2>3 DEF RunCell
  <1> HIDE DEF Moved, Made
  <1>7. TypeInv' /\ FilesInv'
    BY <1>1, <1>4, <1>6 DEF Inv, TypeInv, Moved, Made
  <1>8. Private(params) => Private(params')
    BY <1>1
  <1>9. verdict'.state = "PASS" => verdict'.job \in AllJobs /\ files'[verdict'.job] = Whole
    BY <1>1, <1>6 DEF Inv, Established, Moved
  <1>10. Established'
    BY <1>1, <1>2, <1>4, <1>5, <1>6, <1>8, <1>9 DEF Inv, Established, Made
  <1>11. QED
    BY <1>7, <1>10 DEF Inv

\* Section 7 judges the artifact, which since Section 6 is that of the job.
LEMMA QaStep ==
  ASSUME Inv, QaCell
  PROVE  Inv'
  <1>1. /\ params' = params /\ prepared' = prepared /\ result' = result
        /\ archive' = archive /\ files' = files /\ text' = text
    BY DEF QaCell, disk, user
  <1>2. upTo \in 0 .. 8
    BY DEF Inv, TypeInv
  <1>3. Ran(7) \/ Raised(7)
    BY DEF QaCell
  <1>4. /\ upTo' \in 0 .. 8 /\ upTo >= 6
        /\ upTo' = upTo \/ (upTo' = 7 /\ upTo = 6) \/ upTo' = 6
    BY <1>2, <1>3, Ends
  <1>5. Expected' = Expected
    BY <1>1 DEF Expected
  <1>6. verdict'.state = "PASS" => verdict'.job = result.artifact /\ result.artifact # NoJob
    BY DEF QaCell, NoVerdict
  <1>7. result.artifact # NoJob =>
          /\ result.artifact \in AllJobs /\ files[result.artifact] = Whole
          /\ result.artifact = Expected
    BY <1>4 DEF Inv, TypeInv, Established
  <1>8. TypeInv' /\ FilesInv'
    BY <1>1, <1>4 DEF Inv, TypeInv, FilesInv
  <1>9. Private(params) => Private(params')
    BY <1>1
  <1>10. Established'
    BY <1>1, <1>2, <1>4, <1>5, <1>6, <1>7, <1>9 DEF Inv, Established
  <1>11. QED
    BY <1>8, <1>10 DEF Inv

\* Section 8 names the archive after the job that Section 4 prepared.
LEMMA ContinuationStep ==
  ASSUME Inv, ContinuationCell
  PROVE  Inv'
  <1>1. /\ params' = params /\ prepared' = prepared /\ result' = result
        /\ verdict' = verdict /\ files' = files /\ text' = text
    BY DEF ContinuationCell, user
  <1>2. upTo \in 0 .. 8
    BY DEF Inv, TypeInv
  <1>3. Ran(8) \/ Raised(8)
    BY DEF ContinuationCell
  <1>4. /\ upTo' \in 0 .. 8 /\ upTo >= 7
        /\ upTo' = upTo \/ (upTo' = 8 /\ upTo = 7) \/ upTo' = 7
    BY <1>2, <1>3, Ends
  <1>5. archive'.name = archive'.job
    <2>1. CASE UNCHANGED archive
      BY <2>1 DEF Inv, Established
    <2>2. CASE ~params.smoke /\ archive' = [name |-> params.job, job |-> prepared]
      BY <1>2, <1>4, <2>2 DEF Inv, Established
    <2>3. QED
      BY <2>1, <2>2 DEF ContinuationCell
  <1>6. Expected' = Expected
    BY <1>1 DEF Expected
  <1>7. TypeInv' /\ FilesInv'
    BY <1>1, <1>4 DEF Inv, TypeInv, FilesInv
  <1>8. Private(params) => Private(params')
    BY <1>1
  <1>9. Established'
    BY <1>1, <1>2, <1>4, <1>5, <1>6, <1>8 DEF Inv, Established
  <1>10. QED
    BY <1>7, <1>9 DEF Inv

\* The user edits the cell, which takes no effect until it is run.
LEMMA EditStep ==
  ASSUME Inv, Edit
  PROVE  Inv'
  <1>1. /\ params' = params /\ upTo' = upTo /\ prepared' = prepared /\ result' = result
        /\ verdict' = verdict /\ archive' = archive /\ files' = files
    BY DEF Edit, disk
  <1>2. text' \in Parameters
    BY NotebookAssumption DEF Edit
  <1>3. TypeInv' /\ FilesInv'
    BY <1>1, <1>2 DEF Inv, TypeInv, FilesInv
  <1>4. Private(params) => Private(params')
    BY <1>1
  <1>5. Established'
    BY <1>1, <1>4 DEF Inv, Established, Expected
  <1>6. QED
    BY <1>3, <1>5 DEF Inv

\* A new kernel has nothing established, and the archive is still there.
LEMMA RestartStep ==
  ASSUME Inv, Restart
  PROVE  Inv'
  <1>1. /\ params' = params /\ upTo' = 0 /\ prepared' = NoJob /\ result' = NoResult
        /\ verdict' = NoVerdict /\ archive' = archive /\ files' = files /\ text' = text
    BY DEF Restart, disk
  <1>2. TypeInv' /\ FilesInv'
    BY <1>1 DEF Inv, TypeInv, FilesInv, NoResult
  <1>3. Established'
    BY <1>1 DEF Inv, Established, NoResult, NoVerdict
  <1>4. QED
    BY <1>2, <1>3 DEF Inv

\* The notebook as delivered.
LEMMA NotebookStart ==
  ASSUME NotebookInit
  PROVE  Inv
  <1>1. \A j \in Jobs : Generic(j) \in Parameters /\ Profiled(j) \in Parameters
    BY DEF Generic, Profiled, Parameters, Visibility
  <1>2. text \in Parameters /\ params \in Parameters
    BY <1>1 DEF NotebookInit
  <1>3. NewFiles \in JobFiles /\ NewFiles.state = "running"
    BY NotebookAssumption DEF NewFiles, JobFiles
  <1>4. files \in [AllJobs -> JobFiles] /\ \A j \in AllJobs : files[j] = NewFiles
    BY <1>3 DEF NotebookInit
  <1>5. TypeInv /\ FilesInv
    BY <1>2, <1>3, <1>4 DEF TypeInv, FilesInv, NotebookInit, NoResult
  <1>6. Established
    BY DEF Established, NotebookInit, NoResult, NoVerdict, NoArchive
  <1>7. QED
    BY <1>5, <1>6 DEF Inv

\* Every cell, edit and restart keeps the invariant.
LEMMA NotebookStep ==
  ASSUME Inv, [NotebookNext]_vars
  PROVE  Inv'
  <1>1. CASE NotebookNext
    BY <1>1, SetupStep, ParameterStep, PreflightStep, PrepareStep, RecipeStep, RunStep, QaStep,
       ContinuationStep, EditStep, RestartStep DEF NotebookNext
  <1>2. CASE UNCHANGED vars
    BY <1>2 DEF vars, Inv, TypeInv, FilesInv, Established, Expected, Private
  <1>3. QED
    BY <1>1, <1>2

\* The invariant holds in every state of a notebook.
LEMMA NotebookInvariant == NotebookSpec => []Inv
  <1>1. NotebookInit => Inv
    BY NotebookStart
  <1>2. Inv /\ [NotebookNext]_vars => Inv'
    BY NotebookStep
  <1>3. QED
    BY <1>1, <1>2, PTL DEF NotebookSpec

-----------------------------------------------------------------------------
(***************************************************************************)
(* Theorems.                                                               *)
(***************************************************************************)

\* A PASS of Section 7 is about the job that the parameters mean, whose files
\* are whole, and an archive is named after the job it holds.
THEOREM VerdictsAreOfTheJob == NotebookSpec => []VerdictIsOfThisJob
  <1>1. Inv => VerdictIsOfThisJob
    BY DEF Inv, TypeInv, Established, VerdictIsOfThisJob, Expected, Whole
  <1>2. QED
    BY <1>1, NotebookInvariant, PTL

\* Media of a real job are read only by Sections 4 and 6, which run only after
\* the preflight has passed for the parameters in effect.
THEOREM MediaStaysPrivate == NotebookSpec => MediaIsPrivate
  <1> DEFINE Reads == prepared' \notin {prepared, NoJob}
                      \/ \E j \in Jobs : files'[j].chunks # files[j].chunks
             Allowed == /\ ~params.smoke /\ ~params.internet
                        /\ \/ params.visibility = "private"
                           \/ params.visibility = "unknown" /\ params.attested
  <1>1. ASSUME Inv, [NotebookNext]_vars, Reads
        PROVE  Allowed
    <2>1. upTo \in 0 .. 8 /\ params \in Parameters
      BY <1>1 DEF Inv, TypeInv
    <2>2. Private(params) /\ ~params.smoke => Allowed
      BY <2>1 DEF Private, Parameters, Visibility
    <2>3. CASE PrepareCell
      <3>1. files' = files /\ upTo >= 3
        BY <2>1, <2>3, Ends DEF PrepareCell, disk
      <3>2. ~params.smoke
        BY <1>1, <2>3, <3>1 DEF PrepareCell
      <3>3. QED
        BY <1>1, <2>2, <3>1, <3>2 DEF Inv, Established
    <2>4. CASE RunCell
      <3>1. prepared' = prepared /\ (Ran(6) \/ Raised(6))
        BY <2>4 DEF RunCell
      <3>2. upTo >= 5
        BY <2>1, <3>1, Ends
      <3>3. PICK j \in Jobs : files'[j].chunks # files[j].chunks
        BY <1>1, <3>1
      <3>4. ~params.smoke
        <4>1. SUFFICES ASSUME params.smoke PROVE FALSE
          OBVIOUS
        <4>2. Requested.job = Smoke /\ j # Smoke /\ j \in AllJobs /\ Smoke # NoJob
          BY <4>1, NotebookAssumption DEF Requested, SmokeRun, AllJobs
        <4>3. Requested \in Run
          BY <1>1, <4>2, RequestedRun
        <4>4. files' # files
          BY <3>3
        <4>5. PICK n \in Commits(Requested) :
                Completed(Requested, n) \/ Interrupted(Requested, n)
          BY <2>4, <4>4 DEF RunCell
        <4> DEFINE r == Requested
        <4>6. r \in Run /\ n \in Commits(r) /\ (Completed(r, n) \/ Interrupted(r, n))
              /\ r.job = Smoke
          BY <4>2, <4>3, <4>5
        <4> HIDE DEF r
        <4>7. files'[j] = files[j]
          BY <1>1, <4>2, <4>6, CompletedFields, InterruptedFields
        <4>8. QED
          BY <3>3, <4>7
      <3>5. QED
        BY <1>1, <2>1, <2>2, <3>2, <3>4 DEF Inv, Established
    <2>5. ASSUME prepared' \in {prepared, NoJob}, files' = files
          PROVE  FALSE
      BY <1>1, <2>5
    <2>6. QED
      BY <1>1, <2>3, <2>4, <2>5
      DEF NotebookNext, SetupCell, ParameterCell, PreflightCell, RecipeCell, QaCell,
          ContinuationCell, Edit, Restart, vars, disk, user
  <1>2. Inv /\ [NotebookNext]_vars => (Reads => Allowed)
    BY <1>1
  <1>3. QED
    BY <1>2, NotebookInvariant, PTL DEF NotebookSpec, MediaIsPrivate
=============================================================================
