-------------------------- MODULE ParseQueueProofs --------------------------
(***************************************************************************)
(* Proofs about ParseQueue for every number of archives, jobs, workers,    *)
(* requests and crashes: QueueInv is an inductive invariant, API calls     *)
(* never wait in a circle, and the queue implements ParseBoard.            *)
(***************************************************************************)
EXTENDS ParseQueue, FiniteSetTheorems, TLAPS

USE MaxJobsAssumption, ShasAssumption, NoneAssumption, SwitchAssumption

-----------------------------------------------------------------------------
(* The initial state.                                                      *)

LEMMA InitInv == Init => QueueInv
<1> SUFFICES ASSUME Init PROVE QueueInv
  OBVIOUS
<1> USE DEF Init, Unparsed, Idle, NoRequest
<1>1. TypeOK
  BY DEF TypeOK, JobRows, WorkerStates, RequestStates, ParseColumns, ParseStatus,
         JobStatus, Active, WorkerPc, RequestPc
<1>2. HeldJobs /\ SeenByHandler
  BY DEF HeldJobs, SeenByHandler
<1>3. InsertExclusive /\ PublishedBeforeDone /\ OneWorkerPerJob
  BY DEF InsertExclusive, PublishedBeforeDone, OneWorkerPerJob
<1>4. AtMostOneActiveJob /\ ParsingHasActiveJob
  BY DEF AtMostOneActiveJob, ParsingHasActiveJob, IsActive, Active
<1> QED
  BY <1>1, <1>2, <1>3, <1>4 DEF QueueInv

-----------------------------------------------------------------------------
(* Types.                                                                  *)

(* The row an UPDATE leaves is a row.                                      *)
LEMMA EndedRow ==
  ASSUME TypeOK, NEW j \in Jobs, NEW s \in JobStatus
  PROVE  Ended(j, s) \in JobRows
<1>1. job[j] \in JobRows
  BY DEF TypeOK
<1>2. [job[j] EXCEPT !.status = s, !.overdue = FALSE] \in JobRows
  BY <1>1 DEF JobRows
<1> QED
  BY <1>1, <1>2 DEF Ended

(* A flush writes columns of the row's type.                               *)
LEMMA OrmWriteType ==
  ASSUME TypeOK, NEW a \in Archives, NEW seen \in ParseColumns, NEW new \in ParseColumns,
         OrmWrite(a, seen, new)
  PROVE  archive' \in [Archives -> ParseColumns]
  BY DEF TypeOK, OrmWrite, Dirty, ParseColumns

(* Moving, starting and ending a request, moving and freeing a worker.     *)
LEMMA GotoType ==
  ASSUME TypeOK, NEW r \in Requests, NEW pc \in RequestPc, Goto(r, pc)
  PROVE  request' \in [Requests -> RequestStates]
  BY DEF TypeOK, Goto, RequestStates

LEMMA EndRequestType ==
  ASSUME TypeOK, NEW r \in Requests, EndRequest(r)
  PROVE  request' \in [Requests -> RequestStates]
  BY DEF TypeOK, EndRequest, NoRequest, RequestStates, RequestPc, ParseColumns, ParseStatus,
         Unparsed

LEMMA BeginType ==
  ASSUME TypeOK, NEW r \in Requests, NEW a \in Archives, NEW pc \in RequestPc, Begin(r, a, pc)
  PROVE  request' \in [Requests -> RequestStates]
<1>1. archive[a] \in ParseColumns
  BY DEF TypeOK
<1>2. [NoRequest EXCEPT !.pc = pc, !.archive = a, !.seen = archive[a]] \in RequestStates
  BY <1>1 DEF NoRequest, RequestStates
<1> QED
  BY <1>2 DEF TypeOK, Begin

LEMMA AdvanceType ==
  ASSUME TypeOK, NEW w \in Workers, NEW pc \in WorkerPc, Advance(w, pc)
  PROVE  worker' \in [Workers -> WorkerStates]
  BY DEF TypeOK, Advance, WorkerStates

LEMMA ReleaseType ==
  ASSUME TypeOK, NEW w \in Workers, Release(w)
  PROVE  worker' \in [Workers -> WorkerStates]
  BY DEF TypeOK, Release, Idle, WorkerStates, WorkerPc

(* A job id that was used has an archive.                                  *)
LEMMA UsedJob ==
  ASSUME QueueInv, NEW j \in Jobs, job[j].status # "unused"
  PROVE  job[j].archive \in Archives
  BY DEF QueueInv, TypeOK, JobRows, HeldJobs

(* A busy worker has a job, and the job an archive.                        *)
LEMMA BusyWorker ==
  ASSUME QueueInv, NEW w \in Workers, worker[w].pc \notin {"down", "idle"}
  PROVE  /\ worker[w].job \in Jobs
         /\ ArchiveOf(w) \in Archives
         /\ job[worker[w].job].status \notin {"unused", "queued"}
<1>1. worker[w].job \in Jobs \cup {None} /\ worker[w].job # None
  BY DEF QueueInv, TypeOK, WorkerStates, HeldJobs
<1>2. job[worker[w].job].status \notin {"unused", "queued"}
  BY <1>1 DEF QueueInv, OneWorkerPerJob
<1> QED
  BY <1>1, <1>2, UsedJob DEF ArchiveOf

(* An active request has an archive and has read one of its rows.          *)
LEMMA ActiveRequest ==
  ASSUME QueueInv, NEW r \in Requests, request[r].pc # "idle"
  PROVE  request[r].archive \in Archives /\ request[r].seen \in ParseColumns
  BY DEF QueueInv, TypeOK, RequestStates, SeenByHandler

(* Failing a set of jobs keeps the types.                                  *)
LEMMA MarkFailedType ==
  ASSUME TypeOK, NEW S \in SUBSET Jobs, MarkFailed(S)
  PROVE  job' \in [Jobs -> JobRows] /\ archive' \in [Archives -> ParseColumns]
<1>1. \A j \in Jobs : Ended(j, "failed") \in JobRows /\ job[j] \in JobRows
  BY EndedRow DEF TypeOK, JobStatus
<1>2. \A a \in Archives : /\ archive[a] \in ParseColumns
                         /\ [archive[a] EXCEPT !.status = "failed_user"] \in ParseColumns
  BY DEF TypeOK, ParseColumns, ParseStatus
<1> QED
  BY <1>1, <1>2 DEF MarkFailed

-----------------------------------------------------------------------------
(* Who writes what: every other action leaves the variable alone.          *)

LEMMA JobWriters ==
  ASSUME Next
  PROVE  \/ UNCHANGED job
         \/ \E r \in Requests : Enqueue(r) \/ CommitDelete(r)
         \/ \E a \in Archives : DeleteArchive(a)
         \/ \E w \in Workers : \/ Claim(w) \/ Prepare(w) \/ MarkSkipped(w) \/ Heartbeat(w)
                               \/ MarkDone(w) \/ MarkJobFailed(w)
         \/ \E j \in Jobs : GoOverdue(j)
         \/ SweepCommit
  BY DEF Next, RequestBegin, RequestStep, WorkerStep, Sweeper, BeginTrigger, BeginReview,
         BeginDeleteAll, BeginDeleteReviewed, FlushTrigger, FinalizeReview, CommitReview,
         CancelActiveJobs, DeleteObjects, DropAsset, AbortRequest, RunPipeline, Upload, Register,
         Publish, OcrStalls, OcrResumes, WorkerCrash, WorkerRestart, SweepSelect,
         SweeperCrash

LEMMA ArchiveWriters ==
  ASSUME Next
  PROVE  \/ UNCHANGED archive
         \/ \E r \in Requests : Enqueue(r) \/ CommitReview(r) \/ CommitDelete(r)
         \/ \E a \in Archives : DeleteArchive(a)
         \/ \E w \in Workers : MarkSkipped(w) \/ Publish(w) \/ MarkJobFailed(w)
         \/ SweepCommit
  BY DEF Next, RequestBegin, RequestStep, WorkerStep, Sweeper, BeginTrigger, BeginReview,
         BeginDeleteAll, BeginDeleteReviewed, FlushTrigger, FinalizeReview,
         CancelActiveJobs, DeleteObjects, DropAsset, AbortRequest, Claim, Prepare, RunPipeline,
         Upload, Register, MarkDone, Heartbeat, OcrStalls, OcrResumes, WorkerCrash,
         WorkerRestart, GoOverdue, SweepSelect, SweeperCrash

LEMMA RequestWriters ==
  ASSUME Next
  PROVE  \/ UNCHANGED request
         \/ \E r \in Requests : RequestBegin(r) \/ RequestStep(r) \/ AbortRequest(r)
  BY DEF Next, WorkerStep, Sweeper, DeleteArchive, Claim, Prepare, MarkSkipped, RunPipeline,
         Upload, Register, Publish, MarkDone, MarkJobFailed, Heartbeat, OcrStalls, OcrResumes,
         WorkerCrash, WorkerRestart, GoOverdue, SweepSelect, SweepCommit, SweeperCrash

LEMMA WorkerWriters ==
  ASSUME Next
  PROVE  \/ UNCHANGED worker
         \/ \E w \in Workers : \/ WorkerStep(w) \/ OcrStalls(w) \/ OcrResumes(w)
                               \/ WorkerCrash(w) \/ WorkerRestart(w)
  BY DEF Next, RequestBegin, RequestStep, Sweeper, BeginTrigger, BeginReview, BeginDeleteAll,
         BeginDeleteReviewed, FlushTrigger, Enqueue, FinalizeReview, CommitReview,
         CancelActiveJobs, DeleteObjects, DropAsset, CommitDelete, AbortRequest, DeleteArchive,
         Heartbeat, GoOverdue, SweepSelect, SweepCommit, SweeperCrash

LEMMA RowsWriters ==
  ASSUME Next
  PROVE  UNCHANGED rows \/ \E a \in Archives : DeleteArchive(a)
  BY DEF Next, RequestBegin, RequestStep, WorkerStep, Sweeper, BeginTrigger, BeginReview,
         BeginDeleteAll, BeginDeleteReviewed, FlushTrigger, Enqueue, FinalizeReview,
         CommitReview, CancelActiveJobs, DeleteObjects, DropAsset, CommitDelete, AbortRequest,
         Claim,         Prepare, MarkSkipped, RunPipeline, Upload, Register, Publish, MarkDone,
         MarkJobFailed, Heartbeat, OcrStalls, OcrResumes, WorkerCrash, WorkerRestart,
         GoOverdue, SweepSelect, SweepCommit, SweeperCrash

LEMMA SweepWriters ==
  ASSUME Next
  PROVE  UNCHANGED sweep \/ SweepSelect \/ SweepCommit \/ SweeperCrash
  BY DEF Next, RequestBegin, RequestStep, WorkerStep, Sweeper, BeginTrigger, BeginReview,
         BeginDeleteAll, BeginDeleteReviewed, FlushTrigger, Enqueue, FinalizeReview,
         CommitReview, CancelActiveJobs, DeleteObjects, DropAsset, CommitDelete, AbortRequest,
         DeleteArchive, Claim, Prepare, MarkSkipped, RunPipeline, Upload, Register, Publish,
         MarkDone, MarkJobFailed, Heartbeat, OcrStalls, OcrResumes, WorkerCrash,
         WorkerRestart, GoOverdue

-----------------------------------------------------------------------------
(* Every step keeps the types.                                             *)

LEMMA JobType ==
  ASSUME QueueInv, Next
  PROVE  job' \in [Jobs -> JobRows]
<1> USE DEF JobStatus, Active
<1>1. TypeOK /\ job \in [Jobs -> JobRows]
  BY DEF QueueInv, TypeOK
<1>2. ASSUME NEW r \in Requests, Enqueue(r) PROVE job' \in [Jobs -> JobRows]
  BY <1>1, <1>2, ActiveRequest DEF Enqueue, JobRows
<1>3. ASSUME NEW r \in Requests, CommitDelete(r) PROVE job' \in [Jobs -> JobRows]
  <2>1. \A j \in Jobs : Ended(j, "cancelled") \in JobRows
    BY <1>1, EndedRow
  <2> QED
    BY <1>1, <1>3, <2>1 DEF CommitDelete, CommitCancel
<1>4. ASSUME NEW a \in Archives, DeleteArchive(a) PROVE job' \in [Jobs -> JobRows]
  <2>1. \A j \in Jobs : Ended(j, "removed") \in JobRows
    BY <1>1, EndedRow
  <2> QED
    BY <1>1, <1>4, <2>1 DEF DeleteArchive
<1>5. ASSUME NEW w \in Workers, Claim(w) PROVE job' \in [Jobs -> JobRows]
  <2>1. PICK j \in Jobs :
            job' = [job EXCEPT ![j] = [@ EXCEPT !.status = "running", !.overdue = FALSE]]
    BY <1>5 DEF Claim
  <2>2. [job[j] EXCEPT !.status = "running", !.overdue = FALSE] \in JobRows
    BY <1>1 DEF JobRows
  <2> QED
    BY <1>1, <2>1, <2>2
<1>6. ASSUME NEW w \in Workers, Prepare(w) \/ Heartbeat(w) PROVE job' \in [Jobs -> JobRows]
  <2>1. worker[w].job \in Jobs
    BY <1>6, BusyWorker DEF Prepare, Heartbeat
  <2>2. [job[worker[w].job] EXCEPT !.overdue = FALSE] \in JobRows
    BY <1>1, <2>1 DEF JobRows
  <2> QED
    BY <1>1, <1>6, <2>2 DEF Prepare, Heartbeat
<1>7. ASSUME NEW w \in Workers, MarkSkipped(w) \/ MarkDone(w) PROVE job' \in [Jobs -> JobRows]
  <2>1. worker[w].job \in Jobs
    BY <1>7, BusyWorker DEF MarkSkipped, MarkDone
  <2>2. Ended(worker[w].job, "done") \in JobRows
    BY <1>1, <2>1, EndedRow
  <2> QED
    BY <1>1, <1>7, <2>2 DEF MarkSkipped, MarkDone
<1>8. ASSUME NEW w \in Workers, MarkJobFailed(w) PROVE job' \in [Jobs -> JobRows]
  <2>1. worker[w].job \in Jobs
    BY <1>8, BusyWorker DEF MarkJobFailed
  <2> QED
    BY <1>1, <1>8, <2>1, MarkFailedType DEF MarkJobFailed
<1>9. ASSUME NEW j \in Jobs, GoOverdue(j) PROVE job' \in [Jobs -> JobRows]
  BY <1>1, <1>9 DEF GoOverdue, JobRows
<1>10. ASSUME SweepCommit PROVE job' \in [Jobs -> JobRows]
  BY <1>1, <1>10, MarkFailedType DEF SweepCommit, TypeOK
<1> QED
  BY <1>1, <1>2, <1>3, <1>4, <1>5, <1>6, <1>7, <1>8, <1>9, <1>10, JobWriters

LEMMA ArchiveType ==
  ASSUME QueueInv, Next
  PROVE  archive' \in [Archives -> ParseColumns]
<1> USE DEF ParseStatus
<1>1. TypeOK /\ archive \in [Archives -> ParseColumns]
  BY DEF QueueInv, TypeOK
<1>2. ASSUME NEW r \in Requests, Enqueue(r) PROVE archive' \in [Archives -> ParseColumns]
  <2>1. [status |-> "parsing", cand |-> FALSE, final |-> FALSE] \in ParseColumns
    BY DEF ParseColumns
  <2> QED
    BY <1>1, <1>2, <2>1, ActiveRequest, OrmWriteType DEF Enqueue
<1>3. ASSUME NEW r \in Requests, CommitReview(r) PROVE archive' \in [Archives -> ParseColumns]
  <2>1. [request[r].seen EXCEPT !.status = "qa_passed", !.final = TRUE] \in ParseColumns
    BY <1>3, ActiveRequest DEF CommitReview, ParseColumns
  <2> QED
    BY <1>1, <1>3, <2>1, ActiveRequest, OrmWriteType DEF CommitReview
<1>4. ASSUME NEW r \in Requests, CommitDelete(r) PROVE archive' \in [Archives -> ParseColumns]
  <2>1. Unparsed \in ParseColumns
    BY DEF ParseColumns, Unparsed
  <2>2. [request[r].seen EXCEPT !.status = "candidate_ready", !.final = FALSE] \in ParseColumns
    BY <1>4, ActiveRequest DEF CommitDelete, ParseColumns
  <2>3. request[r].archive \in Archives /\ request[r].seen \in ParseColumns
    BY <1>4, ActiveRequest DEF CommitDelete
  <2> QED
    BY <1>1, <1>4, <2>1, <2>2, <2>3, OrmWriteType DEF CommitDelete
<1>5. ASSUME NEW a \in Archives, DeleteArchive(a) PROVE archive' \in [Archives -> ParseColumns]
  BY <1>1, <1>5 DEF DeleteArchive, ParseColumns, Unparsed
<1>6. ASSUME NEW w \in Workers, MarkSkipped(w) \/ Publish(w)
      PROVE  archive' \in [Archives -> ParseColumns]
  BY <1>1, <1>6 DEF MarkSkipped, Publish, ParseColumns
<1>7. ASSUME NEW w \in Workers, MarkJobFailed(w) PROVE archive' \in [Archives -> ParseColumns]
  <2>1. worker[w].job \in Jobs
    BY <1>7, BusyWorker DEF MarkJobFailed
  <2> QED
    BY <1>1, <1>7, <2>1, MarkFailedType DEF MarkJobFailed
<1>8. ASSUME SweepCommit PROVE archive' \in [Archives -> ParseColumns]
  BY <1>1, <1>8, MarkFailedType DEF SweepCommit, TypeOK
<1> QED
  BY <1>1, <1>2, <1>3, <1>4, <1>5, <1>6, <1>7, <1>8, ArchiveWriters

LEMMA RequestType ==
  ASSUME QueueInv, Next
  PROVE  request' \in [Requests -> RequestStates]
<1> USE DEF RequestPc
<1>1. TypeOK /\ request \in [Requests -> RequestStates]
  BY DEF QueueInv, TypeOK
<1>2. ASSUME NEW r \in Requests, RequestBegin(r) PROVE request' \in [Requests -> RequestStates]
  BY <1>1, <1>2, BeginType
     DEF RequestBegin, BeginTrigger, BeginReview, BeginDeleteAll, BeginDeleteReviewed
<1>3. ASSUME NEW r \in Requests, \/ FlushTrigger(r) \/ Enqueue(r) \/ FinalizeReview(r)
                                 \/ CommitReview(r) \/ DropAsset(r) \/ CommitDelete(r)
                                 \/ AbortRequest(r)
      PROVE  request' \in [Requests -> RequestStates]
  <2>1. EndRequest(r) \/ \E pc \in {"insert", "commit_b", "commit_all"} : Goto(r, pc)
    BY <1>3 DEF FlushTrigger, Enqueue, FinalizeReview, CommitReview, DropAsset, CommitDelete,
                AbortRequest
  <2> QED
    BY <1>1, <2>1, GotoType, EndRequestType
<1>4. ASSUME NEW r \in Requests, CancelActiveJobs(r)
      PROVE  request' \in [Requests -> RequestStates]
  <2>1. [request[r] EXCEPT !.cancel = ActiveOn(request[r].archive),
                           !.pc = IF request[r].pc = "cancel_all" THEN "objects" ELSE "commit_reviewed"]
           \in RequestStates
    BY <1>1 DEF ActiveOn, RequestStates
  <2> QED
    BY <1>1, <1>4, <2>1 DEF CancelActiveJobs
<1>5. ASSUME NEW r \in Requests, DeleteObjects(r) PROVE request' \in [Requests -> RequestStates]
  <2>1. link[request[r].archive] \in Shas \cup {None}
    BY <1>1, <1>5, ActiveRequest DEF DeleteObjects, DropAsset, TypeOK
  <2> DEFINE s == link[request[r].archive]
             orphan == s # None /\ \A b \in Archives \ {request[r].archive} : link[b] # s
             next == [request[r] EXCEPT !.pc = IF orphan THEN "drop_asset" ELSE "commit_all",
                                        !.drop = s, !.orphan = orphan]
  <2>2. orphan \in BOOLEAN
    OBVIOUS
  <2>3. request' = [request EXCEPT ![r] = next]
    BY <1>5, Zenon DEF DeleteObjects
  <2>4. next \in RequestStates
    <3>1. s \in Shas \cup {None}
      BY <2>1
    <3> HIDE DEF s, orphan
    <3> QED
      BY <1>1, <2>2, <3>1 DEF RequestStates
  <2> HIDE DEF next
  <2> QED
    BY <1>1, <2>3, <2>4
<1> QED
  BY <1>1, <1>2, <1>3, <1>4, <1>5, RequestWriters DEF RequestStep

LEMMA WorkerType ==
  ASSUME QueueInv, Next
  PROVE  worker' \in [Workers -> WorkerStates]
<1> USE DEF WorkerPc
<1>1. TypeOK /\ worker \in [Workers -> WorkerStates]
  BY DEF QueueInv, TypeOK
<1>2. ASSUME NEW w \in Workers, Claim(w) PROVE worker' \in [Workers -> WorkerStates]
  BY <1>1, <1>2 DEF Claim, WorkerStates
<1>3. ASSUME NEW w \in Workers, \/ Prepare(w) \/ RunPipeline(w) \/ Register(w) \/ Publish(w)
                                \/ OcrStalls(w) \/ OcrResumes(w)
      PROVE  worker' \in [Workers -> WorkerStates]
  BY <1>1, <1>3, AdvanceType
     DEF Prepare, RunPipeline, Register, Publish, OcrStalls, OcrResumes
<1>4. ASSUME NEW w \in Workers, \/ MarkSkipped(w) \/ MarkDone(w) \/ MarkJobFailed(w)
                                \/ WorkerRestart(w)
      PROVE  worker' \in [Workers -> WorkerStates]
  BY <1>1, <1>4, ReleaseType DEF MarkSkipped, MarkDone, MarkJobFailed, WorkerRestart
<1>5. ASSUME NEW w \in Workers, Upload(w) PROVE worker' \in [Workers -> WorkerStates]
  <2>1. ASSUME NEW s \in Shas, worker' = [worker EXCEPT ![w].pc = "register", ![w].sha = s]
        PROVE  worker' \in [Workers -> WorkerStates]
    BY <1>1, <2>1 DEF WorkerStates
  <2> QED
    BY <1>1, <1>5, <2>1, AdvanceType DEF Upload
<1>6. ASSUME NEW w \in Workers, WorkerCrash(w) PROVE worker' \in [Workers -> WorkerStates]
  BY <1>1, <1>6 DEF WorkerCrash, Down, WorkerStates
<1> QED
  BY <1>1, <1>2, <1>3, <1>4, <1>5, <1>6, WorkerWriters DEF WorkerStep

LEMMA StoreType ==
  ASSUME QueueInv, Next
  PROVE  /\ asset' \in [Shas -> Archives \cup {None}]
         /\ link' \in [Archives -> Shas \cup {None}]
         /\ bytes' \in [Archives -> Shas \cup {None}]
<1> DEFINE Typed == /\ asset' \in [Shas -> Archives \cup {None}]
                    /\ link' \in [Archives -> Shas \cup {None}]
                    /\ bytes' \in [Archives -> Shas \cup {None}]
<1>1. /\ asset \in [Shas -> Archives \cup {None}]
      /\ link \in [Archives -> Shas \cup {None}]
      /\ bytes \in [Archives -> Shas \cup {None}]
  BY DEF QueueInv, TypeOK
<1>2. ASSUME UNCHANGED stores PROVE Typed
  BY <1>1, <1>2 DEF stores
<1>3. ASSUME NEW r \in Requests, DeleteObjects(r) PROVE Typed
  BY <1>1, <1>3 DEF DeleteObjects
<1>4. ASSUME NEW r \in Requests, CommitDelete(r) PROVE Typed
  BY <1>1, <1>4 DEF CommitDelete
<1>5. ASSUME NEW a \in Archives, DeleteArchive(a) PROVE Typed
  BY <1>1, <1>5 DEF DeleteArchive
<1>6. ASSUME NEW w \in Workers, Upload(w) PROVE Typed
  BY <1>1, <1>6 DEF Upload, stores
<1>7. ASSUME NEW w \in Workers, Register(w) PROVE Typed
  <2>1. ArchiveOf(w) \in Archives /\ worker[w].sha \in Shas \cup {None}
    BY <1>7, BusyWorker DEF Register, QueueInv, TypeOK, WorkerStates
  <2> QED
    BY <1>1, <1>7, <2>1 DEF Register
<1>8. \/ UNCHANGED stores
      \/ \E r \in Requests : DeleteObjects(r) \/ CommitDelete(r)
      \/ \E a \in Archives : DeleteArchive(a)
      \/ \E w \in Workers : Upload(w) \/ Register(w)
  BY DEF Next, RequestBegin, RequestStep, WorkerStep, Sweeper, BeginTrigger, BeginReview,
         BeginDeleteAll, BeginDeleteReviewed, FlushTrigger, Enqueue, FinalizeReview,
         CommitReview, CancelActiveJobs, DropAsset, AbortRequest, Claim, Prepare, MarkSkipped,
         RunPipeline, Publish, MarkDone, MarkJobFailed, Heartbeat, OcrStalls, OcrResumes,
         WorkerCrash, WorkerRestart, GoOverdue, SweepSelect, SweepCommit, SweeperCrash
<1> QED
  BY <1>2, <1>3, <1>4, <1>5, <1>6, <1>7, <1>8

(* The work directories are those of jobs, and deaths stay in their bound. *)
LEMMA BoundsType ==
  ASSUME QueueInv, Next
  PROVE  workRoot' \subseteq Jobs /\ crashes' \in 0 .. MaxCrashes
<1>1. workRoot \subseteq Jobs /\ crashes \in 0 .. MaxCrashes
  BY DEF QueueInv, TypeOK
<1>2. UNCHANGED crashes \/ (crashes < MaxCrashes /\ crashes' = crashes + 1)
  BY DEF Next, RequestBegin, RequestStep, WorkerStep, Sweeper, BeginTrigger, BeginReview,
         BeginDeleteAll, BeginDeleteReviewed, FlushTrigger, Enqueue, FinalizeReview,
         CommitReview, CancelActiveJobs, DeleteObjects, DropAsset, CommitDelete, AbortRequest,
         DeleteArchive, Claim, Prepare, MarkSkipped, RunPipeline, Upload, Register, Publish,
         MarkDone, MarkJobFailed, Heartbeat, OcrStalls, OcrResumes, WorkerCrash,
         WorkerRestart, GoOverdue, SweepSelect, SweepCommit, SweeperCrash
<1>3. \/ workRoot' \subseteq workRoot
      \/ \E w \in Workers : Prepare(w)
  BY DEF Next, RequestBegin, RequestStep, WorkerStep, Sweeper, BeginTrigger, BeginReview,
         BeginDeleteAll, BeginDeleteReviewed, FlushTrigger, Enqueue, FinalizeReview,
         CommitReview, CancelActiveJobs, DeleteObjects, DropAsset, CommitDelete, AbortRequest,
         DeleteArchive, Claim, MarkSkipped, RunPipeline, Upload, Register, Publish,
         MarkDone, MarkJobFailed, Heartbeat, OcrStalls, OcrResumes, WorkerCrash,
         WorkerRestart, GoOverdue, SweepSelect, SweepCommit, SweeperCrash
<1>4. ASSUME NEW w \in Workers, Prepare(w) PROVE workRoot' \subseteq Jobs
  BY <1>1, <1>4, BusyWorker DEF Prepare
<1> QED
  BY <1>1, <1>2, <1>3, <1>4, SwitchAssumption

LEMMA TypeStep ==
  ASSUME QueueInv, Next
  PROVE  TypeOK'
<1>1. rows' \subseteq Archives
  BY RowsWriters DEF QueueInv, TypeOK, DeleteArchive
<1>2. sweep' \subseteq Jobs
  BY SweepWriters DEF QueueInv, TypeOK, SweepSelect, SweepCommit, SweeperCrash
<1> QED
  BY <1>1, <1>2, JobType, ArchiveType, RequestType, WorkerType, StoreType, BoundsType DEF TypeOK

-----------------------------------------------------------------------------
(* What a step does to a job.                                              *)

(* Only a trigger's commit opens a job; every other step leaves each job's *)
(* archive alone, makes no ended job active and uses up no job id.         *)
JobOnlyCloses ==
    \A j \in Jobs :
        /\ job'[j].archive = job[j].archive
        /\ job'[j].status \in Active => job[j].status \in Active
        /\ job'[j].status = "queued" => job[j].status = "queued"
        /\ job'[j].status = "unused" <=> job[j].status = "unused"
        /\ job'[j].status = "running" => job[j].status = "running"
                                         \/ \E w \in Workers : Claim(w)

LEMMA EndedCloses ==
  ASSUME TypeOK, NEW j \in Jobs, job[j].status # "unused",
         NEW s \in JobStatus \ (Active \cup {"unused"})
  PROVE  /\ Ended(j, s).archive = job[j].archive
         /\ Ended(j, s).status \notin Active \cup {"unused"}
<1>1. job[j] \in JobRows
  BY DEF TypeOK
<1>2. /\ [job[j] EXCEPT !.status = s, !.overdue = FALSE].archive = job[j].archive
      /\ [job[j] EXCEPT !.status = s, !.overdue = FALSE].status = s
  BY <1>1 DEF JobRows
<1> QED
  BY <1>1, <1>2 DEF Ended, Active

LEMMA JobStep ==
  ASSUME QueueInv, Next, ~\E r \in Requests : Enqueue(r)
  PROVE  JobOnlyCloses
<1> USE DEF JobOnlyCloses
<1>1. TypeOK /\ job \in [Jobs -> JobRows]
  BY DEF QueueInv, TypeOK
<1>2. ASSUME NEW S \in SUBSET Jobs, \A j \in S : job[j].status # "unused",
             NEW s \in {"done", "failed", "cancelled", "removed"},
             job' = [j \in Jobs |-> IF j \in S THEN Ended(j, s) ELSE job[j]]
      PROVE  JobOnlyCloses
  <2>1. s \in JobStatus \ (Active \cup {"unused"})
    BY DEF JobStatus, Active
  <2>2. \A j \in S : /\ Ended(j, s).archive = job[j].archive
                    /\ Ended(j, s).status \notin Active \cup {"unused"}
    BY <1>1, <1>2, <2>1, EndedCloses
  <2> QED
    BY <1>2, <2>2 DEF Active
<1>3. ASSUME NEW r \in Requests, CommitDelete(r) PROVE JobOnlyCloses
  <2>1. /\ request[r].cancel \subseteq Jobs
        /\ \A j \in request[r].cancel : job[j].status # "unused"
    BY DEF QueueInv, TypeOK, RequestStates, HeldJobs
  <2> QED
    BY <1>2, <1>3, <2>1 DEF CommitDelete, CommitCancel
<1>4. ASSUME NEW a \in Archives, DeleteArchive(a) PROVE JobOnlyCloses
  <2> DEFINE S == {j \in Jobs : job[j].archive = a}
  <2>1. \A j \in S : job[j].status # "unused"
    BY <1>4, NoneAssumption DEF QueueInv, HeldJobs
  <2>2. job' = [j \in Jobs |-> IF j \in S THEN Ended(j, "removed") ELSE job[j]]
    BY <1>4 DEF DeleteArchive
  <2> HIDE DEF S
  <2>3. S \in SUBSET Jobs
    BY DEF S
  <2> QED
    BY <1>2, <2>1, <2>2, <2>3
<1>5. ASSUME NEW w \in Workers, Claim(w) PROVE JobOnlyCloses
  <2>1. PICK i \in Jobs :
            /\ job[i].status = "queued"
            /\ job' = [job EXCEPT ![i] = [@ EXCEPT !.status = "running", !.overdue = FALSE]]
    BY <1>5 DEF Claim
  <2>2. /\ job'[i].status = "running" /\ job'[i].archive = job[i].archive
        /\ \A j \in Jobs \ {i} : job'[j] = job[j]
    BY <1>1, <2>1 DEF JobRows
  <2> DEFINE Claimed == \E v \in Workers : Claim(v)
  <2>3. Claimed
    BY <1>5
  <2> HIDE DEF Claimed
  <2>4. \A j \in Jobs :
           /\ job'[j].archive = job[j].archive
           /\ job'[j].status \in Active => job[j].status \in Active
           /\ job'[j].status = "queued" => job[j].status = "queued"
           /\ job'[j].status = "unused" <=> job[j].status = "unused"
           /\ job'[j].status = "running" => job[j].status = "running" \/ Claimed
    BY <2>1, <2>2, <2>3 DEF Active
  <2> QED
    BY <2>4 DEF Claimed
<1>6. ASSUME NEW w \in Workers, Prepare(w) \/ Heartbeat(w) PROVE JobOnlyCloses
  <2>1. worker[w].job \in Jobs
    BY <1>6, BusyWorker DEF Prepare, Heartbeat
  <2>2. UNCHANGED job \/ job' = [job EXCEPT ![worker[w].job].overdue = FALSE]
    BY <1>6 DEF Prepare, Heartbeat
  <2>3. ASSUME job' = [job EXCEPT ![worker[w].job].overdue = FALSE], NEW j \in Jobs
        PROVE  job'[j].status = job[j].status /\ job'[j].archive = job[j].archive
    BY <1>1, <2>1, <2>3 DEF JobRows
  <2> QED
    BY <2>2, <2>3
<1>7. ASSUME NEW w \in Workers, MarkSkipped(w) \/ MarkDone(w) PROVE JobOnlyCloses
  <2>1. worker[w].job \in Jobs /\ job[worker[w].job].status # "unused"
    BY <1>7, BusyWorker DEF MarkSkipped, MarkDone
  <2>2. \/ UNCHANGED job
        \/ job' = [j \in Jobs |-> IF j \in {worker[w].job} THEN Ended(j, "done") ELSE job[j]]
    BY <1>1, <1>7, <2>1 DEF MarkSkipped, MarkDone
  <2>3. CASE UNCHANGED job
    BY <2>3
  <2>4. CASE job' = [j \in Jobs |-> IF j \in {worker[w].job} THEN Ended(j, "done") ELSE job[j]]
    BY <1>2, <2>1, <2>4
  <2> QED
    BY <2>2, <2>3, <2>4
<1>8. ASSUME NEW w \in Workers, MarkJobFailed(w) PROVE JobOnlyCloses
  <2>1. worker[w].job \in Jobs /\ job[worker[w].job].status # "unused"
    BY <1>8, BusyWorker DEF MarkJobFailed
  <2> QED
    BY <1>2, <1>8, <2>1 DEF MarkJobFailed, MarkFailed
<1>9. ASSUME NEW j \in Jobs, GoOverdue(j) PROVE JobOnlyCloses
  BY <1>1, <1>9 DEF GoOverdue, JobRows
<1>10. ASSUME SweepCommit PROVE JobOnlyCloses
  <2>1. sweep \subseteq Jobs /\ \A j \in sweep : job[j].status # "unused"
    BY DEF QueueInv, TypeOK, HeldJobs
  <2> QED
    BY <1>2, <1>10, <2>1 DEF SweepCommit, MarkFailed
<1>11. UNCHANGED job => JobOnlyCloses
  OBVIOUS
<1> QED
  BY <1>3, <1>4, <1>5, <1>6, <1>7, <1>8, <1>9, <1>10, <1>11, JobWriters

(* A trigger's commit turns one unused id into a queued job of its archive *)
(* and marks the archive as being parsed.                                  *)
LEMMA EnqueueStep ==
  ASSUME QueueInv, NEW r \in Requests, Enqueue(r)
  PROVE  /\ \E n \in Jobs :
               /\ job[n].status = "unused"
               /\ job'[n].status = "queued"
               /\ job'[n].archive = request[r].archive
               /\ \A j \in Jobs \ {n} : job'[j] = job[j]
         /\ archive'[request[r].archive].status = "parsing"
         /\ \A a \in Archives \ {request[r].archive} : archive'[a] = archive[a]
         /\ request[r].archive \in Archives
<1>1. TypeOK /\ job \in [Jobs -> JobRows] /\ archive \in [Archives -> ParseColumns]
  BY DEF QueueInv, TypeOK
<1>2. request[r].archive \in Archives /\ request[r].seen.status # "parsing"
  BY ActiveRequest DEF Enqueue, QueueInv, SeenByHandler
<1>3. PICK n \in Jobs :
         /\ job[n].status = "unused"
         /\ job' = [job EXCEPT ![n] = [status |-> "queued", overdue |-> FALSE,
                                       archive |-> request[r].archive]]
  BY DEF Enqueue
<1>4. /\ archive'[request[r].archive].status = "parsing"
      /\ \A a \in Archives \ {request[r].archive} : archive'[a] = archive[a]
  BY <1>1, <1>2 DEF Enqueue, OrmWrite, Dirty
<1>5. /\ job'[n].status = "queued" /\ job'[n].archive = request[r].archive
      /\ \A j \in Jobs \ {n} : job'[j] = job[j]
  BY <1>1, <1>3
<1> QED
  BY <1>2, <1>3, <1>4, <1>5

(* No other step marks an archive as being parsed.                         *)
LEMMA ArchiveStep ==
  ASSUME QueueInv, Next, ~\E r \in Requests : Enqueue(r),
         NEW a \in Archives, archive'[a].status = "parsing"
  PROVE  archive[a].status = "parsing"
<1>1. archive \in [Archives -> ParseColumns]
  BY DEF QueueInv, TypeOK
<1>2. ASSUME NEW r \in Requests, CommitReview(r) PROVE archive[a].status = "parsing"
  <2>1. request[r].archive \in Archives /\ request[r].seen.status = "candidate_ready"
        /\ request[r].seen \in ParseColumns
    BY <1>2, ActiveRequest DEF CommitReview, QueueInv, SeenByHandler
  <2> QED
    BY <1>1, <1>2, <2>1 DEF CommitReview, OrmWrite, Dirty, ParseColumns
<1>3. ASSUME NEW r \in Requests, CommitDelete(r) PROVE archive[a].status = "parsing"
  <2>1. request[r].archive \in Archives /\ request[r].seen \in ParseColumns
    BY <1>3, ActiveRequest DEF CommitDelete
  <2>2. /\ request[r].pc = "commit_all" => request[r].seen.status # "none"
        /\ request[r].pc = "commit_reviewed" => request[r].seen.status = "qa_passed"
    BY DEF QueueInv, SeenByHandler
  <2> QED
    BY <1>1, <1>3, <2>1, <2>2 DEF CommitDelete, OrmWrite, Dirty, ParseColumns, Unparsed
<1>4. ASSUME NEW b \in Archives, DeleteArchive(b) PROVE archive[a].status = "parsing"
  BY <1>1, <1>4 DEF DeleteArchive, Unparsed
<1>5. ASSUME NEW w \in Workers, MarkSkipped(w) \/ Publish(w) PROVE archive[a].status = "parsing"
  BY <1>1, <1>5 DEF MarkSkipped, Publish, ParseColumns
<1>6. ASSUME NEW S \in SUBSET Jobs, MarkFailed(S) PROVE archive[a].status = "parsing"
  BY <1>1, <1>6 DEF MarkFailed, ParseColumns
<1>7. ASSUME NEW w \in Workers, MarkJobFailed(w) PROVE archive[a].status = "parsing"
  BY <1>6, <1>7, BusyWorker DEF MarkJobFailed
<1>8. ASSUME SweepCommit PROVE archive[a].status = "parsing"
  BY <1>6, <1>8 DEF SweepCommit, QueueInv, TypeOK
<1> QED
  BY <1>2, <1>3, <1>4, <1>5, <1>7, <1>8, ArchiveWriters

-----------------------------------------------------------------------------
(* What requests, the sweeper and the workers hold.                        *)

LEMMA SeenByHandlerStep ==
  ASSUME QueueInv, Next
  PROVE  SeenByHandler'
<1> USE DEF SeenByHandler
<1>1. request \in [Requests -> RequestStates] /\ SeenByHandler /\ rows \subseteq Archives
  BY DEF QueueInv, TypeOK
<1>2. ASSUME NEW r \in Requests, NEW a \in Archives,
             \/ BeginTrigger(r, a) \/ BeginReview(r, a)
             \/ BeginDeleteAll(r, a) \/ BeginDeleteReviewed(r, a)
      PROVE  SeenByHandler'
  <2>1. ASSUME NEW pc, Begin(r, a, pc)
        PROVE  /\ request'[r].pc = pc /\ request'[r].archive = a
               /\ request'[r].seen = archive[a]
               /\ \A q \in Requests \ {r} : request'[q] = request[q]
    BY <1>1, <2>1 DEF Begin, NoRequest
  <2>2. CASE BeginTrigger(r, a)
    BY <1>1, <2>1, <2>2 DEF BeginTrigger
  <2>3. CASE BeginReview(r, a)
    BY <1>1, <2>1, <2>3 DEF BeginReview
  <2>4. CASE BeginDeleteAll(r, a)
    BY <1>1, <2>1, <2>4 DEF BeginDeleteAll
  <2>5. CASE BeginDeleteReviewed(r, a)
    BY <1>1, <2>1, <2>5 DEF BeginDeleteReviewed
  <2> QED
    BY <1>2, <2>2, <2>3, <2>4, <2>5
<1>3. ASSUME NEW r \in Requests, EndRequest(r) PROVE SeenByHandler'
  BY <1>1, <1>3 DEF EndRequest, NoRequest
<1>4. ASSUME NEW r \in Requests, FlushTrigger(r) \/ FinalizeReview(r) \/ DropAsset(r)
      PROVE  SeenByHandler'
  BY <1>1, <1>3, <1>4 DEF FlushTrigger, FinalizeReview, DropAsset, Goto, RequestStates
<1>5. ASSUME NEW r \in Requests, CancelActiveJobs(r) PROVE SeenByHandler'
  BY <1>1, <1>5 DEF CancelActiveJobs, RequestStates
<1>6. ASSUME NEW r \in Requests, DeleteObjects(r) PROVE SeenByHandler'
  <2>1. /\ request'[r].pc \in {"drop_asset", "commit_all"}
        /\ request'[r].archive = request[r].archive /\ request'[r].seen = request[r].seen
        /\ \A q \in Requests \ {r} : request'[q] = request[q]
    BY <1>1, <1>6 DEF DeleteObjects, DropAsset, RequestStates
  <2> QED
    BY <1>1, <1>6, <2>1 DEF DeleteObjects
<1>7. UNCHANGED request => SeenByHandler'
  BY <1>1
<1> QED
  BY <1>2, <1>3, <1>4, <1>5, <1>6, <1>7, RequestWriters
     DEF RequestBegin, RequestStep, Enqueue, CommitReview, CommitDelete, AbortRequest

(* A worker goes on with its job, drops it, or takes a queued one.         *)
Others(w) == \A v \in Workers \ {w} : worker'[v] = worker[v]
Keeps(w) == /\ worker'[w].job = worker[w].job
            /\ {worker[w].pc, worker'[w].pc} \cap {"down", "idle"} = {}
            /\ worker'[w].pc = "finish" => Publish(w)
            /\ Others(w)
Drops(w) == /\ worker'[w].job = None
            /\ worker'[w].pc \in {"down", "idle"}
            /\ Others(w)
Takes(w) == /\ worker'[w].pc = "prepare"
            /\ \E j \in Jobs :
                  /\ worker'[w].job = j
                  /\ job[j].status = "queued"
                  /\ job'[j].status = "running"
            /\ Others(w)

LEMMA WorkerMoves ==
  ASSUME QueueInv, Next
  PROVE  UNCHANGED worker \/ \E w \in Workers : Keeps(w) \/ Drops(w) \/ Takes(w)
<1> USE DEF Others
<1>1. worker \in [Workers -> WorkerStates] /\ job \in [Jobs -> JobRows]
  BY DEF QueueInv, TypeOK
<1>2. ASSUME NEW w \in Workers, \/ Prepare(w) \/ RunPipeline(w) \/ Register(w) \/ Publish(w)
                                \/ OcrStalls(w) \/ OcrResumes(w) \/ Upload(w)
      PROVE  Keeps(w)
  BY <1>1, <1>2 DEF Prepare, RunPipeline, Register, Publish, OcrStalls, OcrResumes, Upload,
                    Advance, WorkerStates, Keeps
<1>3. ASSUME NEW w \in Workers, \/ MarkSkipped(w) \/ MarkDone(w) \/ MarkJobFailed(w)
                                \/ WorkerRestart(w) \/ WorkerCrash(w)
      PROVE  Drops(w)
  BY <1>1, <1>3 DEF MarkSkipped, MarkDone, MarkJobFailed, WorkerRestart, WorkerCrash,
                    Release, Idle, Down, Drops
<1>4. ASSUME NEW w \in Workers, Claim(w)
      PROVE  Takes(w)
  <2>1. PICK j \in Jobs :
          /\ job[j].status = "queued"
          /\ job' = [job EXCEPT ![j] = [@ EXCEPT !.status = "running", !.overdue = FALSE]]
          /\ worker' = [worker EXCEPT ![w] = [pc |-> "prepare", job |-> j, sha |-> None]]
    BY <1>4 DEF Claim
  <2>2. job'[j].status = "running"
    BY <1>1, <2>1 DEF JobRows
  <2> QED
    BY <1>1, <2>1, <2>2 DEF Takes
<1>5. UNCHANGED worker \/ \E w \in Workers :
        \/ Prepare(w) \/ RunPipeline(w) \/ Register(w) \/ Publish(w) \/ OcrStalls(w)
        \/ OcrResumes(w) \/ Upload(w) \/ MarkSkipped(w) \/ MarkDone(w) \/ MarkJobFailed(w)
        \/ WorkerRestart(w) \/ WorkerCrash(w) \/ Claim(w)
  BY WorkerWriters DEF WorkerStep
<1> QED
  BY <1>2, <1>3, <1>4, <1>5

LEMMA HeldJobsStep ==
  ASSUME QueueInv, Next
  PROVE  HeldJobs'
<1>1. TypeOK /\ HeldJobs
  BY DEF QueueInv
<1>2. \A j \in Jobs : job'[j].status = "unused" <=> job'[j].archive = None
  <2>1. CASE \E r \in Requests : Enqueue(r)
    <3>1. PICK r \in Requests : Enqueue(r)
      BY <2>1
    <3>2. PICK n \in Jobs :
             /\ job'[n].status = "queued" /\ job'[n].archive = request[r].archive
             /\ \A j \in Jobs \ {n} : job'[j] = job[j]
      BY <3>1, EnqueueStep
    <3>3. job'[n].status # "unused" /\ job'[n].archive # None
      BY <3>1, <3>2, EnqueueStep, NoneAssumption
    <3> QED
      BY <1>1, <3>2, <3>3 DEF HeldJobs
  <2>2. CASE ~\E r \in Requests : Enqueue(r)
    BY <1>1, <2>2, JobStep DEF JobOnlyCloses, HeldJobs
  <2> QED
    BY <2>1, <2>2
<1>3. \A j \in Jobs : job[j].status # "unused" =>
         job'[j].status # "unused" /\ job'[j].archive = job[j].archive
  <2>1. CASE \E r \in Requests : Enqueue(r)
    <3>1. PICK r \in Requests : Enqueue(r)
      BY <2>1
    <3> QED
      BY <3>1, EnqueueStep
  <2>2. CASE ~\E r \in Requests : Enqueue(r)
    BY <2>2, JobStep DEF JobOnlyCloses
  <2> QED
    BY <2>1, <2>2
<1>4. \A j \in sweep' : job'[j].status # "unused"
  <2>1. \A j \in sweep' : j \in Jobs /\ job[j].status # "unused"
    BY <1>1, SweepWriters
       DEF TypeOK, HeldJobs, SweepSelect, SweepCommit, SweeperCrash, IsActive, Active
  <2> QED
    BY <1>3, <2>1
<1>5. ASSUME NEW r \in Requests, NEW j \in request'[r].cancel
      PROVE  job'[j].status # "unused" /\ job'[j].archive = request'[r].archive
  <2>1. request \in [Requests -> RequestStates]
    BY <1>1 DEF TypeOK
  <2> DEFINE Held == /\ j \in Jobs /\ job[j].status # "unused"
                     /\ job[j].archive = request'[r].archive
  <2>2. CASE request'[r].cancel = request[r].cancel /\ request'[r].archive = request[r].archive
    BY <1>1, <1>3, <1>5, <2>1, <2>2 DEF HeldJobs, RequestStates
  <2>3. CASE request'[r].cancel = {}
    BY <1>5, <2>3
  <2>4. CASE request'[r].cancel = ActiveOn(request'[r].archive)
    BY <1>3, <1>5, <2>4 DEF ActiveOn, IsActive, Active
  <2>5. ASSUME NEW q \in Requests, RequestBegin(q) \/ EndRequest(q)
        PROVE  request'[r] = request[r] \/ request'[r].cancel = {}
    <3>1. ASSUME NEW pc, NEW a, Begin(q, a, pc)
          PROVE  request'[r] = request[r] \/ request'[r].cancel = {}
      <4>1. [NoRequest EXCEPT !.pc = pc, !.archive = a, !.seen = archive[a]].cancel = {}
        BY DEF NoRequest
      <4> QED
        BY <2>1, <3>1, <4>1 DEF Begin
    <3>2. EndRequest(q) => request'[r] = request[r] \/ request'[r].cancel = {}
      BY <2>1 DEF EndRequest, NoRequest
    <3>3. RequestBegin(q) => \E a, pc : Begin(q, a, pc)
      BY DEF RequestBegin, BeginTrigger, BeginReview, BeginDeleteAll, BeginDeleteReviewed
    <3> QED
      BY <2>5, <3>1, <3>2, <3>3
  <2>6. ASSUME NEW q \in Requests, NEW pc, Goto(q, pc)
        PROVE  request'[r].cancel = request[r].cancel /\ request'[r].archive = request[r].archive
    BY <2>1, <2>6 DEF Goto, RequestStates
  <2>7. ASSUME NEW q \in Requests, DeleteObjects(q)
        PROVE  request'[r].cancel = request[r].cancel /\ request'[r].archive = request[r].archive
    BY <2>1, <2>7 DEF DeleteObjects, DropAsset, RequestStates
  <2>8. ASSUME NEW q \in Requests, CancelActiveJobs(q)
        PROVE  \/ request'[r] = request[r]
               \/ request'[r].cancel = ActiveOn(request'[r].archive)
    BY <2>1, <2>8 DEF CancelActiveJobs, RequestStates
  <2>9. ASSUME NEW q \in Requests, RequestStep(q) \/ AbortRequest(q)
        PROVE  \/ EndRequest(q) \/ (\E pc \in RequestPc : Goto(q, pc))
               \/ DeleteObjects(q) \/ CancelActiveJobs(q)
    BY <2>9 DEF RequestStep, FlushTrigger, Enqueue, FinalizeReview, CommitReview, DropAsset,
                CommitDelete, AbortRequest, RequestPc
  <2>10. \/ request'[r] = request[r]
         \/ request'[r].cancel = request[r].cancel /\ request'[r].archive = request[r].archive
         \/ request'[r].cancel = {}
         \/ request'[r].cancel = ActiveOn(request'[r].archive)
    BY <2>5, <2>6, <2>7, <2>8, <2>9, RequestWriters
  <2> QED
    BY <2>2, <2>3, <2>4, <2>10
<1>6. ASSUME NEW w \in Workers
      PROVE  worker'[w].job = None <=> worker'[w].pc \in {"down", "idle"}
  <2> USE DEF HeldJobs, Others
  <2>1. \A j \in Jobs : j # None
    BY NoneAssumption DEF Jobs
  <2>2. CASE UNCHANGED worker
    BY <1>1, <2>2
  <2>3. ASSUME NEW v \in Workers, Keeps(v)
        PROVE  worker'[w].job = None <=> worker'[w].pc \in {"down", "idle"}
    BY <1>1, <2>3 DEF Keeps
  <2>4. ASSUME NEW v \in Workers, Drops(v)
        PROVE  worker'[w].job = None <=> worker'[w].pc \in {"down", "idle"}
    BY <1>1, <2>4 DEF Drops
  <2>5. ASSUME NEW v \in Workers, Takes(v)
        PROVE  worker'[w].job = None <=> worker'[w].pc \in {"down", "idle"}
    BY <1>1, <2>1, <2>5 DEF Takes
  <2> QED
    BY <2>2, <2>3, <2>4, <2>5, WorkerMoves
<1> QED
  BY <1>2, <1>4, <1>5, <1>6 DEF HeldJobs

(* What was a job stays the same archive's job, and does not become active *)
(* or queued again.                                                        *)
LEMMA UsedStays ==
  ASSUME QueueInv, Next, NEW j \in Jobs, job[j].status # "unused"
  PROVE  /\ job'[j].archive = job[j].archive
         /\ job'[j].status # "unused"
         /\ job'[j].status = "queued" => job[j].status = "queued"
         /\ job'[j].status \in Active => job[j].status \in Active
<1>1. CASE \E r \in Requests : Enqueue(r)
  <2>1. PICK r \in Requests : Enqueue(r)
    BY <1>1
  <2> QED
    BY <2>1, EnqueueStep
<1>2. CASE ~\E r \in Requests : Enqueue(r)
  BY <1>2, JobStep DEF JobOnlyCloses
<1> QED
  BY <1>1, <1>2

(* A request that holds an archive row already held it, or has just        *)
(* flushed: nobody held the row and the archive had no active job.         *)
LEMMA RowHolder ==
  ASSUME QueueInv, Next, NEW r \in Requests, request'[r].pc = "insert"
  PROVE  /\ request'[r].archive = request[r].archive
         /\ \/ /\ request[r].pc = "insert"
               /\ ~Enqueue(r)
            \/ /\ FlushTrigger(r)
               /\ request[r].archive \in rows
               /\ ActiveOn(request[r].archive) = {}
               /\ RowFree(request[r].archive)
<1>1. request \in [Requests -> RequestStates]
  BY DEF QueueInv, TypeOK
<1>2. CASE UNCHANGED request
  BY <1>1, <1>2 DEF Enqueue, EndRequest, NoRequest
<1>3. ASSUME NEW q \in Requests, NEW a \in Archives,
             \/ BeginTrigger(q, a) \/ BeginReview(q, a)
             \/ BeginDeleteAll(q, a) \/ BeginDeleteReviewed(q, a)
      PROVE  /\ r # q
             /\ request'[r] = request[r]
  <2>1. ASSUME NEW pc, Begin(q, a, pc)
        PROVE  /\ request'[q].pc = pc
               /\ \A p \in Requests \ {q} : request'[p] = request[p]
    BY <1>1, <2>1 DEF Begin, NoRequest
  <2> QED
    BY <1>3, <2>1 DEF BeginTrigger, BeginReview, BeginDeleteAll, BeginDeleteReviewed
<1>4. ASSUME NEW q \in Requests, EndRequest(q) PROVE r # q /\ request'[r] = request[r]
  BY <1>1, <1>4 DEF EndRequest, NoRequest
<1>5. ASSUME NEW q \in Requests, \/ FinalizeReview(q) \/ CancelActiveJobs(q)
                                 \/ DeleteObjects(q) \/ DropAsset(q)
      PROVE  r # q /\ request'[r] = request[r]
  <2>1. CASE FinalizeReview(q) \/ DropAsset(q)
    BY <1>1, <1>4, <2>1 DEF FinalizeReview, DropAsset, Goto, RequestStates
  <2>2. CASE CancelActiveJobs(q)
    BY <1>1, <2>2 DEF CancelActiveJobs, RequestStates
  <2>3. CASE DeleteObjects(q)
    <3>1. request'[q].pc # "insert" /\ \A p \in Requests \ {q} : request'[p] = request[p]
      BY <1>1, <2>3 DEF DeleteObjects, RequestStates
    <3> QED
      BY <3>1
  <2> QED
    BY <1>5, <2>1, <2>2, <2>3
<1>6. ASSUME NEW q \in Requests, FlushTrigger(q), r # q
      PROVE  request'[r] = request[r]
  BY <1>1, <1>4, <1>6 DEF FlushTrigger, Goto
<1>7. CASE FlushTrigger(r)
  BY <1>1, <1>4, <1>7 DEF FlushTrigger, Goto, RequestStates
<1>8. ~Enqueue(r)
  BY <1>4 DEF Enqueue
<1>9. request'[r] = request[r] \/ FlushTrigger(r)
  BY <1>2, <1>3, <1>4, <1>5, <1>6, RequestWriters
     DEF RequestBegin, RequestStep, Enqueue, CommitReview, CommitDelete, AbortRequest
<1> QED
  BY <1>7, <1>8, <1>9

LEMMA InsertExclusiveStep ==
  ASSUME QueueInv, Next
  PROVE  InsertExclusive'
<1> SUFFICES ASSUME NEW r \in Requests, request'[r].pc = "insert"
             PROVE  /\ request'[r].archive \in rows'
                    /\ ActiveOn(request[r].archive)' = {}
                    /\ \A q \in Requests \ {r} :
                          ~(request'[q].pc = "insert" /\ request'[q].archive = request[r].archive)
  <2>1. \A r \in Requests : request'[r].pc = "insert" => request'[r].archive = request[r].archive
    BY RowHolder
  <2> QED
    BY <2>1 DEF InsertExclusive, HoldsRow, ActiveOn, IsActive
<1> DEFINE a == request[r].archive
<1>1. InsertExclusive /\ request'[r].archive = a
  BY RowHolder DEF QueueInv
<1>2. a \in rows /\ ActiveOn(a) = {} /\ \A q \in Requests \ {r} : ~HoldsRow(q, a)
  BY <1>1, RowHolder DEF InsertExclusive, RowFree
<1>3. a \in rows'
  <2>1. ASSUME NEW b \in Archives, DeleteArchive(b) PROVE a # b
    <3>1. request[r].pc = "insert"
      BY <2>1 DEF DeleteArchive
    <3> QED
      BY <2>1, <3>1 DEF DeleteArchive, RowFree, HoldsRow
  <2> QED
    BY <1>2, <2>1, RowsWriters DEF DeleteArchive
<1>4. ActiveOn(a)' = {}
  <2> SUFFICES ASSUME NEW j \in Jobs, job'[j].status \in Active, job'[j].archive = a
               PROVE  FALSE
    BY <1>1 DEF ActiveOn, IsActive
  <2>1. CASE \E q \in Requests : Enqueue(q)
    <3>1. PICK q \in Requests : Enqueue(q)
      BY <2>1
    <3>2. PICK n \in Jobs : /\ job'[n].archive = request[q].archive
                            /\ \A i \in Jobs \ {n} : job'[i] = job[i]
      BY <3>1, EnqueueStep
    <3>3. j = n
      BY <1>2, <3>2 DEF ActiveOn, IsActive
    <3>4. q # r
      BY <3>1, RowHolder DEF FlushTrigger, Enqueue
    <3> QED
      BY <1>2, <3>1, <3>2, <3>3, <3>4 DEF Enqueue, HoldsRow
  <2>2. CASE ~\E q \in Requests : Enqueue(q)
    BY <1>2, <2>2, JobStep DEF JobOnlyCloses, ActiveOn, IsActive
  <2> QED
    BY <2>1, <2>2
<1>5. ASSUME NEW q \in Requests \ {r}, request'[q].pc = "insert", request'[q].archive = a
      PROVE  FALSE
  <2>1. request[q].archive = a /\ FlushTrigger(q) /\ RowFree(a)
    BY <1>2, <1>5, RowHolder DEF HoldsRow
  <2>2. request'[r] = request[r]
    BY <1>5, <2>1 DEF FlushTrigger, Goto, EndRequest, QueueInv, TypeOK
  <2> QED
    BY <2>1, <2>2 DEF RowFree, HoldsRow
<1> QED
  BY <1>1, <1>3, <1>4, <1>5

LEMMA AtMostOneStep ==
  ASSUME QueueInv, Next
  PROVE  AtMostOneActiveJob'
<1> USE DEF AtMostOneActiveJob, IsActive
<1>1. AtMostOneActiveJob
  BY DEF QueueInv
<1>2. CASE \E r \in Requests : Enqueue(r)
  <2>1. PICK r \in Requests : Enqueue(r)
    BY <1>2
  <2>2. PICK n \in Jobs : /\ job'[n].archive = request[r].archive
                          /\ \A i \in Jobs \ {n} : job'[i] = job[i]
    BY <2>1, EnqueueStep
  <2>3. \A i \in Jobs : job[i].status \in Active => job[i].archive # request[r].archive
    BY <2>1 DEF Enqueue, QueueInv, InsertExclusive, ActiveOn
  <2> QED
    BY <1>1, <2>2, <2>3
<1>3. CASE ~\E r \in Requests : Enqueue(r)
  BY <1>1, <1>3, JobStep DEF JobOnlyCloses
<1> QED
  BY <1>2, <1>3

LEMMA OneWorkerStep ==
  ASSUME QueueInv, Next
  PROVE  OneWorkerPerJob'
<1> USE DEF OneWorkerPerJob
<1>1. /\ OneWorkerPerJob
      /\ \A w \in Workers : worker[w].job \in Jobs \cup {None}
      /\ \A w \in Workers : worker'[w].job \in Jobs \cup {None}
  BY WorkerType DEF QueueInv, TypeOK, WorkerStates
<1>2. \A j \in Jobs : job[j].status \notin {"unused", "queued"}
                      => job'[j].status \notin {"unused", "queued"}
  BY UsedStays
<1>3. CASE UNCHANGED worker
  BY <1>1, <1>2, <1>3
<1>4. ASSUME NEW w \in Workers, Keeps(w) PROVE OneWorkerPerJob'
  <2>1. \A v \in Workers : worker'[v].job = worker[v].job
    BY <1>4 DEF Keeps, Others
  <2> QED
    BY <1>1, <1>2, <2>1
<1>5. ASSUME NEW w \in Workers, Drops(w) PROVE OneWorkerPerJob'
  <2>1. \A v \in Workers : worker'[v].job \in {worker[v].job, None}
    BY <1>5 DEF Drops, Others
  <2> QED
    BY <1>1, <1>2, <2>1
<1>6. ASSUME NEW w \in Workers, Takes(w) PROVE OneWorkerPerJob'
  <2>1. PICK j \in Jobs : /\ worker'[w].job = j
                          /\ job[j].status = "queued" /\ job'[j].status = "running"
    BY <1>6 DEF Takes
  <2>2. \A v \in Workers \ {w} : worker'[v].job = worker[v].job /\ worker[v].job # j
    BY <1>1, <1>6, <2>1, NoneAssumption DEF Takes, Others, Jobs
  <2> QED
    BY <1>1, <1>2, <2>1, <2>2
<1> QED
  BY <1>3, <1>4, <1>5, <1>6, WorkerMoves

LEMMA PublishedBeforeDoneStep ==
  ASSUME QueueInv, Next
  PROVE  PublishedBeforeDone'
<1> SUFFICES ASSUME NEW w \in Workers, worker'[w].pc = "finish",
                    job'[worker'[w].job].status \in Active
             PROVE  archive'[job'[worker'[w].job].archive].status # "parsing"
  BY DEF PublishedBeforeDone, IsActive, ArchiveOf
<1>1. /\ worker \in [Workers -> WorkerStates] /\ archive \in [Archives -> ParseColumns]
      /\ PublishedBeforeDone
  BY DEF QueueInv, TypeOK
<1>2. CASE worker'[w] = worker[w]
  <2> DEFINE j == worker[w].job
             a == job[j].archive
  <2>1. /\ j \in Jobs /\ a \in Archives
        /\ job[j].status \notin {"unused", "queued"}
    BY <1>2, BusyWorker DEF ArchiveOf
  <2>2. job[j].status \in Active /\ job'[j].archive = a
    BY <1>2, <2>1, UsedStays
  <2>3. archive[a].status # "parsing"
    BY <1>1, <1>2, <2>2 DEF PublishedBeforeDone, IsActive, ArchiveOf
  <2>4. ASSUME NEW r \in Requests, Enqueue(r) PROVE archive'[a].status # "parsing"
    <3>1. request[r].archive # a
      BY <2>1, <2>2, <2>4 DEF Enqueue, QueueInv, InsertExclusive, ActiveOn, IsActive
    <3> QED
      BY <2>1, <2>3, <2>4, <3>1, EnqueueStep
  <2> QED
    BY <1>2, <2>1, <2>2, <2>3, <2>4, ArchiveStep
<1>3. CASE worker'[w] # worker[w]
  <2>1. Publish(w) /\ worker'[w].job = worker[w].job
    BY <1>3, WorkerMoves DEF Keeps, Drops, Takes, Others
  <2>2. ArchiveOf(w) \in Archives
    BY <2>1, BusyWorker DEF Publish
  <2>3. archive'[ArchiveOf(w)].status = "candidate_ready" /\ UNCHANGED job
    <3>1. ~Advance(w, "fail")
      BY <1>1 DEF Advance, WorkerStates
    <3>2. archive' = [archive EXCEPT ![ArchiveOf(w)].status = "candidate_ready",
                                     ![ArchiveOf(w)].cand = worker[w].sha # None]
      BY <2>1, <3>1 DEF Publish
    <3> DEFINE cand == worker[w].sha # None
    <3> HIDE DEF cand
    <3>3. archive' = [archive EXCEPT ![ArchiveOf(w)].status = "candidate_ready",
                                     ![ArchiveOf(w)].cand = cand]
      BY <3>2 DEF cand
    <3>4. archive'[ArchiveOf(w)].status = "candidate_ready"
      BY <1>1, <2>2, <3>3 DEF ParseColumns
    <3> QED
      BY <2>1, <3>4 DEF Publish
  <2> QED
    BY <2>1, <2>3 DEF ArchiveOf
<1> QED
  BY <1>2, <1>3

(* Whoever ends an archive's last job also moves the archive on, in the    *)
(* same transaction or, for a worker that succeeded, before it.            *)
LEMMA ParsingHasActiveStep ==
  ASSUME QueueInv, Next
  PROVE  ParsingHasActiveJob'
<1> SUFFICES ASSUME NEW a \in rows', archive'[a].status = "parsing"
             PROVE  \E j \in Jobs : job'[j].status \in Active /\ job'[j].archive = a
  BY DEF ParsingHasActiveJob, ActiveOn, IsActive
<1>1. /\ job \in [Jobs -> JobRows] /\ archive \in [Archives -> ParseColumns]
      /\ rows \subseteq Archives /\ ParsingHasActiveJob
  BY DEF QueueInv, TypeOK
<1>2. a \in rows
  BY RowsWriters DEF DeleteArchive
<1>3. ASSUME NEW r \in Requests, Enqueue(r)
      PROVE  \E j \in Jobs : job'[j].status \in Active /\ job'[j].archive = a
  <2>1. PICK n \in Jobs : /\ job[n].status = "unused"
                          /\ job'[n].status = "queued" /\ job'[n].archive = request[r].archive
                          /\ \A j \in Jobs \ {n} : job'[j] = job[j]
    BY <1>3, EnqueueStep
  <2>2. CASE a = request[r].archive
    BY <2>1, <2>2 DEF Active
  <2>3. CASE a # request[r].archive
    <3>1. archive[a].status = "parsing"
      BY <1>1, <1>2, <1>3, <2>3, EnqueueStep
    <3> QED
      BY <1>1, <1>2, <2>1, <3>1 DEF ParsingHasActiveJob, ActiveOn, IsActive, Active
  <2> QED
    BY <2>2, <2>3
<1>4. CASE ~\E r \in Requests : Enqueue(r)
  <2>1. archive[a].status = "parsing"
    BY <1>1, <1>2, <1>4, ArchiveStep
  <2>2. PICK j \in Jobs : job[j].status \in Active /\ job[j].archive = a
    BY <1>1, <1>2, <2>1 DEF ParsingHasActiveJob, ActiveOn, IsActive
  <2>3. job'[j].archive = a
    BY <1>4, <2>2, JobStep DEF JobOnlyCloses
  <2> SUFFICES job'[j].status \in Active
    BY <2>3
  <2>4. CASE UNCHANGED job
    BY <2>2, <2>4
  <2>5. ASSUME NEW r \in Requests, CommitDelete(r) PROVE job'[j].status \in Active
    <3>1. /\ request[r].archive \in Archives /\ request[r].seen \in ParseColumns
          /\ request[r].pc = "commit_all" => request[r].seen.status # "none"
          /\ request[r].pc = "commit_reviewed" => request[r].seen.status = "qa_passed"
      BY <2>5, ActiveRequest DEF CommitDelete, QueueInv, SeenByHandler
    <3>2. CASE j \in request[r].cancel
      <4>1. request[r].archive = a
        BY <2>2, <3>2 DEF QueueInv, HeldJobs
      <4>2. PICK new \in ParseColumns : /\ OrmWrite(a, request[r].seen, new)
                                        /\ new.status # request[r].seen.status
                                        /\ new.status # "parsing"
        <5>1. /\ Unparsed \in ParseColumns /\ Unparsed.status = "none"
              /\ [request[r].seen EXCEPT !.status = "candidate_ready", !.final = FALSE]
                    \in ParseColumns
              /\ [request[r].seen EXCEPT !.status = "candidate_ready", !.final = FALSE].status
                    = "candidate_ready"
          BY <3>1 DEF ParseColumns, Unparsed, ParseStatus
        <5>2. CASE request[r].pc = "commit_all"
          BY <1>2, <2>5, <3>1, <4>1, <5>1, <5>2 DEF CommitDelete
        <5>3. CASE request[r].pc = "commit_reviewed"
          BY <1>2, <2>5, <3>1, <4>1, <5>1, <5>3 DEF CommitDelete
        <5> QED
          BY <2>5, <5>2, <5>3 DEF CommitDelete
      <4>3. archive'[a].status # "parsing"
        BY <1>1, <1>2, <4>2 DEF OrmWrite, Dirty
      <4> QED
        BY <4>3
    <3>3. CASE j \notin request[r].cancel
      BY <2>2, <2>5, <3>3 DEF CommitDelete, CommitCancel
    <3> QED
      BY <3>2, <3>3
  <2>6. ASSUME NEW b \in Archives, DeleteArchive(b) PROVE job'[j].status \in Active
    <3>1. a # b
      BY <2>6 DEF DeleteArchive
    <3> QED
      BY <2>2, <2>6, <3>1 DEF DeleteArchive
  <2>7. ASSUME NEW w \in Workers, Claim(w) PROVE job'[j].status \in Active
    <3>1. PICK i \in Jobs :
              job' = [job EXCEPT ![i] = [@ EXCEPT !.status = "running", !.overdue = FALSE]]
      BY <2>7 DEF Claim
    <3> QED
      BY <1>1, <2>2, <3>1 DEF JobRows, Active
  <2>8. ASSUME NEW w \in Workers, Prepare(w) \/ Heartbeat(w) PROVE job'[j].status \in Active
    <3>1. worker[w].job \in Jobs
      BY <2>8, BusyWorker DEF Prepare, Heartbeat
    <3>2. UNCHANGED job \/ job' = [job EXCEPT ![worker[w].job].overdue = FALSE]
      BY <2>8 DEF Prepare, Heartbeat
    <3>3. job' = [job EXCEPT ![worker[w].job].overdue = FALSE] => job'[j].status = job[j].status
      BY <1>1, <3>1 DEF JobRows
    <3> QED
      BY <2>2, <3>2, <3>3
  <2>9. ASSUME NEW w \in Workers, MarkSkipped(w) PROVE job'[j].status \in Active
    <3>1. worker[w].job \in Jobs /\ ArchiveOf(w) \in Archives
      BY <2>9, BusyWorker DEF MarkSkipped
    <3>2. CASE worker[w].job = j
      BY <1>1, <1>2, <2>2, <2>9, <3>2 DEF MarkSkipped, ArchiveOf, ParseColumns
    <3>3. CASE worker[w].job # j
      BY <1>1, <2>2, <2>9, <3>3 DEF MarkSkipped
    <3> QED
      BY <3>2, <3>3
  <2>10. ASSUME NEW w \in Workers, MarkDone(w) PROVE job'[j].status \in Active
    <3>1. worker[w].job # j
      BY <2>1, <2>2, <2>10 DEF MarkDone, QueueInv, PublishedBeforeDone, IsActive, ArchiveOf
    <3> QED
      BY <1>1, <2>2, <2>10, <3>1 DEF MarkDone
  <2>11. ASSUME NEW S \in SUBSET Jobs, MarkFailed(S) PROVE job'[j].status \in Active
    <3>1. j \notin S
      BY <1>1, <1>2, <2>2, <2>11 DEF MarkFailed, ParseColumns
    <3> QED
      BY <2>2, <2>11, <3>1 DEF MarkFailed
  <2>12. ASSUME NEW w \in Workers, MarkJobFailed(w) PROVE job'[j].status \in Active
    BY <2>11, <2>12, BusyWorker DEF MarkJobFailed
  <2>13. ASSUME SweepCommit PROVE job'[j].status \in Active
    BY <2>11, <2>13 DEF SweepCommit, QueueInv, TypeOK
  <2>14. ASSUME NEW i \in Jobs, GoOverdue(i) PROVE job'[j].status \in Active
    BY <1>1, <2>2, <2>14 DEF GoOverdue, JobRows
  <2> QED
    BY <1>4, <2>4, <2>5, <2>6, <2>7, <2>8, <2>9, <2>10, <2>12, <2>13, <2>14, JobWriters
<1> QED
  BY <1>3, <1>4

-----------------------------------------------------------------------------
(* The invariant.                                                          *)

LEMMA QueueInvStep == QueueInv /\ [Next]_vars => QueueInv'
<1> SUFFICES ASSUME QueueInv, [Next]_vars PROVE QueueInv'
  OBVIOUS
<1>1. CASE Next
  BY <1>1, TypeStep, HeldJobsStep, SeenByHandlerStep, InsertExclusiveStep,
     PublishedBeforeDoneStep, AtMostOneStep, ParsingHasActiveStep, OneWorkerStep
     DEF QueueInv
<1>2. CASE UNCHANGED vars
  <2>1. TypeOK' /\ HeldJobs' /\ SeenByHandler'
    BY <1>2 DEF vars, stores, QueueInv, TypeOK, HeldJobs, SeenByHandler
  <2>2. InsertExclusive' /\ PublishedBeforeDone'
    BY <1>2 DEF vars, QueueInv, InsertExclusive, PublishedBeforeDone, ActiveOn, IsActive,
                ArchiveOf, HoldsRow
  <2>3. AtMostOneActiveJob' /\ ParsingHasActiveJob' /\ OneWorkerPerJob'
    BY <1>2 DEF vars, QueueInv, AtMostOneActiveJob, ParsingHasActiveJob, OneWorkerPerJob,
                ActiveOn, IsActive
  <2> QED
    BY <2>1, <2>2, <2>3 DEF QueueInv
<1> QED
  BY <1>1, <1>2

(* QueueInv holds of every reachable state: the types, and what requests,  *)
(* workers and the sweeper may rely on between their transactions.         *)
THEOREM QueueInvariant == Spec => []QueueInv
  BY InitInv, QueueInvStep, PTL DEF Spec

(* However many triggers race for an archive, from however many API hosts, *)
(* enqueue_parse_job leaves it at most one queued or running job.          *)
THEOREM OneActiveJob == Spec => []AtMostOneActiveJob
<1>1. QueueInv => AtMostOneActiveJob
  BY DEF QueueInv
<1> QED
  BY <1>1, QueueInvariant, PTL

(* An archive never shows 'parsing' without a job that will end it.        *)
THEOREM NoOrphanedParsing == Spec => []ParsingHasActiveJob
<1>1. QueueInv => ParsingHasActiveJob
  BY DEF QueueInv
<1> QED
  BY <1>1, QueueInvariant, PTL

(* No two workers ever process one job, and none an unclaimed one.         *)
THEOREM JobsAreClaimedOnce == Spec => []OneWorkerPerJob
<1>1. QueueInv => OneWorkerPerJob
  BY DEF QueueInv
<1> QED
  BY <1>1, QueueInvariant, PTL

-----------------------------------------------------------------------------
(* Waits between open transactions.                                        *)

(* Only a delete holds job rows, from its cancel to its commit, and a link *)
(* only once its objects are gone.                                         *)
LocksHeld ==
    \A r \in Requests :
        /\ request[r].cancel # {} =>
              request[r].pc \in {"objects", "drop_asset", "commit_all", "commit_reviewed"}
        /\ request[r].drop # None => request[r].pc \in {"drop_asset", "commit_all"}

(* A link that an open delete has deleted is still there for the others,   *)
(* and no second delete has it.                                            *)
LinksHeld ==
    \A r \in Requests : request[r].drop # None =>
        /\ link[request[r].archive] = request[r].drop
        /\ \A q \in Requests \ {r} :
              request[q].archive = request[r].archive => request[q].drop = None

(* No two deletes have found one asset to be an orphan: each would have    *)
(* seen the link of the other.                                             *)
OneDropper ==
    \A r \in Requests : request[r].pc = "drop_asset" =>
        /\ request[r].drop # None
        /\ \A q \in Requests \ {r} :
              request[q].pc = "drop_asset" => request[q].drop # request[r].drop

LocksInv == LocksHeld /\ LinksHeld /\ OneDropper

LEMMA LocksInit == Init => LocksInv
  BY DEF Init, NoRequest, LocksInv, LocksHeld, LinksHeld, OneDropper

LEMMA LocksHeldStep == QueueInv /\ LocksHeld /\ [Next]_vars => LocksHeld'
<1> SUFFICES ASSUME QueueInv, LocksHeld, [Next]_vars, NEW r \in Requests
             PROVE  /\ request'[r].cancel # {} =>
                          request'[r].pc \in {"objects", "drop_asset", "commit_all", "commit_reviewed"}
                    /\ request'[r].drop # None => request'[r].pc \in {"drop_asset", "commit_all"}
  BY DEF LocksHeld
<1> DEFINE Held(x) ==
      /\ x.cancel # {} => x.pc \in {"objects", "drop_asset", "commit_all", "commit_reviewed"}
      /\ x.drop # None => x.pc \in {"drop_asset", "commit_all"}
<1>1. request \in [Requests -> RequestStates] /\ Held(request[r])
  BY DEF QueueInv, TypeOK, LocksHeld
<1>2. ASSUME NEW q \in Requests, EndRequest(q) PROVE Held(request'[r])
  BY <1>1, <1>2 DEF EndRequest, NoRequest
<1>3. ASSUME NEW q \in Requests, NEW a, NEW pc, Begin(q, a, pc) PROVE Held(request'[r])
  BY <1>1, <1>3 DEF Begin, NoRequest
<1>4. ASSUME NEW q \in Requests, NEW pc, Goto(q, pc), request[q].pc \in {"flush", "stage_b"}
      PROVE  Held(request'[r])
  <2>1. request[q].cancel = {} /\ request[q].drop = None
    BY <1>4 DEF LocksHeld
  <2> QED
    BY <1>1, <1>4, <2>1 DEF Goto, RequestStates
<1>5. ASSUME NEW q \in Requests, CancelActiveJobs(q) PROVE Held(request'[r])
  <2>1. /\ request[q].pc \in {"cancel_all", "cancel_reviewed"}
        /\ request[q].drop = None
    BY <1>5 DEF CancelActiveJobs, LocksHeld
  <2>2. /\ request'[q].pc \in {"objects", "commit_reviewed"}
        /\ request'[q].drop = None
        /\ \A p \in Requests \ {q} : request'[p] = request[p]
    BY <1>1, <1>5, <2>1 DEF CancelActiveJobs, RequestStates
  <2> QED
    BY <1>1, <2>2
<1>6. ASSUME NEW q \in Requests, DeleteObjects(q) PROVE Held(request'[r])
  <2>1. /\ request'[q].pc \in {"drop_asset", "commit_all"}
        /\ \A p \in Requests \ {q} : request'[p] = request[p]
    BY <1>1, <1>6 DEF DeleteObjects, DropAsset, RequestStates
  <2> QED
    BY <1>1, <2>1
<1>7. ASSUME UNCHANGED request PROVE Held(request'[r])
  BY <1>1, <1>7
<1>8. ASSUME NEW q \in Requests, RequestBegin(q) PROVE Held(request'[r])
  BY <1>3, <1>8 DEF RequestBegin, BeginTrigger, BeginReview, BeginDeleteAll, BeginDeleteReviewed
<1> HIDE DEF Held
<1>9. ASSUME NEW q \in Requests, RequestStep(q) \/ AbortRequest(q) PROVE Held(request'[r])
  <2>1. \/ EndRequest(q) \/ CancelActiveJobs(q) \/ DeleteObjects(q)
        \/ FlushTrigger(q) /\ Goto(q, "insert")
        \/ FinalizeReview(q) /\ Goto(q, "commit_b")
        \/ Goto(q, "commit_all")
    BY <1>9 DEF RequestStep, FlushTrigger, Enqueue, FinalizeReview, CommitReview, DropAsset,
                CommitDelete, AbortRequest
  <2>2. FlushTrigger(q) \/ FinalizeReview(q) => request[q].pc \in {"flush", "stage_b"}
    BY DEF FlushTrigger, FinalizeReview
  <2>3. Goto(q, "commit_all") => Held(request'[r])
    BY <1>1 DEF Goto, RequestStates, Held
  <2> QED
    BY <1>2, <1>4, <1>5, <1>6, <2>1, <2>2, <2>3
<1>10. ASSUME Next PROVE Held(request'[r])
  BY <1>7, <1>8, <1>9, <1>10, RequestWriters
<1>11. ASSUME UNCHANGED vars PROVE Held(request'[r])
  BY <1>7, <1>11 DEF vars
<1> QED
  BY <1>10, <1>11 DEF Held

(* What a request has dropped changes only by DeleteObjects and its end.   *)
LEMMA DropStep ==
  ASSUME QueueInv, LocksHeld, Next, NEW r \in Requests
  PROVE  \/ DeleteObjects(r)
         \/ request'[r].drop = None /\ request'[r].pc # "drop_asset"
         \/ /\ request'[r].drop = request[r].drop
            /\ request'[r].archive = request[r].archive
            /\ request'[r].pc = "drop_asset" => request[r].pc = "drop_asset"
<1> DEFINE Kept == \/ request'[r].drop = None /\ request'[r].pc # "drop_asset"
                   \/ /\ request'[r].drop = request[r].drop
                      /\ request'[r].archive = request[r].archive
                      /\ request'[r].pc = "drop_asset" => request[r].pc = "drop_asset"
<1>1. request \in [Requests -> RequestStates]
  BY DEF QueueInv, TypeOK
<1>2. ASSUME UNCHANGED request PROVE Kept
  BY <1>2
<1>3. ASSUME NEW q \in Requests, RequestBegin(q) PROVE Kept
  <2>1. PICK a \in Archives, pc \in RequestPc \ {"drop_asset"} : Begin(q, a, pc)
    BY <1>3 DEF RequestBegin, BeginTrigger, BeginReview, BeginDeleteAll, BeginDeleteReviewed,
                RequestPc
  <2> QED
    BY <1>1, <2>1 DEF Begin, NoRequest, RequestStates
<1>4. ASSUME NEW q \in Requests, EndRequest(q) PROVE Kept
  BY <1>1, <1>4 DEF EndRequest, NoRequest, RequestStates
<1>5. ASSUME NEW q \in Requests, NEW pc \in RequestPc \ {"drop_asset"}, Goto(q, pc) PROVE Kept
  BY <1>1, <1>5 DEF Goto, RequestStates
<1>6. ASSUME NEW q \in Requests, CancelActiveJobs(q) PROVE Kept
  BY <1>1, <1>6 DEF CancelActiveJobs, RequestStates
<1>7. ASSUME NEW q \in Requests, DeleteObjects(q), q # r PROVE Kept
  <2>1. request'[r] = request[r]
    BY <1>1, <1>7 DEF DeleteObjects
  <2> QED
    BY <2>1
<1>8. ASSUME NEW q \in Requests,
             \/ FlushTrigger(q) \/ Enqueue(q) \/ FinalizeReview(q) \/ CommitReview(q)
             \/ DropAsset(q) \/ CommitDelete(q) \/ AbortRequest(q)
      PROVE  Kept
  <2>1. EndRequest(q) \/ \E pc \in {"insert", "commit_b", "commit_all"} : Goto(q, pc)
    BY <1>8 DEF FlushTrigger, Enqueue, FinalizeReview, CommitReview, DropAsset, CommitDelete,
                AbortRequest
  <2> QED
    BY <2>1, <1>4, <1>5 DEF RequestPc
<1> HIDE DEF Kept
<1>9. Kept \/ DeleteObjects(r)
  BY <1>2, <1>3, <1>6, <1>7, <1>8, RequestWriters DEF RequestStep
<1> QED
  BY <1>9 DEF Kept

(* DeleteObjects takes a link that nobody has, and finds an orphan only if *)
(* no other archive links to the asset.                                    *)
LEMMA DeleteObjectsStep ==
  ASSUME QueueInv, NEW r \in Requests, DeleteObjects(r)
  PROVE  LET a == request[r].archive
         IN  /\ LinkFree(a) /\ link' = link
             /\ request'[r].archive = a /\ request'[r].drop = link[a]
             /\ request'[r].pc = "drop_asset" =>
                   link[a] # None /\ \A b \in Archives \ {a} : link[b] # link[a]
             /\ \A q \in Requests \ {r} : request'[q] = request[q]
<1> DEFINE s == link[request[r].archive]
           orphan == s # None /\ \A b \in Archives \ {request[r].archive} : link[b] # s
<1>1. /\ request' = [request EXCEPT ![r] = [request[r] EXCEPT
             !.pc = IF orphan THEN "drop_asset" ELSE "commit_all",
             !.drop = s, !.orphan = orphan]]
      /\ link' = link /\ LinkFree(request[r].archive)
  BY Zenon DEF DeleteObjects
<1>2. request \in [Requests -> RequestStates]
  BY DEF QueueInv, TypeOK
<1> HIDE DEF s, orphan
<1>3. /\ request'[r].drop = s /\ request'[r].archive = request[r].archive
      /\ request'[r].pc = "drop_asset" => orphan
      /\ \A q \in Requests \ {r} : request'[q] = request[q]
  BY <1>1, <1>2 DEF RequestStates
<1> QED
  BY <1>1, <1>3 DEF s, orphan

(* Who writes links and asset rows.                                        *)
LEMMA LinkWriters ==
  ASSUME Next
  PROVE  \/ UNCHANGED <<asset, link>>
         \/ \E r \in Requests : CommitDelete(r)
         \/ \E a \in Archives : DeleteArchive(a)
         \/ \E w \in Workers : Register(w)
  BY DEF Next, RequestBegin, RequestStep, WorkerStep, Sweeper, BeginTrigger, BeginReview,
         BeginDeleteAll, BeginDeleteReviewed, FlushTrigger, Enqueue, FinalizeReview,
         CommitReview, CancelActiveJobs, DeleteObjects, DropAsset, AbortRequest, Claim, Prepare,
         MarkSkipped, RunPipeline, Upload, Publish, MarkDone, MarkJobFailed, Heartbeat,
         OcrStalls, OcrResumes, WorkerCrash, WorkerRestart, GoOverdue, SweepSelect,
         SweepCommit, SweeperCrash, stores

LEMMA LinksHeldStep ==
  ASSUME QueueInv, LocksHeld, LinksHeld, Next
  PROVE  LinksHeld'
<1>1. link \in [Archives -> Shas \cup {None}] /\ request \in [Requests -> RequestStates]
  BY DEF QueueInv, TypeOK
<1>2. CASE \E r \in Requests : DeleteObjects(r)
  <2>1. PICK r \in Requests : DeleteObjects(r)
    BY <1>2
  <2>2. /\ LinkFree(request[r].archive) /\ link' = link
        /\ request'[r].archive = request[r].archive
        /\ request'[r].drop = link[request[r].archive]
        /\ \A q \in Requests \ {r} : request'[q] = request[q]
    BY <2>1, DeleteObjectsStep
  <2> QED
    BY <2>2 DEF LinksHeld, LinkFree
<1>3. CASE ~\E r \in Requests : DeleteObjects(r)
  <2> SUFFICES ASSUME NEW r \in Requests, request'[r].drop # None
               PROVE  /\ link'[request'[r].archive] = request'[r].drop
                      /\ \A q \in Requests \ {r} :
                            request'[q].archive = request'[r].archive => request'[q].drop = None
    BY DEF LinksHeld
  <2>1. \A q \in Requests : request'[q].drop # None =>
            request'[q].drop = request[q].drop /\ request'[q].archive = request[q].archive
    BY <1>3, DropStep
  <2>2. /\ request[r].drop # None /\ request[r].drop = request'[r].drop
        /\ request[r].archive = request'[r].archive
        /\ link[request[r].archive] = request[r].drop
        /\ \A q \in Requests \ {r} :
              request[q].archive = request[r].archive => request[q].drop = None
    BY <2>1 DEF LinksHeld
  <2>3. request[r].archive \in Archives
    BY <2>2, ActiveRequest DEF LocksHeld
  <2>4. ASSUME NEW q \in Requests, CommitDelete(q)
        PROVE  link'[request[r].archive] = link[request[r].archive]
    <3>1. request'[q].drop = None
      BY <1>1, <2>4 DEF CommitDelete, EndRequest, NoRequest
    <3>2. q # r
      BY <2>2, <3>1
    <3>3. \/ link' = link
          \/ request[q].drop # None /\ link' = [link EXCEPT ![request[q].archive] = None]
      BY <2>4 DEF CommitDelete
    <3>4. request[q].drop # None => request[q].archive # request[r].archive
      BY <2>2, <3>2
    <3> QED
      BY <1>1, <2>3, <3>3, <3>4
  <2>5. ASSUME NEW a \in Archives, DeleteArchive(a)
        PROVE  link'[request[r].archive] = link[request[r].archive]
    BY <1>1, <2>2, <2>5 DEF DeleteArchive, LinkFree
  <2>6. ASSUME NEW w \in Workers, Register(w)
        PROVE  link'[request[r].archive] = link[request[r].archive]
    <3>1. /\ link' = link \/ link' = [link EXCEPT ![ArchiveOf(w)] = worker[w].sha]
          /\ link' = link \/ LinkFree(ArchiveOf(w))
      BY <2>6 DEF Register
    <3>2. ~LinkFree(request[r].archive)
      BY <2>2 DEF LinkFree
    <3>3. link' = link \/ ArchiveOf(w) # request[r].archive
      BY <3>1, <3>2
    <3> QED
      BY <1>1, <2>3, <3>1, <3>3
  <2>7. link'[request[r].archive] = link[request[r].archive]
    BY <2>4, <2>5, <2>6, LinkWriters
  <2> QED
    BY <2>1, <2>2, <2>7
<1> QED
  BY <1>2, <1>3

LEMMA OneDropperStep ==
  ASSUME QueueInv, LocksHeld, LinksHeld, OneDropper, Next
  PROVE  OneDropper'
<1>1. CASE \E r \in Requests : DeleteObjects(r)
  <2>1. PICK r \in Requests : DeleteObjects(r)
    BY <1>1
  <2>2. /\ LinkFree(request[r].archive)
        /\ request'[r].drop = link[request[r].archive]
        /\ request'[r].pc = "drop_asset" =>
              /\ request'[r].drop # None
              /\ \A b \in Archives \ {request[r].archive} : link[b] # request'[r].drop
        /\ \A q \in Requests \ {r} : request'[q] = request[q]
    BY <2>1, DeleteObjectsStep
  <2>3. ASSUME NEW q \in Requests \ {r}, request[q].pc = "drop_asset",
               request'[r].pc = "drop_asset"
        PROVE  request[q].drop # request'[r].drop
    <3>1. request[q].drop # None /\ link[request[q].archive] = request[q].drop
      BY <2>3 DEF OneDropper, LinksHeld
    <3>2. request[q].archive \in Archives \ {request[r].archive}
      BY <2>2, <2>3, <3>1, ActiveRequest DEF LinkFree
    <3> QED
      BY <2>2, <2>3, <3>1, <3>2
  <2> QED
    BY <2>2, <2>3 DEF OneDropper
<1>2. CASE ~\E r \in Requests : DeleteObjects(r)
  <2>1. \A r \in Requests : request'[r].pc = "drop_asset" =>
            request[r].pc = "drop_asset" /\ request'[r].drop = request[r].drop
    BY <1>2, DropStep
  <2> QED
    BY <2>1 DEF OneDropper
<1> QED
  BY <1>1, <1>2

LEMMA LocksStep == QueueInv /\ LocksInv /\ [Next]_vars => LocksInv'
<1> SUFFICES ASSUME QueueInv, LocksInv, [Next]_vars PROVE LocksInv'
  OBVIOUS
<1>1. CASE Next
  BY <1>1, LocksHeldStep, LinksHeldStep, OneDropperStep DEF LocksInv
<1>2. CASE UNCHANGED vars
  BY <1>2 DEF vars, stores, LocksInv, LocksHeld, LinksHeld, OneDropper
<1> QED
  BY <1>1, <1>2

LEMMA LocksInvariant == Spec => []LocksInv
  BY LocksInit, LocksStep, QueueInvariant, PTL DEF Spec

(* An API call holds job rows only between the cancel and the commit of a  *)
(* delete, and a link's row only after the objects are removed.            *)
THEOREM LocksAreHeld == Spec => []LocksHeld
<1>1. LocksInv => LocksHeld
  BY DEF LocksInv
<1> QED
  BY <1>1, LocksInvariant, PTL

(* How far a request has come, counted in the locks it may hold.           *)
LockRank(r) ==
    CASE request[r].pc = "objects" -> 1
      [] request[r].pc = "drop_asset" -> 2
      [] request[r].pc \in {"commit_all", "commit_reviewed"} -> 3
      [] request[r].pc = "insert" -> 4
      [] OTHER -> 0

LEMMA WaitsUpwards ==
  ASSUME LocksHeld, OneDropper, NEW r \in Requests, NEW q \in Requests, WaitsFor(r, q)
  PROVE  LockRank(r) < LockRank(q)
<1> USE DEF LockRank
<1>1. CASE /\ request[r].pc \in {"flush", "commit_b", "commit_all", "commit_reviewed"}
           /\ request[q].pc = "insert"
  BY <1>1
<1>2. CASE request[r].pc \in {"cancel_all", "cancel_reviewed"} /\ request[q].cancel # {}
  BY <1>2 DEF LocksHeld
<1>3. CASE request[r].pc = "objects" /\ request[q].drop # None
  BY <1>3 DEF LocksHeld
<1>4. CASE request[r].pc = "drop_asset" /\ q # r /\ request[q].drop = request[r].drop
  <2>1. request[q].drop # None /\ request[q].pc # "drop_asset"
    BY <1>4 DEF OneDropper
  <2> QED
    BY <1>4, <2>1 DEF LocksHeld
<1> QED
  BY <1>1, <1>2, <1>3, <1>4 DEF WaitsFor, HoldsRow

(* However many triggers, reviews and deletes are in flight, no set of     *)
(* them waits in a circle: each holds only what comes earlier in one order *)
(* (jobs, link, asset, archive) than what it waits for.                    *)
THEOREM WaitsEnd == Spec => []NoWaitCycle
<1>1. LocksInv => NoWaitCycle
  <2> SUFFICES ASSUME LocksHeld, OneDropper, NEW S \in SUBSET Requests, S # {},
                      \A r \in S : \E q \in S : WaitsFor(r, q)
               PROVE  FALSE
    BY DEF NoWaitCycle, LocksInv
  <2>1. \A r \in S : /\ LockRank(r) \in 0 .. 4
                     /\ \E q \in S : LockRank(r) < LockRank(q)
    BY WaitsUpwards DEF LockRank
  <2>2. \A r \in S : LockRank(r) # 4
    BY <2>1
  <2>3. \A r \in S : LockRank(r) # 3
    BY <2>1, <2>2
  <2>4. \A r \in S : LockRank(r) # 2
    BY <2>1, <2>2, <2>3
  <2>5. \A r \in S : LockRank(r) # 1
    BY <2>1, <2>2, <2>3, <2>4
  <2> HIDE DEF LockRank
  <2> QED
    BY <2>1, <2>2, <2>3, <2>4, <2>5
<1> QED
  BY <1>1, LocksInvariant, PTL

(* A call goes on although another one has the row it needs.               *)
WaiterMoves == \E r, q \in Requests : WaitsFor(r, q) /\ RequestStep(r)

(* What WaitsFor calls a wait is one: a call stands still as long as there *)
(* is a call it waits for.                                                 *)
THEOREM WaitersWait == Spec => [][~WaiterMoves]_vars
<1>1. QueueInv /\ Next => ~WaiterMoves
  <2> SUFFICES ASSUME QueueInv, NEW r \in Requests, NEW q \in Requests,
                      WaitsFor(r, q), RequestStep(r)
               PROVE  FALSE
    BY DEF WaiterMoves
  <2>1. HoldsRow(q, request[r].archive) => request[r].archive \in rows
    BY DEF QueueInv, InsertExclusive, HoldsRow
  <2>2. CASE HoldsRow(q, request[r].archive)
             /\ request[r].pc \in {"flush", "commit_b", "commit_all", "commit_reviewed"}
    BY <2>1, <2>2
       DEF RequestStep, FlushTrigger, Enqueue, FinalizeReview, CommitReview,
           CancelActiveJobs, DeleteObjects, DropAsset, CommitDelete, RowFree
  <2>3. CASE /\ request[r].pc \in {"cancel_all", "cancel_reviewed"}
             /\ request[q].cancel \cap ActiveOn(request[r].archive) # {}
    BY <2>3
       DEF RequestStep, FlushTrigger, Enqueue, FinalizeReview, CommitReview,
           CancelActiveJobs, DeleteObjects, DropAsset, CommitDelete, JobFree
  <2>4. CASE /\ request[r].pc = "objects"
             /\ request[q].archive = request[r].archive /\ request[q].drop # None
    BY <2>4
       DEF RequestStep, FlushTrigger, Enqueue, FinalizeReview, CommitReview,
           CancelActiveJobs, DeleteObjects, DropAsset, CommitDelete, LinkFree
  <2>5. CASE request[r].pc = "drop_asset" /\ q # r /\ request[q].drop = request[r].drop
    BY <2>5
       DEF RequestStep, FlushTrigger, Enqueue, FinalizeReview, CommitReview,
           CancelActiveJobs, DeleteObjects, DropAsset, CommitDelete, OtherLinksFree
  <2> QED
    BY <2>2, <2>3, <2>4, <2>5 DEF WaitsFor
<1> QED
  BY <1>1, QueueInvariant, PTL DEF Spec

(* A job id is left for every trigger in flight.                           *)
Triggers == {r \in Requests : request[r].pc \in {"flush", "insert"}}
Unused == {j \in Jobs : job[j].status = "unused"}
SpareInv == IsFiniteSet(Triggers) /\ Cardinality(Triggers) <= Cardinality(Unused)

LEMMA UnusedFinite == IsFiniteSet(Unused) /\ Cardinality(Unused) \in Nat
<1>1. IsFiniteSet(Jobs)
  BY FS_Interval DEF Jobs
<1>2. Unused \in SUBSET Jobs
  BY DEF Unused
<1> QED
  BY <1>1, <1>2, FS_Subset, FS_CardinalityType

LEMMA SpareInit == Init => SpareInv
<1> SUFFICES ASSUME Init PROVE SpareInv
  OBVIOUS
<1>1. Triggers = {}
  BY DEF Init, NoRequest, Triggers
<1> QED
  BY <1>1, UnusedFinite, FS_EmptySet DEF SpareInv

(* A trigger begins only when an id is left for it, and uses one up when   *)
(* it commits.                                                             *)
LEMMA SpareStep == QueueInv /\ SpareInv /\ [Next]_vars => SpareInv'
<1> SUFFICES ASSUME QueueInv, SpareInv, [Next]_vars PROVE SpareInv'
  OBVIOUS
<1>1. /\ request \in [Requests -> RequestStates]
      /\ IsFiniteSet(Triggers) /\ Cardinality(Triggers) <= Cardinality(Unused)
      /\ Cardinality(Triggers) \in Nat
      /\ IsFiniteSet(Unused) /\ Cardinality(Unused) \in Nat
  BY UnusedFinite, FS_CardinalityType DEF QueueInv, TypeOK, SpareInv
<1>2. ASSUME Triggers' \subseteq Triggers, Unused' = Unused PROVE SpareInv'
  <2>1. Triggers' \in SUBSET Triggers
    BY <1>2
  <2>2. IsFiniteSet(Triggers') /\ Cardinality(Triggers') <= Cardinality(Triggers)
    BY <1>1, <2>1, FS_Subset
  <2>3. Cardinality(Triggers') \in Nat
    BY <2>2, FS_CardinalityType
  <2> QED
    BY <1>1, <1>2, <2>2, <2>3 DEF SpareInv
<1>3. ASSUME NEW r \in Requests, Enqueue(r) PROVE SpareInv'
  <2>1. /\ request[r].pc = "insert"
        /\ request' = [request EXCEPT ![r] = NoRequest]
    BY <1>3 DEF Enqueue, EndRequest
  <2>2. r \in Triggers /\ Triggers' = Triggers \ {r}
    BY <1>1, <2>1 DEF Triggers, NoRequest
  <2>3. PICK n \in Jobs :
          /\ job[n].status = "unused" /\ job'[n].status = "queued"
          /\ \A j \in Jobs \ {n} : job'[j] = job[j]
    BY <1>3, EnqueueStep
  <2>4. n \in Unused /\ Unused' = Unused \ {n}
    BY <2>3 DEF Unused
  <2>5. /\ IsFiniteSet(Triggers') /\ Cardinality(Triggers') = Cardinality(Triggers) - 1
        /\ Cardinality(Unused') = Cardinality(Unused) - 1
    BY <1>1, <2>2, <2>4, FS_RemoveElement
  <2> QED
    BY <1>1, <2>5 DEF SpareInv
<1>4. ASSUME NEW r \in Requests, NEW a \in Archives, BeginTrigger(r, a) PROVE SpareInv'
  <2>1. /\ Cardinality(Triggers) < Cardinality(Unused) /\ Unused' = Unused
        /\ request[r].pc = "idle"
        /\ \A q \in Requests \ {r} : request'[q] = request[q]
    BY <1>1, <1>4 DEF BeginTrigger, Begin, SpareJob, Triggers, Unused
  <2>2. Triggers' \subseteq Triggers \cup {r}
    BY <2>1 DEF Triggers
  <2>3. /\ IsFiniteSet(Triggers \cup {r})
        /\ Cardinality(Triggers \cup {r}) <= Cardinality(Triggers) + 1
    <3>1. r \notin Triggers
      BY <2>1 DEF Triggers
    <3>2. /\ IsFiniteSet(Triggers \cup {r})
          /\ Cardinality(Triggers \cup {r}) =
               IF r \in Triggers THEN Cardinality(Triggers) ELSE Cardinality(Triggers) + 1
      BY ONLY <1>1, FS_AddElement
    <3> QED
      BY <1>1, <3>1, <3>2
  <2>4. Triggers' \in SUBSET (Triggers \cup {r})
    BY <2>2
  <2>5. IsFiniteSet(Triggers') /\ Cardinality(Triggers') <= Cardinality(Triggers \cup {r})
    BY <2>3, <2>4, FS_Subset
  <2>6. Cardinality(Triggers') \in Nat /\ Cardinality(Triggers \cup {r}) \in Nat
    BY <2>3, <2>5, FS_CardinalityType
  <2> QED
    BY <1>1, <2>1, <2>3, <2>5, <2>6 DEF SpareInv
<1>5. ASSUME Next, ~\E r \in Requests : Enqueue(r) PROVE Unused' = Unused
  BY <1>5, JobStep DEF JobOnlyCloses, Unused
<1>6. ASSUME NEW q \in Requests, EndRequest(q) PROVE Triggers' \subseteq Triggers
  BY <1>1, <1>6 DEF EndRequest, NoRequest, Triggers
<1>7. ASSUME NEW q \in Requests, NEW a, NEW pc, Begin(q, a, pc), pc \notin {"flush", "insert"}
      PROVE  Triggers' \subseteq Triggers
  <2>1. request'[q].pc = pc /\ \A p \in Requests \ {q} : request'[p] = request[p]
    BY <1>1, <1>7 DEF Begin, NoRequest
  <2> QED
    BY <1>7, <2>1 DEF Triggers
<1>8. ASSUME NEW q \in Requests,
             \/ FlushTrigger(q) /\ Goto(q, "insert")
             \/ FinalizeReview(q) /\ Goto(q, "commit_b")
             \/ CancelActiveJobs(q) \/ DeleteObjects(q) \/ Goto(q, "commit_all")
      PROVE  Triggers' \subseteq Triggers
  <2>1. CASE DeleteObjects(q)
    <3>1. request'[q].pc \in {"drop_asset", "commit_all"}
      BY <1>1, <2>1 DEF DeleteObjects, RequestStates
    <3>2. \A p \in Requests \ {q} : request'[p] = request[p]
      BY <1>1, <2>1 DEF DeleteObjects
    <3> QED
      BY <3>1, <3>2 DEF Triggers
  <2>2. CASE ~DeleteObjects(q)
    <3>1. /\ request[q].pc = "flush" \/ request'[q].pc \notin {"flush", "insert"}
          /\ \A p \in Requests \ {q} : request'[p] = request[p]
      BY <1>1, <1>8, <2>2
         DEF FlushTrigger, FinalizeReview, CancelActiveJobs, Goto, RequestStates
    <3> QED
      BY <3>1 DEF Triggers
  <2> QED
    BY <2>1, <2>2
<1>9. ASSUME NEW q \in Requests, RequestBegin(q) PROVE SpareInv'
  <2>1. CASE \E a \in Archives : BeginTrigger(q, a)
    BY <1>4, <2>1
  <2>2. CASE \E a \in Archives : \/ BeginReview(q, a) \/ BeginDeleteAll(q, a)
                                 \/ BeginDeleteReviewed(q, a)
    <3>1. Triggers' \subseteq Triggers /\ UNCHANGED job
      BY <1>7, <2>2 DEF BeginReview, BeginDeleteAll, BeginDeleteReviewed
    <3> QED
      BY <1>2, <3>1 DEF Unused
  <2> QED
    BY <1>9, <2>1, <2>2 DEF RequestBegin
<1>10. ASSUME Next, NEW q \in Requests, RequestStep(q) \/ AbortRequest(q),
              ~\E r \in Requests : Enqueue(r)
       PROVE  SpareInv'
  <2>1. \/ EndRequest(q) \/ CancelActiveJobs(q) \/ DeleteObjects(q)
        \/ FlushTrigger(q) /\ Goto(q, "insert")
        \/ FinalizeReview(q) /\ Goto(q, "commit_b")
        \/ Goto(q, "commit_all")
    BY <1>10 DEF RequestStep, FlushTrigger, Enqueue, FinalizeReview, CommitReview,
                 DropAsset, CommitDelete, AbortRequest
  <2> QED
    BY <1>2, <1>5, <1>6, <1>8, <1>10, <2>1
<1>11. ASSUME Next, UNCHANGED request, ~\E r \in Requests : Enqueue(r) PROVE SpareInv'
  BY <1>2, <1>5, <1>11 DEF Triggers
<1>12. CASE UNCHANGED vars
  BY <1>2, <1>12 DEF vars, Triggers, Unused
<1> QED
  BY <1>3, <1>9, <1>10, <1>11, <1>12, RequestWriters

(* Among any number of calls in flight one finds every row it needs free   *)
(* and, if it is a trigger about to commit, a job id: the ENABLED-free     *)
(* core of NoLockDeadlock.                                                 *)
THEOREM SomeCallMoves == Spec => []SomeCallCanMove
<1>1. ASSUME QueueInv, LocksInv, NoWaitCycle, SpareInv PROVE SomeCallCanMove
  <2> SUFFICES ASSUME NEW p \in Requests, request[p].pc # "idle"
               PROVE  \E r \in Requests : CanMove(r)
    BY DEF SomeCallCanMove
  <2> DEFINE S == {r \in Requests : request[r].pc # "idle"}
  <2>1. PICK r \in S : \A q \in S : ~WaitsFor(r, q)
    <3>1. S \in (SUBSET Requests) \ {{}}
      OBVIOUS
    <3> QED
      BY <1>1, <3>1 DEF NoWaitCycle
  <2> DEFINE a == request[r].archive
  <2>2. request[r].pc \in RequestPc \ {"idle"}
    BY <1>1, <2>1 DEF QueueInv, TypeOK, RequestStates
  <2>3. CASE request[r].pc \in {"flush", "commit_b", "commit_all", "commit_reviewed"}
    <3>1. \A q \in Requests : HoldsRow(q, a) => q \in S
      BY DEF HoldsRow
    <3>2. RowFree(a)
      BY <2>1, <2>3, <3>1 DEF WaitsFor, RowFree
    <3> QED
      BY <2>1, <2>3, <3>2 DEF CanMove
  <2>4. CASE request[r].pc \in {"cancel_all", "cancel_reviewed"}
    <3>1. \A q \in Requests : request[q].cancel # {} => q \in S
      BY <1>1 DEF LocksInv, LocksHeld
    <3>2. \A j \in ActiveOn(a) : JobFree(j)
      <4> SUFFICES ASSUME NEW j \in ActiveOn(a), NEW q \in Requests, j \in request[q].cancel
                   PROVE  FALSE
        BY DEF JobFree
      <4>1. q \in S
        BY <3>1
      <4> QED
        BY <2>1, <2>4, <4>1 DEF WaitsFor
    <3> QED
      BY <2>1, <2>4, <3>2 DEF CanMove
  <2>5. CASE request[r].pc = "objects"
    <3>1. \A q \in Requests : request[q].drop # None => q \in S
      BY <1>1 DEF LocksInv, LocksHeld
    <3>2. LinkFree(a)
      BY <2>1, <2>5, <3>1 DEF WaitsFor, LinkFree
    <3> QED
      BY <2>1, <2>5, <3>2 DEF CanMove
  <2>6. CASE request[r].pc = "insert"
    <3>1. r \in Triggers /\ Triggers # {}
      BY <2>1, <2>6 DEF Triggers
    <3>2. Cardinality(Triggers) # 0 /\ Cardinality(Triggers) \in Nat
      BY <1>1, <3>1, FS_EmptySet, FS_CardinalityType DEF SpareInv
    <3>3. Cardinality(Unused) # 0
      BY <1>1, <3>2, UnusedFinite DEF SpareInv
    <3>4. Unused # {}
      BY <3>3, FS_EmptySet
    <3> QED
      BY <2>1, <2>6, <3>4 DEF Unused, CanMove
  <2>7. CASE request[r].pc = "stage_b"
    BY <2>1, <2>7 DEF CanMove
  <2>8. CASE request[r].pc = "drop_asset"
    <3>1. request[r].drop # None
      BY <1>1, <2>1, <2>8 DEF LocksInv, OneDropper
    <3>2. ASSUME NEW q \in Requests \ {r}, request[q].drop = request[r].drop PROVE FALSE
      <4>1. q \in S
        BY <1>1, <3>1, <3>2 DEF LocksInv, LocksHeld
      <4> QED
        BY <2>1, <2>8, <3>2, <4>1 DEF WaitsFor
    <3> QED
      BY <2>1, <2>8, <3>2 DEF CanMove, OtherLinksFree
  <2> QED
    BY <2>2, <2>3, <2>4, <2>5, <2>6, <2>7, <2>8 DEF RequestPc
<1> QED
  BY <1>1, SpareInit, SpareStep, QueueInvariant, LocksInvariant, WaitsEnd, PTL DEF Spec

-----------------------------------------------------------------------------
(* The refinement.                                                         *)

LEMMA BoardInit == Init => Board!Init
<1> SUFFICES ASSUME Init PROVE Board!Init
  OBVIOUS
<1>1. \A j \in Jobs : job[j].status = "unused" /\ job[j].archive = None
  BY DEF Init
<1>2. PhaseOf("unused") = "new"
  BY DEF PhaseOf
<1>3. \A j \in Jobs : PhaseOf(job[j].status) = "new"
  BY <1>1, <1>2
<1> QED
  BY <1>1, <1>3, NoneAssumption DEF Board!Init

(* What the phases say of the statuses.                                    *)
LEMMA Phases ==
  ASSUME NEW s
  PROVE  /\ PhaseOf(s) = "new" <=> s = "unused"
         /\ PhaseOf(s) = "waiting" <=> s = "queued"
         /\ PhaseOf(s) = "taken" <=> s = "running"
         /\ PhaseOf(s) \in {"waiting", "taken"} <=> s \in Active
         /\ PhaseOf(s) \in {"new", "waiting", "taken", "closed"}
  BY DEF PhaseOf, Active

LEMMA BoardStep == QueueInv /\ [Next]_vars => [Board!Next]_(Board!vars)
<1> SUFFICES ASSUME QueueInv, [Next]_vars PROVE Board!Next \/ UNCHANGED Board!vars
  OBVIOUS
<1> DEFINE phase == [j \in Jobs |-> PhaseOf(job[j].status)]
           owner == [j \in Jobs |-> job[j].archive]
           phasePr == [j \in Jobs |-> PhaseOf(job'[j].status)]
           ownerPr == [j \in Jobs |-> job'[j].archive]
<1>0. job \in [Jobs -> JobRows]
  BY DEF QueueInv, TypeOK
<1>1. CASE UNCHANGED vars
  BY <1>1 DEF vars, Board!vars
<1>2. ASSUME NEW r \in Requests, Enqueue(r) PROVE Board!Next
  <2>1. PICK n \in Jobs : /\ job[n].status = "unused"
                          /\ job'[n].status = "queued" /\ job'[n].archive = request[r].archive
                          /\ \A j \in Jobs \ {n} : job'[j] = job[j]
    BY <1>2, EnqueueStep
  <2>2. PICK a \in Archives : a = request[r].archive
    BY <1>2, EnqueueStep
  <2>3. \A k \in Jobs : phase[k] \in {"waiting", "taken"} => owner[k] # a
    BY <1>2, <2>2, Phases DEF Enqueue, QueueInv, InsertExclusive, ActiveOn, IsActive
  <2>4. phase[n] = "new" /\ PhaseOf("queued") = "waiting"
    BY <2>1, Phases
  <2>5. /\ phasePr = [phase EXCEPT ![n] = "waiting"]
        /\ ownerPr = [owner EXCEPT ![n] = a]
    BY <2>1, <2>2, <2>4
  <2>6. Board!Start(n, a)
    BY <2>3, <2>4, <2>5 DEF Board!Start, Board!Open
  <2> QED
    BY <2>6 DEF Board!Next
<1>3. ASSUME NEW w \in Workers, Claim(w) PROVE Board!Next
  <2>1. PICK i \in Jobs :
            /\ job[i].status = "queued"
            /\ job' = [job EXCEPT ![i] = [@ EXCEPT !.status = "running", !.overdue = FALSE]]
    BY <1>3 DEF Claim
  <2>2. /\ job'[i].status = "running" /\ job'[i].archive = job[i].archive
        /\ \A j \in Jobs \ {i} : job'[j] = job[j]
    BY <1>0, <2>1 DEF JobRows
  <2>3. phase[i] = "waiting" /\ PhaseOf("running") = "taken"
    BY <2>1, Phases
  <2>4. phasePr = [phase EXCEPT ![i] = "taken"] /\ ownerPr = owner
    BY <2>2, <2>3
  <2>5. Board!Take(i)
    BY <2>3, <2>4 DEF Board!Take
  <2> QED
    BY <2>5 DEF Board!Next
<1>4. CASE Next /\ ~(\E r \in Requests : Enqueue(r)) /\ ~(\E w \in Workers : Claim(w))
  <2> DEFINE S == {j \in Jobs : job[j].status \in Active /\ job'[j].status \notin Active}
  <2>1. \A j \in Jobs :
          /\ job'[j].archive = job[j].archive
          /\ job'[j].status \in Active => job'[j].status = job[j].status
          /\ job'[j].status = "unused" <=> job[j].status = "unused"
    BY <1>4, JobStep DEF JobOnlyCloses, Active
  <2>2. \A j \in S : phase[j] \in {"waiting", "taken"}
    BY Phases
  <2>3. ASSUME NEW j \in Jobs
        PROVE  phasePr[j] = IF j \in S THEN "closed" ELSE phase[j]
    <3>1. CASE job'[j].status \in Active
      BY <2>1, <3>1
    <3>2. CASE job'[j].status = "unused"
      BY <2>1, <3>2 DEF Active
    <3>3. CASE job'[j].status \notin Active \cup {"unused"}
      BY <2>1, <3>3, Phases DEF PhaseOf, Active
    <3> QED
      BY <3>1, <3>2, <3>3
  <2>4. phasePr = [j \in Jobs |-> IF j \in S THEN "closed" ELSE phase[j]] /\ ownerPr = owner
    BY <2>1, <2>3
  <2> HIDE DEF S
  <2>5. S \in SUBSET Jobs
    BY DEF S
  <2>6. Board!Close(S)
    BY <2>2, <2>4 DEF Board!Close, Board!Open
  <2> QED
    BY <2>5, <2>6 DEF Board!Next
<1> QED
  BY <1>1, <1>2, <1>3, <1>4

(* The queue keeps ParseBoard's promise with any number of requests,       *)
(* workers and crashes: one open job per archive, taken once, closed for   *)
(* ever.                                                                   *)
THEOREM Refinement == Spec => ImplementsBoard
  BY BoardInit, BoardStep, QueueInvariant, PTL DEF Spec, ImplementsBoard, Board!Spec

=============================================================================
