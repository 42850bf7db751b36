----------------------------- MODULE ParseQueue -----------------------------
(***************************************************************************)
(* The quota parse queue: the web API that starts, reviews and deletes a   *)
(* parse, the worker processes that run the jobs, and the sweeper process  *)
(* that fails the jobs nobody finishes.  They share nothing but PostgreSQL *)
(* rows, objects in MinIO and a local work directory, so one action here   *)
(* is one database transaction, one object-store call, or one statement    *)
(* of an open transaction that takes a row lock.                           *)
(*                                                                         *)
(* Row locks are those of READ COMMITTED: an uncommitted UPDATE of a row   *)
(* makes any other writer of that row wait; readers never wait.            *)
(***************************************************************************)
EXTENDS Naturals, FiniteSets

CONSTANTS
    Archives,    \* quota archives
    MaxJobs,     \* bound: how many parses are ever enqueued
    Workers,     \* worker processes (one per host, fcntl.flock)
    Requests,    \* API calls in flight at a time
    Shas,        \* contents an artifact can have
    Kinds,       \* endpoints the clients call
    Slow,        \* may a job go overdue while someone is working for it?
    MaxCrashes,  \* bound: process deaths
    None

ASSUME MaxJobsAssumption == MaxJobs \in Nat
ASSUME ShasAssumption == None \notin Shas
ASSUME NoneAssumption == None \notin Archives /\ None \notin 1 .. MaxJobs
ASSUME SwitchAssumption == Slow \in BOOLEAN /\ MaxCrashes \in Nat

Jobs == 1 .. MaxJobs   \* in the order of enqueued_at

VARIABLES
    rows,      \* archives whose row exists
    archive,   \* the parse_* columns of each archive row
    job,       \* quota_parse_job rows
    worker,    \* each worker: where in _process_job it is, and for which job
    sweep,     \* jobs the sweeper has selected and not yet committed as failed
    request,   \* each API call: where it is, what it read, what it holds
    asset,     \* file_asset rows: sha -> archive whose object key the row names
    link,      \* archive_file rows: archive -> sha of its parse artifact
    bytes,     \* MinIO: content under quota/<archive>/artifacts/...
    workRoot,  \* jobs whose local work directory exists
    crashes

stores == <<asset, link, bytes>>
vars == <<rows, archive, job, worker, sweep, request, stores, workRoot, crashes>>

-----------------------------------------------------------------------------
(* Types. "none" is a NULL parse_status, "unused" a job id not yet given,  *)
(* "removed" a job row gone with its archive.                              *)

Active == {"queued", "running"}
ParseStatus == {"none", "parsing", "candidate_ready", "qa_passed",
                "failed_user", "skipped_no_parser"}
JobStatus == Active \cup {"unused", "done", "failed", "cancelled", "removed"}
ParseColumns == [status : ParseStatus, cand : BOOLEAN, final : BOOLEAN]
Unparsed == [status |-> "none", cand |-> FALSE, final |-> FALSE]

WorkerPc == {"down", "idle", "prepare", "skip", "ocr", "stuck", "upload",
             "register", "publish", "finish", "fail", "fail_clean"}
Idle == [pc |-> "idle", job |-> None, sha |-> None]
Down == [pc |-> "down", job |-> None, sha |-> None]

RequestPc == {"idle", "flush", "insert", "stage_b", "commit_b",
              "cancel_all", "cancel_reviewed", "objects", "drop_asset",
              "commit_all", "commit_reviewed"}
NoRequest == [pc |-> "idle", archive |-> None, seen |-> Unparsed,
              cancel |-> {}, drop |-> None, orphan |-> FALSE]

JobRows == [status : JobStatus, archive : Archives \cup {None}, overdue : BOOLEAN]
WorkerStates == [pc : WorkerPc, job : Jobs \cup {None}, sha : Shas \cup {None}]
RequestStates == [pc : RequestPc, archive : Archives \cup {None}, seen : ParseColumns,
                  cancel : SUBSET Jobs, drop : Shas \cup {None}, orphan : BOOLEAN]

TypeOK ==
    /\ rows \subseteq Archives
    /\ archive \in [Archives -> ParseColumns]
    /\ job \in [Jobs -> JobRows]
    /\ worker \in [Workers -> WorkerStates]
    /\ sweep \subseteq Jobs
    /\ request \in [Requests -> RequestStates]
    /\ asset \in [Shas -> Archives \cup {None}]
    /\ link \in [Archives -> Shas \cup {None}]
    /\ bytes \in [Archives -> Shas \cup {None}]
    /\ workRoot \subseteq Jobs
    /\ crashes \in 0 .. MaxCrashes

Init ==
    /\ rows = Archives
    /\ archive = [a \in Archives |-> Unparsed]
    /\ job = [j \in Jobs |-> [status |-> "unused", archive |-> None,
                              overdue |-> FALSE]]
    /\ worker = [w \in Workers |-> Idle]
    /\ sweep = {}
    /\ request = [r \in Requests |-> NoRequest]
    /\ asset = [s \in Shas |-> None]
    /\ link = [a \in Archives |-> None]
    /\ bytes = [a \in Archives |-> None]
    /\ workRoot = {}
    /\ crashes = 0

-----------------------------------------------------------------------------
(* Rows and locks.                                                         *)

IsActive(j) == job[j].status \in Active
ActiveOn(a) == {j \in Jobs : IsActive(j) /\ job[j].archive = a}

(* UPDATE quota_parse_job SET status = s: no row, no effect.  Whether a job *)
(* is overdue means nothing once it has ended.                             *)
Ended(j, s) == IF job[j].status = "removed" THEN job[j]
               ELSE [job[j] EXCEPT !.status = s, !.overdue = FALSE]

(* Mutant: a delete writes the archive row before it removes the objects.  *)
HoldsRowEarly(r, a) ==
    request[r].pc \in {"insert", "objects"} /\ request[r].archive = a

(* Mutant: a delete writes the archive row before it cancels the jobs.     *)
HoldsRowAtCancel(r, a) ==
    /\ request[r].pc \in {"insert", "cancel_all", "cancel_reviewed"}
    /\ request[r].archive = a

(* The request whose autoflushed UPDATE of the archive row is open.        *)
HoldsRow(r, a) == request[r].pc = "insert" /\ request[r].archive = a
RowFree(a) == \A r \in Requests : ~HoldsRow(r, a)
JobFree(j) == \A r \in Requests : j \notin request[r].cancel
LinkFree(a) == \A r \in Requests : ~(request[r].archive = a /\ request[r].drop # None)
AssetFree(s) == \A r \in Requests :
    ~(request[r].pc = "commit_all" /\ request[r].drop = s /\ request[r].orphan)

(* SQLAlchemy's unit of work: a flush writes the attributes that differ    *)
(* from what the session loaded, and leaves the row's other columns alone. *)
Dirty(loaded, new, current) == IF new = loaded THEN current ELSE new
OrmWrite(a, seen, new) ==
    archive' = [archive EXCEPT ![a] =
        [status |-> Dirty(seen.status, new.status, @.status),
         cand   |-> Dirty(seen.cand, new.cand, @.cand),
         final  |-> Dirty(seen.final, new.final, @.final)]]

Goto(r, pc) == request' = [request EXCEPT ![r].pc = pc]
EndRequest(r) == request' = [request EXCEPT ![r] = NoRequest]
Begin(r, a, pc) ==
    /\ request[r].pc = "idle"
    /\ a \in rows
    /\ request' = [request EXCEPT ![r] = [NoRequest EXCEPT
                       !.pc = pc, !.archive = a, !.seen = archive[a]]]

-----------------------------------------------------------------------------
(* POST /archives/{id}/parse                                               *)

(* Named bound: every trigger in flight still finds an unused job id.      *)
SpareJob ==
    Cardinality({r \in Requests : request[r].pc \in {"flush", "insert"}})
        < Cardinality({j \in Jobs : job[j].status = "unused"})

(* The archive is read without a lock and trigger_parse rejects one that   *)
(* is being parsed.                                                        *)
BeginTrigger(r, a) ==
    /\ "trigger" \in Kinds
    /\ SpareJob
    /\ archive[a].status # "parsing"
    /\ Begin(r, a, "flush")
    /\ UNCHANGED <<rows, archive, job, worker, sweep, stores, workRoot, crashes>>

(* Mutant: the SELECT runs with autoflush off and locks nothing.           *)
FlushWithoutLock(r) ==
    /\ request[r].pc = "flush"
    /\ IF request[r].archive \in rows /\ ActiveOn(request[r].archive) = {}
       THEN Goto(r, "insert")
       ELSE EndRequest(r)
    /\ UNCHANGED <<rows, archive, job, worker, sweep, stores, workRoot, crashes>>

(* enqueue_parse_job's SELECT autoflushes the dirty archive first: the     *)
(* UPDATE waits for the row and then holds it until the commit.  An active *)
(* job found by the SELECT: rollback and 409.                              *)
FlushTrigger(r) ==
    /\ request[r].pc = "flush"
    /\ IF request[r].archive \in rows /\ ActiveOn(request[r].archive) = {}
       THEN RowFree(request[r].archive) /\ Goto(r, "insert")
       ELSE RowFree(request[r].archive) /\ EndRequest(r)
    /\ UNCHANGED <<rows, archive, job, worker, sweep, stores, workRoot, crashes>>

(* Mutant: the trigger also deletes the links of the previous parse.       *)
EnqueueAndUnlink(r) ==
    /\ request[r].pc = "insert"
    /\ LinkFree(request[r].archive)
    /\ \E j \in Jobs :
        /\ job[j].status = "unused"
        /\ \A k \in Jobs : job[k].status = "unused" => j <= k
        /\ job' = [job EXCEPT ![j] = [status |-> "queued", overdue |-> FALSE,
                                      archive |-> request[r].archive]]
    /\ OrmWrite(request[r].archive, request[r].seen,
                [status |-> "parsing", cand |-> FALSE, final |-> FALSE])
    /\ EndRequest(r)
    /\ link' = [link EXCEPT ![request[r].archive] = None]
    /\ UNCHANGED <<rows, worker, sweep, asset, bytes, workRoot, crashes>>

Enqueue(r) ==
    /\ request[r].pc = "insert"
    /\ \E j \in Jobs :
        /\ job[j].status = "unused"
        /\ \A k \in Jobs : job[k].status = "unused" => j <= k
        /\ job' = [job EXCEPT ![j] = [status |-> "queued", overdue |-> FALSE,
                                      archive |-> request[r].archive]]
    /\ OrmWrite(request[r].archive, request[r].seen,
                [status |-> "parsing", cand |-> FALSE, final |-> FALSE])
    /\ EndRequest(r)
    /\ UNCHANGED <<rows, worker, sweep, stores, workRoot, crashes>>

-----------------------------------------------------------------------------
(* POST /archives/{id}/reviewed                                            *)

(* The status is checked before the handler awaits the upload's body.      *)
BeginReview(r, a) ==
    /\ "review" \in Kinds
    /\ archive[a].status = "candidate_ready"
    /\ Begin(r, a, "stage_b")
    /\ UNCHANGED <<rows, archive, job, worker, sweep, stores, workRoot, crashes>>

(* The workbook is rejected and rolled back, or its final.xlsx is stored.  *)
FinalizeReview(r) ==
    /\ request[r].pc = "stage_b"
    /\ EndRequest(r) \/ Goto(r, "commit_b")
    /\ UNCHANGED <<rows, archive, job, worker, sweep, stores, workRoot, crashes>>

CommitReview(r) ==
    /\ request[r].pc = "commit_b"
    /\ \/ /\ request[r].archive \in rows
          /\ RowFree(request[r].archive)
          /\ OrmWrite(request[r].archive, request[r].seen,
                      [request[r].seen EXCEPT !.status = "qa_passed", !.final = TRUE])
       \/ request[r].archive \notin rows /\ UNCHANGED archive
    /\ EndRequest(r)
    /\ UNCHANGED <<rows, job, worker, sweep, stores, workRoot, crashes>>

-----------------------------------------------------------------------------
(* POST /archives/{id}/parse/delete, scope all and scope reviewed_only     *)

BeginDeleteAll(r, a) ==
    /\ "delete_all" \in Kinds
    /\ archive[a].status # "none"
    /\ Begin(r, a, "cancel_all")
    /\ UNCHANGED <<rows, archive, job, worker, sweep, stores, workRoot, crashes>>

BeginDeleteReviewed(r, a) ==
    /\ "delete_reviewed" \in Kinds
    /\ archive[a].status = "qa_passed"
    /\ Begin(r, a, "cancel_reviewed")
    /\ UNCHANGED <<rows, archive, job, worker, sweep, stores, workRoot, crashes>>

(* The UPDATE of the active jobs stays uncommitted and holds their rows.   *)
CancelActiveJobs(r) ==
    /\ request[r].pc \in {"cancel_all", "cancel_reviewed"}
    /\ \A j \in ActiveOn(request[r].archive) : JobFree(j)
    /\ request' = [request EXCEPT ![r] = [request[r] EXCEPT
           !.cancel = ActiveOn(request[r].archive),
           !.pc = IF request[r].pc = "cancel_all" THEN "objects" ELSE "commit_reviewed"]]
    /\ UNCHANGED <<rows, archive, job, worker, sweep, stores, workRoot, crashes>>

(* The object goes at once, whoever else links to it; the link row is      *)
(* deleted in the open transaction, and the SELECT of the links that are   *)
(* left tells whether the asset is an orphan.  A reviewed_only delete      *)
(* looks for parse_final_xlsx rows, which nothing registers, and so        *)
(* removes no object but the manifest.                                     *)
DeleteObjects(r) ==
    /\ request[r].pc = "objects"
    /\ LET a == request[r].archive
           s == link[a]
           orphan == s # None /\ \A b \in Archives \ {a} : link[b] # s
       IN  /\ LinkFree(a)
           /\ request' = [request EXCEPT ![r] = [request[r] EXCEPT
                  !.pc = IF orphan THEN "drop_asset" ELSE "commit_all",
                  !.drop = s, !.orphan = orphan]]
           /\ bytes' = IF s # None /\ asset[s] # None
                       THEN [bytes EXCEPT ![asset[s]] = None] ELSE bytes
    /\ UNCHANGED <<rows, archive, job, worker, sweep, asset, link, workRoot, crashes>>

(* The DELETE of the asset row that the SELECT found an orphan.  Its       *)
(* foreign key check waits for the open delete of any other link to it;    *)
(* one committed since the SELECT aborts the call, whose object is gone.   *)
OtherLinksFree(r) == \A q \in Requests \ {r} : request[q].drop # request[r].drop
DropAsset(r) ==
    /\ request[r].pc = "drop_asset"
    /\ OtherLinksFree(r)
    /\ IF \A b \in Archives \ {request[r].archive} : link[b] # request[r].drop
       THEN Goto(r, "commit_all")
       ELSE EndRequest(r)
    /\ UNCHANGED <<rows, archive, job, worker, sweep, stores, workRoot, crashes>>

CommitCancel(r) ==
    job' = [j \in Jobs |-> IF j \in request[r].cancel THEN Ended(j, "cancelled") ELSE job[j]]

CommitDelete(r) ==
    LET a == request[r].archive
        s == request[r].drop
        all == request[r].pc = "commit_all"
    IN  /\ request[r].pc \in {"commit_all", "commit_reviewed"}
        /\ \/ /\ a \in rows
              /\ RowFree(a)
              /\ CommitCancel(r)
              /\ OrmWrite(a, request[r].seen,
                          IF all THEN Unparsed
                          ELSE [request[r].seen EXCEPT !.status = "candidate_ready",
                                                       !.final = FALSE])
              /\ link' = IF s # None THEN [link EXCEPT ![a] = None] ELSE link
              /\ asset' = IF request[r].orphan THEN [asset EXCEPT ![s] = None] ELSE asset
           \/ a \notin rows /\ UNCHANGED <<archive, job, link, asset>>
        /\ EndRequest(r)
        /\ UNCHANGED <<rows, worker, sweep, bytes, workRoot, crashes>>

(* DELETE /archives/{id}: the job rows go with the archive (ON DELETE      *)
(* CASCADE), the objects stay.                                             *)
DeleteArchive(a) ==
    /\ "delete_archive" \in Kinds
    /\ a \in rows
    /\ RowFree(a) /\ LinkFree(a)
    /\ \A j \in Jobs : job[j].archive = a => JobFree(j)
    /\ rows' = rows \ {a}
    /\ archive' = [archive EXCEPT ![a] = Unparsed]
    /\ job' = [j \in Jobs |-> IF job[j].archive = a
                              THEN Ended(j, "removed") ELSE job[j]]
    /\ link' = [link EXCEPT ![a] = None]
    /\ UNCHANGED <<worker, sweep, request, asset, bytes, workRoot, crashes>>

(* The web process dies: the open transaction rolls back, what was done    *)
(* in MinIO stays done.                                                    *)
AbortRequest(r) ==
    /\ request[r].pc # "idle"
    /\ crashes < MaxCrashes
    /\ crashes' = crashes + 1
    /\ EndRequest(r)
    /\ UNCHANGED <<rows, archive, job, worker, sweep, stores, workRoot>>

-----------------------------------------------------------------------------
(* The worker.  Its writes to the job and archive rows test nothing: what  *)
(* happened to the job since the claim is not looked at again.             *)

Advance(w, pc) == worker' = [worker EXCEPT ![w].pc = pc]
Release(w) == worker' = [worker EXCEPT ![w] = Idle]
ArchiveOf(w) == job[worker[w].job].archive

(* Mutant: the archive row keeps its parse_status.                         *)
MarkJobsFailedOnly(S) ==
    /\ \A j \in S : JobFree(j)
    /\ job' = [j \in Jobs |-> IF j \in S THEN Ended(j, "failed") ELSE job[j]]
    /\ UNCHANGED archive

(* UPDATE job SET status='failed'; UPDATE archive SET parse_status=        *)
(* 'failed_user'; one commit.  Shared by the worker and the sweeper.       *)
MarkFailed(S) ==
    /\ \A j \in S : JobFree(j) /\ RowFree(job[j].archive)
    /\ job' = [j \in Jobs |-> IF j \in S THEN Ended(j, "failed") ELSE job[j]]
    /\ archive' = [a \in Archives |-> IF a \in rows /\ \E j \in S : job[j].archive = a
                                      THEN [archive[a] EXCEPT !.status = "failed_user"]
                                      ELSE archive[a]]

(* Mutant: a job whose heartbeat is late is claimed again.                 *)
ReclaimOverdue(w) ==
    /\ worker[w].pc = "idle"
    /\ \E j \in Jobs :
        /\ job[j].status = "queued" \/ (job[j].status = "running" /\ job[j].overdue)
        /\ JobFree(j)
        /\ job' = [job EXCEPT ![j] = [@ EXCEPT !.status = "running", !.overdue = FALSE]]
        /\ worker' = [worker EXCEPT ![w] = [pc |-> "prepare", job |-> j, sha |-> None]]
    /\ UNCHANGED <<rows, archive, sweep, request, stores, workRoot, crashes>>

(* SELECT ... ORDER BY enqueued_at LIMIT 1 FOR UPDATE SKIP LOCKED; UPDATE. *)
Claim(w) ==
    /\ worker[w].pc = "idle"
    /\ \E j \in Jobs :
        /\ job[j].status = "queued" /\ JobFree(j)
        /\ \A k \in Jobs : job[k].status = "queued" /\ JobFree(k) => j <= k
        /\ job' = [job EXCEPT ![j] = [@ EXCEPT !.status = "running", !.overdue = FALSE]]
        /\ worker' = [worker EXCEPT ![w] = [pc |-> "prepare", job |-> j, sha |-> None]]
    /\ UNCHANGED <<rows, archive, sweep, request, stores, workRoot, crashes>>

(* Archive gone or without a main PDF: failed.  No extractor for its book  *)
(* on this worker's disk: skipped.  Otherwise mkdir work_root, download    *)
(* the PDF, write chunks_total and a heartbeat.                            *)
Prepare(w) ==
    /\ worker[w].pc = "prepare"
    /\ \/ Advance(w, "fail") /\ UNCHANGED <<job, workRoot>>
       \/ ArchiveOf(w) \in rows /\ Advance(w, "skip") /\ UNCHANGED <<job, workRoot>>
       \/ /\ ArchiveOf(w) \in rows
          /\ workRoot' = workRoot \cup {worker[w].job}
          /\ \/ Advance(w, "fail") /\ UNCHANGED job
             \/ /\ JobFree(worker[w].job)
                /\ job' = [job EXCEPT ![worker[w].job].overdue = FALSE]
                /\ Advance(w, "ocr")
    /\ UNCHANGED <<rows, archive, sweep, request, stores, crashes>>

(* The job's UPDATE is rolled back when the archive row is gone.           *)
MarkSkipped(w) ==
    /\ worker[w].pc = "skip"
    /\ \/ /\ ArchiveOf(w) \in rows
          /\ JobFree(worker[w].job) /\ RowFree(ArchiveOf(w))
          /\ job' = [job EXCEPT ![worker[w].job] = Ended(worker[w].job, "done")]
          /\ archive' = [archive EXCEPT ![ArchiveOf(w)].status = "skipped_no_parser"]
       \/ ArchiveOf(w) \notin rows /\ UNCHANGED <<job, archive>>
    /\ Release(w)
    /\ UNCHANGED <<rows, sweep, request, stores, workRoot, crashes>>

(* Mutant: the progress update writes status='running' too.                *)
HeartbeatRunning(w) ==
    /\ worker[w].pc = "ocr"
    /\ JobFree(worker[w].job)
    /\ job' = [job EXCEPT ![worker[w].job].status = "running"]
    /\ UNCHANGED <<rows, archive, worker, sweep, request, stores, workRoot, crashes>>

(* on_chunk_done: every finished chunk refreshes last_heartbeat_at.        *)
Heartbeat(w) ==
    /\ worker[w].pc = "ocr"
    /\ JobFree(worker[w].job)
    /\ job[worker[w].job].overdue
    /\ job' = [job EXCEPT ![worker[w].job].overdue = FALSE]
    /\ UNCHANGED <<rows, archive, worker, sweep, request, stores, workRoot, crashes>>

RunPipeline(w) ==
    /\ worker[w].pc = "ocr"
    /\ Advance(w, "upload") \/ Advance(w, "fail_clean")
    /\ UNCHANGED <<rows, archive, job, sweep, request, stores, workRoot, crashes>>

(* poll_task retries connection errors and 5xx answers without limit: the  *)
(* call may stay there, with no heartbeat, and may come back much later.   *)
OcrStalls(w) ==
    /\ worker[w].pc = "ocr"
    /\ Advance(w, "stuck")
    /\ UNCHANGED <<rows, archive, job, sweep, request, stores, workRoot, crashes>>

OcrResumes(w) ==
    /\ worker[w].pc = "stuck"
    /\ Advance(w, "upload") \/ Advance(w, "fail_clean")
    /\ UNCHANGED <<rows, archive, job, sweep, request, stores, workRoot, crashes>>

(* A product whose local file is missing is skipped with a warning.        *)
Upload(w) ==
    /\ worker[w].pc = "upload"
    /\ \/ /\ worker[w].job \in workRoot
          /\ \E s \in Shas :
              /\ bytes' = [bytes EXCEPT ![ArchiveOf(w)] = s]
              /\ worker' = [worker EXCEPT ![w].pc = "register", ![w].sha = s]
       \/ worker[w].job \notin workRoot /\ Advance(w, "publish") /\ UNCHANGED bytes
       \/ Advance(w, "fail") /\ UNCHANGED bytes
    /\ UNCHANGED <<rows, archive, job, sweep, request, asset, link, workRoot, crashes>>

(* An asset row of the same sha is reused, with the key it already names.  *)
(* The insert may fail: the archive is gone, another worker inserted the   *)
(* same sha, or the asset it read is deleted before it links to it.        *)
Register(w) ==
    LET a == ArchiveOf(w)
        s == worker[w].sha
    IN  /\ worker[w].pc = "register"
        /\ \/ /\ a \in rows /\ LinkFree(a) /\ AssetFree(s)
              /\ asset' = [asset EXCEPT ![s] = IF @ = None THEN a ELSE @]
              /\ link' = [link EXCEPT ![a] = s]
              /\ Advance(w, "publish")
           \/ Advance(w, "fail") /\ UNCHANGED <<asset, link>>
        /\ UNCHANGED <<rows, archive, job, sweep, request, bytes, workRoot, crashes>>

(* Mutant: without an artifact the archive row is left alone.              *)
PublishArtifactsOnly(w) ==
    /\ worker[w].pc = "publish"
    /\ archive' = IF worker[w].sha # None /\ ArchiveOf(w) \in rows
                  THEN [archive EXCEPT ![ArchiveOf(w)].status = "candidate_ready",
                                       ![ArchiveOf(w)].cand = TRUE]
                  ELSE archive
    /\ Advance(w, "finish")
    /\ UNCHANGED <<rows, job, sweep, request, stores, workRoot, crashes>>

(* Then manifest.json is stored, which may fail after the commit.  Its     *)
(* content is not modelled: nothing here reads it.                         *)
Publish(w) ==
    /\ worker[w].pc = "publish"
    /\ \/ /\ ArchiveOf(w) \in rows /\ RowFree(ArchiveOf(w))
          /\ archive' = [archive EXCEPT ![ArchiveOf(w)].status = "candidate_ready",
                                        ![ArchiveOf(w)].cand = worker[w].sha # None]
          /\ Advance(w, "finish") \/ Advance(w, "fail")
       \/ ArchiveOf(w) \notin rows /\ Advance(w, "fail") /\ UNCHANGED archive
    /\ UNCHANGED <<rows, job, sweep, request, stores, workRoot, crashes>>

MarkDone(w) ==
    /\ worker[w].pc = "finish"
    /\ JobFree(worker[w].job)
    /\ job' = [job EXCEPT ![worker[w].job] = Ended(worker[w].job, "done")]
    /\ workRoot' = workRoot \ {worker[w].job}
    /\ Release(w)
    /\ UNCHANGED <<rows, archive, sweep, request, stores, crashes>>

(* The work directory is removed only after a pipeline failure.            *)
MarkJobFailed(w) ==
    /\ worker[w].pc \in {"fail", "fail_clean"}
    /\ MarkFailed({worker[w].job})
    /\ workRoot' = IF worker[w].pc = "fail_clean" THEN workRoot \ {worker[w].job}
                   ELSE workRoot
    /\ Release(w)
    /\ UNCHANGED <<rows, sweep, request, stores, crashes>>

WorkerCrash(w) ==
    /\ worker[w].pc # "down"
    /\ crashes < MaxCrashes
    /\ crashes' = crashes + 1
    /\ worker' = [worker EXCEPT ![w] = Down]
    /\ UNCHANGED <<rows, archive, job, sweep, request, stores, workRoot>>

WorkerRestart(w) ==
    /\ worker[w].pc = "down"
    /\ Release(w)
    /\ UNCHANGED <<rows, archive, job, sweep, request, stores, workRoot, crashes>>

-----------------------------------------------------------------------------
(* The sweeper and the clock it reads.                                     *)

(* Nobody is moving this job: its worker died or hangs in the OCR call, or *)
(* no worker is left to claim it.                                          *)
Lost(w) == worker[w].pc \in {"down", "stuck"}
Abandoned(j) ==
    \/ job[j].status = "running" /\ \A w \in Workers : worker[w].job = j => Lost(w)
    \/ job[j].status = "queued" /\ \A w \in Workers : Lost(w)

(* last_heartbeat_at falls 35 min behind (running) or enqueued_at 30 min   *)
(* (queued).  With Slow a busy worker can be that late too.                *)
GoOverdue(j) ==
    /\ IsActive(j)
    /\ ~job[j].overdue
    /\ Slow \/ Abandoned(j)
    /\ job' = [job EXCEPT ![j].overdue = TRUE]
    /\ UNCHANGED <<rows, archive, worker, sweep, request, stores, workRoot, crashes>>

(* Mutant: the sweeper looks at running jobs only, as before v0.7.         *)
SweepRunning ==
    /\ sweep = {}
    /\ sweep' = {j \in Jobs : job[j].status = "running" /\ job[j].overdue}
    /\ sweep' # {}
    /\ UNCHANGED <<rows, archive, job, worker, request, stores, workRoot, crashes>>

SweepSelect ==
    /\ sweep = {}
    /\ sweep' = {j \in Jobs : IsActive(j) /\ job[j].overdue}
    /\ sweep' # {}
    /\ UNCHANGED <<rows, archive, job, worker, request, stores, workRoot, crashes>>

(* Nothing is read again.  A job's directory is removed only on the        *)
(* sweeper's own host.                                                     *)
SweepCommit ==
    /\ sweep # {}
    /\ MarkFailed(sweep)
    /\ \E local \in SUBSET sweep : workRoot' = workRoot \ local
    /\ sweep' = {}
    /\ UNCHANGED <<rows, worker, request, stores, crashes>>

SweeperCrash ==
    /\ sweep # {}
    /\ crashes < MaxCrashes
    /\ crashes' = crashes + 1
    /\ \E local \in SUBSET sweep : workRoot' = workRoot \ local
    /\ sweep' = {}
    /\ UNCHANGED <<rows, archive, job, worker, request, stores>>

-----------------------------------------------------------------------------
RequestStep(r) ==
    \/ FlushTrigger(r) \/ Enqueue(r)
    \/ FinalizeReview(r) \/ CommitReview(r)
    \/ CancelActiveJobs(r) \/ DeleteObjects(r) \/ DropAsset(r) \/ CommitDelete(r)

RequestBegin(r) == \E a \in Archives :
    \/ BeginTrigger(r, a) \/ BeginReview(r, a)
    \/ BeginDeleteAll(r, a) \/ BeginDeleteReviewed(r, a)

WorkerStep(w) ==
    \/ Claim(w) \/ Prepare(w) \/ MarkSkipped(w) \/ RunPipeline(w) \/ Upload(w)
    \/ Register(w) \/ Publish(w) \/ MarkDone(w) \/ MarkJobFailed(w)

Sweeper == SweepSelect \/ SweepCommit

Next ==
    \/ \E r \in Requests : RequestBegin(r) \/ RequestStep(r) \/ AbortRequest(r)
    \/ \E a \in Archives : DeleteArchive(a)
    \/ \E w \in Workers : \/ WorkerStep(w) \/ Heartbeat(w) \/ OcrStalls(w)
                          \/ OcrResumes(w) \/ WorkerCrash(w) \/ WorkerRestart(w)
    \/ \E j \in Jobs : GoOverdue(j)
    \/ Sweeper \/ SweeperCrash

Spec == Init /\ [][Next]_vars

(* A request that was accepted is served, a worker that is up goes on, time *)
(* passes and the sweeper's loop goes round.  Nobody has to call, to crash, *)
(* to restart a dead worker or to bring the OCR service back.               *)
Fairness ==
    /\ \A r \in Requests : WF_vars(RequestStep(r))
    /\ \A w \in Workers : WF_vars(WorkerStep(w))
    /\ \A j \in Jobs : WF_vars(GoOverdue(j))
    /\ WF_vars(Sweeper)

FairSpec == Spec /\ Fairness

-----------------------------------------------------------------------------
(* Safety.                                                                 *)

(* Two jobs are never active for one archive, so two workers never write   *)
(* the same archive's results on behalf of live jobs: enqueue_parse_job's  *)
(* check and insert are one critical section.                              *)
AtMostOneActiveJob ==
    \A i, j \in Jobs : IsActive(i) /\ IsActive(j) /\ job[i].archive = job[j].archive
                       => i = j

(* An archive shown as being parsed has a job that will end it, whatever   *)
(* was cancelled, deleted, swept or reviewed meanwhile: it is not stuck in *)
(* 'parsing', a state trigger_parse refuses to leave.                      *)
ParsingHasActiveJob ==
    \A a \in rows : archive[a].status = "parsing" => ActiveOn(a) # {}

(* A job is processed by at most one worker, and only after it was claimed *)
(* (FOR UPDATE SKIP LOCKED and no requeueing).                             *)
OneWorkerPerJob ==
    \A w \in Workers : worker[w].job # None =>
        /\ job[worker[w].job].status \notin {"unused", "queued"}
        /\ \A v \in Workers \ {w} : worker[v].job # worker[w].job

(* API call r needs a row that the open transaction of q has written: the  *)
(* archive row, a job it would cancel, the link it would delete, or        *)
(* another link to the asset it would delete.                              *)
WaitsFor(r, q) ==
    LET a == request[r].archive
    IN  \/ /\ request[r].pc \in {"flush", "commit_b", "commit_all", "commit_reviewed"}
           /\ HoldsRow(q, a)
        \/ /\ request[r].pc \in {"cancel_all", "cancel_reviewed"}
           /\ request[q].cancel \cap ActiveOn(a) # {}
        \/ /\ request[r].pc = "objects"
           /\ request[q].archive = a /\ request[q].drop # None
        \/ /\ request[r].pc = "drop_asset"
           /\ q # r /\ request[q].drop = request[r].drop

(* Triggers, reviews and deletes write jobs, links and the archive row in  *)
(* different statements, and yet never wait for one another in a circle.   *)
NoWaitCycle ==
    \A S \in (SUBSET Requests) \ {{}} :
        \E r \in S : \A q \in S : ~WaitsFor(r, q)

(* No other call has a row that r needs, and a job id is left for it.      *)
CanMove(r) ==
    LET a == request[r].archive
    IN  \/ request[r].pc = "stage_b"
        \/ request[r].pc = "flush" /\ RowFree(a)
        \/ request[r].pc = "insert" /\ \E j \in Jobs : job[j].status = "unused"
        \/ request[r].pc \in {"cancel_all", "cancel_reviewed"} /\ \A j \in ActiveOn(a) : JobFree(j)
        \/ request[r].pc = "objects" /\ LinkFree(a)
        \/ request[r].pc = "drop_asset" /\ OtherLinksFree(r)
        \/ /\ request[r].pc \in {"commit_b", "commit_all", "commit_reviewed"}
           /\ a \in rows => RowFree(a)
SomeCallCanMove ==
    (\E r \in Requests : request[r].pc # "idle") => \E r \in Requests : CanMove(r)

(* Nor does anything else stop all the API calls in flight: one of them    *)
(* can move, and those that can are kept from it by nothing else.          *)
NoLockDeadlock ==
    SomeCallCanMove /\ \A r \in Requests : CanMove(r) => ENABLED RequestStep(r)

-----------------------------------------------------------------------------
(* Liveness.                                                               *)

Parsing(a) == a \in rows /\ archive[a].status = "parsing"

(* No parse hangs: whichever worker dies, hangs in the OCR call or never   *)
(* comes back, the archive leaves 'parsing' by the worker or the sweeper.  *)
ParseEnds == \A a \in Archives : Parsing(a) ~> ~Parsing(a)

(* Every job that was accepted is ended.                                   *)
JobsSettle == \A j \in Jobs : IsActive(j) ~> ~IsActive(j)

-----------------------------------------------------------------------------
(* What docstrings and comments promise and the code does not keep.        *)

(* delete_all_parse_results cancels the active jobs and goes back to the   *)
(* original PDF: only a new trigger gives the archive a parse status again.*)
DeletedStaysDeleted ==
    [][\A a \in Archives : archive[a].status = "none" /\ archive'[a].status # "none"
                           => archive'[a].status = "parsing"]_vars

(* trigger_parse clears the candidate and final keys of the previous parse:*)
(* an archive that is being parsed, or waits for review, has no final.     *)
(* Not so when its session loaded the archive before a review committed    *)
(* one: the key was empty then and is not written.                         *)
FreshParseUnreviewed ==
    \A a \in rows : archive[a].status \in {"parsing", "candidate_ready"} => ~archive[a].final

(* Deleting one archive's results leaves a file shared with another.       *)
SharedObjectKept ==
    \A a \in rows :
        link[a] # None /\ (\A r \in Requests : request[r].archive = a => request[r].drop = None)
        => bytes[asset[link[a]]] # None

-----------------------------------------------------------------------------
(* The inductive invariant behind the first three.                         *)

(* What a request and the sweeper hold on to was a job when they read it,  *)
(* and still is the same archive's.                                        *)
HeldJobs ==
    /\ \A j \in Jobs : job[j].status = "unused" <=> job[j].archive = None
    /\ \A j \in sweep : job[j].status # "unused"
    /\ \A r \in Requests : \A j \in request[r].cancel :
          job[j].status # "unused" /\ job[j].archive = request[r].archive
    /\ \A w \in Workers : worker[w].job = None <=> worker[w].pc \in {"down", "idle"}

(* What a handler read before its first write, as its guards left it.      *)
SeenByHandler ==
    \A r \in Requests :
        LET pc == request[r].pc
            seen == request[r].seen.status
        IN  /\ pc # "idle" => request[r].archive \in Archives
            /\ pc \in {"flush", "insert"} => seen # "parsing"
            /\ pc \in {"stage_b", "commit_b"} => seen = "candidate_ready"
            /\ pc \in {"cancel_all", "objects", "drop_asset", "commit_all"} => seen # "none"
            /\ pc \in {"cancel_reviewed", "commit_reviewed"} => seen = "qa_passed"

(* Between enqueue_parse_job's SELECT and the commit: one trigger per      *)
(* archive, no active job, and the archive cannot go away.                 *)
InsertExclusive ==
    \A r \in Requests : request[r].pc = "insert" =>
        /\ request[r].archive \in rows
        /\ ActiveOn(request[r].archive) = {}
        /\ \A q \in Requests \ {r} : ~HoldsRow(q, request[r].archive)

(* A worker about to close a live job has already moved the archive on.    *)
PublishedBeforeDone ==
    \A w \in Workers : worker[w].pc = "finish" /\ IsActive(worker[w].job)
        => archive[ArchiveOf(w)].status # "parsing"

QueueInv ==
    /\ TypeOK
    /\ HeldJobs
    /\ SeenByHandler
    /\ InsertExclusive
    /\ PublishedBeforeDone
    /\ AtMostOneActiveJob
    /\ ParsingHasActiveJob
    /\ OneWorkerPerJob

(* The queue implements ParseBoard.                                        *)
PhaseOf(s) == CASE s = "unused" -> "new" [] s = "queued" -> "waiting"
                [] s = "running" -> "taken" [] OTHER -> "closed"
Board == INSTANCE ParseBoard WITH
    phase <- [j \in Jobs |-> PhaseOf(job[j].status)],
    owner <- [j \in Jobs |-> job[j].archive]

(* However requests, workers, the sweeper and crashes interleave, a job is *)
(* opened only for an archive without an open one, taken once, and closed  *)
(* for ever: no late write of a cancelled, swept or deleted job's worker   *)
(* makes it active again.                                                  *)
ImplementsBoard == Board!Spec

=============================================================================
