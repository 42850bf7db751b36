---------------------------- MODULE CampaignRun ----------------------------
(***************************************************************************)
(* A crawl campaign: the one task of a campaign, run by a crawler that     *)
(* goes through the issues its source lists, ingests those that have no    *)
(* archive and keeps a row for each, while callers of the web API change   *)
(* the same archives.                                                      *)
(*                                                                         *)
(* The task is a TaskLedger with one task, which CrawlQueue implements;    *)
(* that it goes astray, so that two crawlers run it at once, is left out.  *)
(* The ingest of an issue is a call of ArchiveIngest in the crawler's own  *)
(* session.  What the crawler writes about items and campaign is a draft   *)
(* until something commits the session: registering a file of the next     *)
(* issue, the end of the task, or its failure.  A crawler whose run failed *)
(* gives the task back before it writes to the campaign: by then another   *)
(* one may have run it to its end.                                         *)
(***************************************************************************)
EXTENDS ArchiveIngest

CONSTANTS
    Crawlers,      \* the sessions of crawler processes
    Issues,        \* the issues of the source, by their key
    Task,
    MaxAttempts,
    MaxDisturbances    \* bound: deaths of crawler processes, stops of the
                       \* source and writing calls of the web API, together

ASSUME CrawlerAssumption ==
    Crawlers \subseteq Clients /\ None \notin Clients /\ None \notin {"running", "completed"}
ASSUME IssueAssumption == Issues \subseteq Folding
ASSUME AttemptAssumption == MaxAttempts \in Nat \ {0}
ASSUME BoundAssumption == MaxDisturbances \in Nat

VARIABLES
    phase, failures, holder,   \* the task, as TaskLedger has it
    source,                    \* status of the campaign's data_source
    campaign,                  \* status of the crawl_campaign row
    item,                      \* status of each crawl_item row
    run,                       \* what each crawler is doing, with its draft
    got,                       \* history: the files of each issue that the
                               \* last ingest of it downloaded that went well
    overruled,                 \* history: a late "running" has been written
                               \* over an outcome
    died,                      \* history: a crawler process has died
    disturbances

taskVars == <<phase, failures, holder>>
storeVars == <<campaign, item>>
historyVars == <<got, overruled, died>>
campaignVars == <<vars, taskVars, source, storeVars, run, historyVars, disturbances>>

Queue == INSTANCE TaskLedger WITH
    Tasks <- {Task}, Workers <- Crawlers, MaxFailures <- MaxAttempts, Nobody <- None

Active == {"discovered", "downloading"}
ItemStatuses == Active \cup {"none", "done", "duplicate", "failed", "changed"}
CampaignStatuses == {"pending", "running", "completed", "failed"}

CampaignTypeOK ==
    /\ phase \in [{Task} -> {"waiting", "taken", "done", "dead"}]
    /\ failures \in [{Task} -> 0 .. MaxAttempts]
    /\ holder \in [{Task} -> Crawlers \cup {None}]
    /\ source \in {"active", "manual_recovery"}
    /\ campaign \in CampaignStatuses
    /\ item \in [Issues -> ItemStatuses]
    /\ run \in [Crawlers -> [pc : {"idle", "discover", "issues", "ingest",
                                   "bury", "retry", "mark"},
                             rest : SUBSET Issues, issue : Issues \cup {None},
                             given : Seq(Files),
                             campaign : {"running", "completed", None},
                             item : [Issues -> ItemStatuses]]]
    /\ got \in [Issues -> SUBSET Files]
    /\ overruled \in BOOLEAN
    /\ died \in BOOLEAN
    /\ disturbances \in 0 .. MaxDisturbances

Resting == [pc |-> "idle", rest |-> {}, issue |-> None, given |-> <<>>,
            campaign |-> None, item |-> [k \in Issues |-> "none"]]

(* create_campaign and enqueue_campaign_task are one transaction.          *)
CampaignInit ==
    /\ Init
    /\ phase = [t \in {Task} |-> "waiting"]
    /\ failures = [t \in {Task} |-> 0]
    /\ holder = [t \in {Task} |-> None]
    /\ source = "active"
    /\ campaign = "pending"
    /\ item = [k \in Issues |-> "none"]
    /\ run = [w \in Crawlers |-> Resting]
    /\ got = [k \in Issues |-> {}]
    /\ overruled = FALSE
    /\ died = FALSE
    /\ disturbances = 0

Disturb == disturbances < MaxDisturbances /\ disturbances' = disturbances + 1
Rest(w) == run' = [run EXCEPT ![w] = Resting]

(* The campaign as a session sees it: what it has written itself, or the   *)
(* row, which it reads again each time.                                    *)
Seen(w) == IF run[w].campaign = None THEN campaign ELSE run[w].campaign
CommitDraft(w) == campaign' = Seen(w) /\ item' = run[w].item

-----------------------------------------------------------------------------
(* The run of the task.                                                    *)

(* Mutant: a task whose lease has expired is not taken again.              *)
LeaseWaiting(w) ==
    /\ run[w].pc = "idle"
    /\ source = "active"
    /\ phase[Task] = "waiting"
    /\ Queue!Take(w, {Task})
    /\ run' = [run EXCEPT ![w] = [Resting EXCEPT !.pc = "discover"]]
    /\ UNCHANGED <<vars, source, storeVars, historyVars, disturbances>>

(* When a retry is due is left open: its delay is counted from the start   *)
(* of the run that failed, and may be over before that has ended.          *)
Lease(w) ==
    /\ run[w].pc = "idle"
    /\ source = "active"
    /\ Queue!Take(w, {Task})
    /\ run' = [run EXCEPT ![w] = [Resting EXCEPT !.pc = "discover"]]
    /\ UNCHANGED <<vars, source, storeVars, historyVars, disturbances>>

(* Mutant: a failed item stays open.                                       *)
RefreshedFailedOpen(status, items) ==
    IF status # "failed" /\ \A k \in Issues : items[k] \notin Active \cup {"failed"}
    THEN "completed" ELSE status

(* refresh_campaign; with and without failed items is one status here.     *)
Refreshed(status, items) ==
    IF status # "failed" /\ \A k \in Issues : items[k] \notin Active
    THEN "completed" ELSE status

Ingested(k) == item[k] \in {"done", "duplicate"}

(* The items after an inventory: an issue that is no longer listed keeps   *)
(* its item, one whose attachments have changed is marked and then checked *)
(* like any other.                                                         *)
Inventory(listed, changed) ==
    [k \in Issues |-> IF k \notin listed THEN item[k]
                      ELSE IF item[k] = "none" THEN "discovered"
                      ELSE IF k \in changed THEN "changed" ELSE item[k]]

(* record_discovered_items, for the issues of the list and the item limit. *)
Discover(w) ==
    /\ run[w].pc = "discover"
    /\ \E listed \in SUBSET Issues : \E changed \in SUBSET {k \in listed : Ingested(k)} :
         LET items == Inventory(listed, changed)
             started == IF campaign = "pending" THEN "running" ELSE campaign
             status == Refreshed(started, items)
         IN  run' = [run EXCEPT ![w] = [run[w] EXCEPT !.pc = "issues",
                        !.rest = listed, !.item = items,
                        !.campaign = IF status = campaign THEN None ELSE status]]
    /\ UNCHANGED <<vars, taskVars, source, storeVars, historyVars, disturbances>>

(* An issue whose key has an archive is a duplicate, whatever that archive *)
(* holds and whether or not it was withdrawn.                              *)
Duplicate(w, k) ==
    /\ run[w].pc = "issues" /\ k \in run[w].rest
    /\ Taken(k)
    /\ run' = [run EXCEPT ![w] = [run[w] EXCEPT !.rest = run[w].rest \ {k},
                                     !.item = [run[w].item EXCEPT ![k] = "duplicate"]]]
    /\ UNCHANGED <<vars, taskVars, source, storeVars, historyVars, disturbances>>

(* All attachments are downloaded before the first one is ingested; those  *)
(* that come empty are passed over, unless none is left.                   *)
Download(w, k) ==
    /\ run[w].pc = "issues" /\ k \in run[w].rest
    /\ ~Taken(k)
    /\ \E given \in Attachments[k] :
         /\ BeginIngest(w, k, given, {})
         /\ run' = [run EXCEPT ![w] = [run[w] EXCEPT !.pc = "ingest", !.issue = k,
                        !.given = given, !.rest = run[w].rest \ {k},
                        !.item = [run[w].item EXCEPT ![k] = "downloading"]]]
    /\ UNCHANGED <<taskVars, source, storeVars, historyVars, disturbances>>

(* Registering a file commits the session, and with it the draft.          *)
Register(w) ==
    /\ Lookup(w)
    /\ run[w].pc = "ingest"
    /\ CommitDraft(w)
    /\ run' = [run EXCEPT ![w] = [run[w] EXCEPT !.campaign = None]]
    /\ UNCHANGED <<taskVars, source, historyVars, disturbances>>

IngestStep(w) ==
    /\ \/ Create(w) \/ Fold(w) \/ Attach(w) \/ CommitAttach(w)
    /\ UNCHANGED <<taskVars, source, storeVars, run, historyVars, disturbances>>

DownloadFails(w) ==
    /\ Refuse(w)
    /\ UNCHANGED <<taskVars, source, storeVars, run, historyVars, disturbances>>

FilesIn(given) == {given[i] : i \in 1 .. Len(given)}

(* Mutant: an issue counts as done however its ingest ends.                *)
EndItemDone(w) ==
    LET k == run[w].issue
    IN  /\ run[w].pc = "ingest" /\ call[w].step \in {"ok", "refused"}
        /\ EndCall(w)
        /\ run' = [run EXCEPT ![w] = [run[w] EXCEPT !.pc = "issues", !.issue = None,
                      !.given = <<>>, !.item = [run[w].item EXCEPT ![k] = "done"]]]
        /\ got' = IF call[w].step = "ok"
                  THEN [got EXCEPT ![k] = FilesIn(run[w].given)] ELSE got
        /\ UNCHANGED <<taskVars, source, storeVars, overruled, died, disturbances>>

(* An error of an issue fails its item and the run goes on.                *)
EndItem(w) ==
    LET k == run[w].issue
        ok == call[w].step = "ok"
    IN  /\ run[w].pc = "ingest" /\ call[w].step \in {"ok", "refused"}
        /\ EndCall(w)
        /\ run' = [run EXCEPT ![w] = [run[w] EXCEPT !.pc = "issues", !.issue = None,
                      !.given = <<>>,
                      !.item = [run[w].item EXCEPT ![k] = IF ok THEN "done" ELSE "failed"]]]
        /\ got' = IF ok THEN [got EXCEPT ![k] = FilesIn(run[w].given)] ELSE got
        /\ UNCHANGED <<taskVars, source, storeVars, overruled, died, disturbances>>

(* refresh_campaign and _complete_task: one commit.                        *)
Finish(w) ==
    /\ run[w].pc = "issues" /\ run[w].rest = {}
    /\ Queue!Finish(Task)
    /\ campaign' = Refreshed(Seen(w), run[w].item)
    /\ item' = run[w].item
    /\ Rest(w)
    /\ UNCHANGED <<vars, source, historyVars, disturbances>>

(* The attempt is counted and the task given back or buried; the session   *)
(* goes on to the campaign.                                                *)
FailTask(w) ==
    /\ Queue!Fail(Task)
    /\ run' = [run EXCEPT ![w] = [Resting EXCEPT !.pc =
                  IF failures[Task] + 1 = MaxAttempts THEN "bury" ELSE "retry"]]
    /\ UNCHANGED <<vars, source, historyVars, disturbances>>

(* The list cannot be read.                                                *)
ListFails(w) ==
    /\ run[w].pc = "discover"
    /\ FailTask(w)
    /\ UNCHANGED storeVars

(* The run fails between two issues: the draft is committed with the       *)
(* failure.                                                                *)
RunFails(w) ==
    /\ run[w].pc = "issues" /\ run[w].rest # {}
    /\ FailTask(w)
    /\ CommitDraft(w)

(* mark_campaign_task_failure, in a transaction of its own: terminal, ...  *)
MarkFailed(w) ==
    /\ run[w].pc = "bury"
    /\ campaign' = "failed"
    /\ Rest(w)
    /\ UNCHANGED <<vars, taskVars, source, item, historyVars, disturbances>>

(* Mutant: a campaign fails with its first failed run.                     *)
ReadCampaignTerminal(w) ==
    /\ run[w].pc = "retry"
    /\ campaign' = "failed"
    /\ Rest(w)
    /\ UNCHANGED <<vars, taskVars, source, item, historyVars, disturbances>>

(* Mutant: a run that failed and is to be tried again sets the campaign to *)
(* running, whatever its status.                                           *)
ReadCampaignRuns(w) ==
    /\ run[w].pc = "retry"
    /\ campaign' = "running"
    /\ Rest(w)
    /\ UNCHANGED <<vars, taskVars, source, item, historyVars, disturbances>>

(* ... and not: the row is read, ...                                       *)
ReadCampaign(w) ==
    /\ run[w].pc = "retry"
    /\ run' = [run EXCEPT ![w] = [Resting EXCEPT !.pc =
                  IF campaign = "pending" THEN "mark" ELSE "idle"]]
    /\ UNCHANGED <<vars, taskVars, source, storeVars, historyVars, disturbances>>

(* ... and what was pending is written, whatever it is by now.  (A write   *)
(* that meets the row lock of a run waits for its commit and comes after.) *)
MarkRunning(w) ==
    /\ run[w].pc = "mark"
    /\ campaign' = "running"
    /\ overruled' = (overruled \/ campaign \in {"completed", "failed"})
    /\ Rest(w)
    /\ UNCHANGED <<vars, taskVars, source, item, got, died, disturbances>>

(* The crawler's session ends with the task still running: the lease       *)
(* expires and the task is taken again.                                    *)
LoseSession(w) ==
    /\ call' = [call EXCEPT ![w] = Idle]
    /\ Queue!Abandon(w)
    /\ Rest(w)
    /\ UNCHANGED <<Rows, source, storeVars, got, overruled>>

(* An error of the database within an ingest is not survived: mark_item    *)
(* and the failure handler need a session without a pending rollback.      *)
BreakDown(w) ==
    /\ run[w].pc = "ingest" /\ call[w].step = "broken"
    /\ LoseSession(w)
    /\ UNCHANGED <<died, disturbances>>

Crash(w) ==
    /\ run[w].pc # "idle"
    /\ Disturb
    /\ died' = TRUE
    /\ LoseSession(w)

(* Failed tasks of the same site or an operator stop the source, and an    *)
(* operator puts it back.                                                  *)
StopSource ==
    /\ source = "active"
    /\ Disturb
    /\ source' = "manual_recovery"
    /\ UNCHANGED <<vars, taskVars, storeVars, run, historyVars>>
SetActive ==
    /\ source = "manual_recovery"
    /\ source' = "active"
    /\ UNCHANGED <<vars, taskVars, storeVars, run, historyVars, disturbances>>

-----------------------------------------------------------------------------
CrawlerStep(w) ==
    \/ Lease(w) \/ Register(w) \/ IngestStep(w) \/ EndItem(w) \/ Finish(w)
    \/ MarkFailed(w) \/ ReadCampaign(w) \/ MarkRunning(w) \/ BreakDown(w)
    \/ Discover(w) \/ \E k \in Issues : Duplicate(w, k) \/ Download(w, k)

Request ==
    /\ Disturb
    /\ AtOnce \/ \E c \in Clients \ Crawlers : Start(c)
    /\ UNCHANGED <<taskVars, source, storeVars, run, historyVars>>

WebStep(c) ==
    /\ Work(c) \/ EndCall(c)
    /\ UNCHANGED <<taskVars, source, storeVars, run, historyVars, disturbances>>

(* The job that fetches pending files off peak.                            *)
FetchJob(c) ==
    /\ FetchLate(c)
    /\ UNCHANGED <<taskVars, source, storeVars, run, historyVars, disturbances>>

CampaignNext ==
    \/ \E w \in Crawlers : \/ CrawlerStep(w) \/ DownloadFails(w)
                           \/ ListFails(w) \/ RunFails(w) \/ Crash(w)
    \/ \E c \in Clients \ Crawlers : WebStep(c) \/ FetchJob(c)
    \/ Request \/ StopSource \/ SetActive

CampaignSpec == CampaignInit /\ [][CampaignNext]_campaignVars

(* Downloads and queries end, a call of the web API ends, an expired lease *)
(* is taken again by a crawler that was started again.  Nobody has to put  *)
(* a stopped source back.                                                  *)
CampaignFairness ==
    /\ \A w \in Crawlers : WF_campaignVars(CrawlerStep(w))
    /\ \A c \in Clients \ Crawlers : WF_campaignVars(WebStep(c))
FairCampaign == CampaignSpec /\ CampaignFairness

-----------------------------------------------------------------------------
(* An item that is done, or that a run is about to record as done, was     *)
(* ingested: each attachment the adapter had downloaded is in an archive,  *)
(* whatever happened to that archive or was created under its key          *)
(* meanwhile.  Files that were deleted with their archive count as stored; *)
(* an attachment that came empty was never downloaded.                     *)
Done(k) == item[k] = "done" \/ \E w \in Crawlers : run[w].item[k] = "done"
Stored(f) == \E a \in Ids : f \in files[a]
DoneIsStored == \A k \in Issues : Done(k) => got[k] # {} /\ \A f \in got[k] : Stored(f)

(* The three tables agree: a task that ends with no open item completes    *)
(* its campaign, unless a late retry overrules it, and before the first    *)
(* failed run nothing else does.  (A retry that finds every item ended     *)
(* completes the campaign as it starts.)                                   *)
NoneActive == \A k \in Issues : item[k] \notin Active
CampaignClosed ==
    /\ phase[Task] = "done" /\ NoneActive => campaign = "completed" \/ overruled
    /\ campaign = "completed" /\ failures[Task] = 0 => phase[Task] = "done" /\ NoneActive

(* A campaign fails exactly with its task, except that a crawler may die   *)
(* between the two writes, or a late retry overrule the second.            *)
FailedTogether ==
    /\ campaign = "failed" => phase[Task] = "dead"
    /\ phase[Task] = "dead" =>
          \/ campaign = "failed" \/ died \/ overruled
          \/ \E w \in Crawlers : run[w].pc = "bury"

(* What was committed is not taken back by a later attempt, which starts   *)
(* from the rows as they are: a completed campaign does not run again, one *)
(* that has failed is not completed, no item is forgotten.  Only a crawler *)
(* whose run failed before the campaign had started, and that has not yet  *)
(* written what it read then, sets an outcome back to running; of several  *)
(* such crawlers each does it once.                                        *)
Waiting == {w \in Crawlers : run[w].pc = "mark"}
OutcomeStands ==
    [][/\ campaign \in {"completed", "failed"} =>
             \/ campaign' \in {campaign, "failed"}
             \/ campaign' = "running" /\ \E w \in Waiting : Waiting' = Waiting \ {w}
       /\ \A k \in Issues : item[k] # "none" => item'[k] # "none"]_campaignVars

(* However crawlers die and callers interfere, the campaign comes to an    *)
(* end: it is completed or failed, or its task has ended and it never      *)
(* will; or its source is stopped, once for all or time and again.         *)
Settled ==
    \/ campaign \in {"completed", "failed"}
    \/ phase[Task] = "done" /\ \E k \in Issues : item[k] \in Active
    \/ phase[Task] = "dead" /\ died
    \/ phase[Task] \in {"done", "dead"} /\ overruled
CampaignSettles == <>[]Settled \/ []<>(source = "manual_recovery")

-----------------------------------------------------------------------------
(* The inductive invariant.                                                *)

AtWork(w) == run[w].pc \in {"discover", "issues", "ingest"}

(* A crawler at work holds the task, one that buries it has counted its    *)
(* last failure, one that gives it back has counted some, and a session is *)
(* in a call only within an ingest.                                        *)
RunShape ==
    \A w \in Crawlers :
        /\ AtWork(w) => phase[Task] = "taken" /\ holder[Task] = w
        /\ run[w].pc = "bury" => phase[Task] = "dead"
        /\ run[w].pc \in {"retry", "mark"} => failures[Task] > 0
        /\ run[w].pc # "ingest" => call[w] = Idle
        /\ run[w].pc = "ingest" =>
              /\ run[w].issue \in Issues /\ call[w].key = run[w].issue
              /\ run[w].given # <<>>
              /\ run[w].item[run[w].issue] = "downloading"

(* The files of its issue that are no longer on the list of a call.        *)
SoFar(given, x) ==
    \/ x.step \in {"refused", "broken"}
    \/ \E n \in 1 .. Len(given) + 1 :
          /\ x.todo = SubSeq(given, n, Len(given))
          /\ \A i \in 1 .. n - 1 : Stored(given[i])
          /\ x.step = "ok" => n = Len(given) + 1
StoredSoFar ==
    /\ \A w \in Crawlers : run[w].pc = "ingest" => SoFar(run[w].given, call[w])
    /\ \A k \in Issues : \A f \in got[k] : Stored(f)

(* Before the first failed run an unfinished campaign has an open item     *)
(* once it has any, and a crawler's draft of it is completed only when no  *)
(* issue is left.                                                          *)
FirstRun ==
    failures[Task] = 0 =>
        /\ \/ phase[Task] = "done"
           \/ \A k \in Issues : item[k] = "none"
           \/ \E k \in Issues : item[k] \in Active
        /\ \A w \in Crawlers : AtWork(w) /\ run[w].campaign = "completed" =>
              /\ run[w].pc = "issues" /\ run[w].rest = {}
              /\ \A k \in Issues : run[w].item[k] \notin Active

CampaignInv ==
    /\ CampaignTypeOK /\ RunShape /\ FirstRun
    /\ StoredSoFar /\ DoneIsStored /\ CampaignClosed /\ FailedTogether

=============================================================================
