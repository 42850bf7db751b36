---------------------------- MODULE OcrSections ----------------------------
(***************************************************************************)
(* The OCR of one job: parse_chunked cuts a PDF into sections, submits     *)
(* them one after the other to the MinerU service, polls each task and     *)
(* merges the results.  The worker is inside this call while ParseQueue    *)
(* shows it at "ocr" or "stuck"; what ends a section is its Heartbeat, and *)
(* `silent` is the time the sweeper sees.                                  *)
(*                                                                         *)
(* The clock ticks once for each poll, which the loop spaces evenly.       *)
(***************************************************************************)
EXTENDS Naturals, FiniteSets, Sequences

CONSTANTS
    Sections,    \* number of sections of the PDF
    Retries,     \* CHUNK_POLL_LOST_RETRIES
    Max404,      \* max_consecutive_404
    PollMax,     \* max_total_seconds
    SweepAfter,  \* the sweeper's timeout
    Outages      \* may calls to MinerU or the database fail?

ASSUME SectionsAssumption == Sections \in Nat \ {0}
ASSUME RetriesAssumption == Retries \in Nat /\ Max404 \in Nat \ {0}
(* 35 minutes against 30, and the slack covers the polls that answer 404.  *)
ASSUME TimeoutAssumption == /\ PollMax \in Nat
                            /\ SweepAfter \in Nat
                            /\ SweepAfter > PollMax + Max404 + 1
ASSUME OutagesAssumption == Outages \in BOOLEAN

VARIABLES
    pc,       \* where parse_chunked is
    section,  \* the section it works on
    attempt,  \* and for the how-manieth time
    missing,  \* consecutive 404 answers
    elapsed,  \* ticks since the first poll of this task, up to PollMax + 2
    silent,   \* ticks since the job's last heartbeat, up to SweepAfter
    up,       \* can MinerU be reached?
    task,     \* MinerU: what became of the task of each section and attempt
    results   \* result_paths: the sections whose result was fetched

vars == <<pc, section, attempt, missing, elapsed, silent, up, task, results>>

Attempts == 1 .. Retries + 1
TaskStates == {"none", "processing", "completed", "failed", "gone"}
Late == PollMax + 2

TypeOK ==
    /\ pc \in {"submit", "poll", "fetch", "returned"}
    /\ section \in 1 .. Sections
    /\ attempt \in Attempts
    /\ missing \in 0 .. Max404
    /\ elapsed \in 0 .. Late
    /\ silent \in 0 .. SweepAfter
    /\ up \in BOOLEAN
    /\ task \in [(1 .. Sections) \X Attempts -> TaskStates]
    /\ results \in Seq(1 .. Sections)

Init ==
    /\ pc = "submit"
    /\ section = 1
    /\ attempt = 1
    /\ missing = 0
    /\ elapsed = 0
    /\ silent = 0
    /\ up = TRUE
    /\ task = [t \in (1 .. Sections) \X Attempts |-> "none"]
    /\ results = <<>>

-----------------------------------------------------------------------------
Current == <<section, attempt>>

(* The finally block: whatever became of the section, on_chunk_done writes *)
(* the heartbeat (a failing write is swallowed) and the loop goes on.      *)
EndSection ==
    /\ silent' \in IF Outages THEN {0, silent} ELSE {0}
    /\ missing' = 0
    /\ elapsed' = 0
    /\ IF section < Sections
       THEN pc' = "submit" /\ section' = section + 1 /\ attempt' = 1
       ELSE pc' = "returned" /\ UNCHANGED <<section, attempt>>

(* POST /tasks; any failure fails the section, the answer to an accepted   *)
(* task may be lost.                                                       *)
Submit ==
    /\ pc = "submit"
    /\ UNCHANGED <<up, results>>
    /\ \/ /\ up
          /\ task' = [task EXCEPT ![Current] = "processing"]
          /\ pc' = "poll"
          /\ UNCHANGED <<section, attempt, missing, elapsed, silent>>
       \/ /\ Outages
          /\ \/ task' = task
             \/ up /\ task' = [task EXCEPT ![Current] = "processing"]
          /\ EndSection

(* The loop sleeps poll_interval and asks again.                           *)
PollAgain ==
    /\ elapsed' = IF elapsed < Late THEN elapsed + 1 ELSE elapsed
    /\ silent' = IF silent < SweepAfter THEN silent + 1 ELSE silent
    /\ UNCHANGED <<pc, section, attempt>>

(* Mutant: no total time, as before v0.7.                                  *)
PollWithoutLimit ==
    /\ pc = "poll" /\ up
    /\ task[Current] \in {"processing", "completed", "failed"}
    /\ \/ /\ task[Current] = "completed"
          /\ pc' = "fetch"
          /\ missing' = 0
          /\ UNCHANGED <<section, attempt, elapsed, silent>>
       \/ task[Current] = "failed" /\ EndSection
       \/ task[Current] = "processing" /\ missing' = 0 /\ PollAgain
    /\ UNCHANGED <<up, task, results>>

(* A 200 answer resets the 404 count; only here is the time compared.      *)
PollStatus ==
    /\ pc = "poll" /\ up
    /\ task[Current] \in {"processing", "completed", "failed"}
    /\ \/ /\ task[Current] = "completed"
          /\ pc' = "fetch"
          /\ missing' = 0
          /\ UNCHANGED <<section, attempt, elapsed, silent>>
       \/ task[Current] = "failed" /\ EndSection
       \/ /\ task[Current] = "processing"
          /\ elapsed > PollMax
          /\ EndSection                        \* PollTaskTimeout
       \/ /\ task[Current] = "processing"
          /\ elapsed <= PollMax
          /\ missing' = 0
          /\ PollAgain
    /\ UNCHANGED <<up, task, results>>

(* Mutant: one retry too many.                                             *)
Poll404Again ==
    /\ pc = "poll" /\ up
    /\ task[Current] = "gone"
    /\ IF missing + 1 < Max404
       THEN missing' = missing + 1 /\ PollAgain
       ELSE /\ pc' = "submit" /\ attempt' = attempt + 1
            /\ missing' = 0 /\ elapsed' = 0
            /\ UNCHANGED <<section, silent>>
    /\ UNCHANGED <<up, task, results>>

(* PollTaskLost after Max404 in a row: the section is submitted again, up  *)
(* to Retries times, without a heartbeat.                                  *)
Poll404 ==
    /\ pc = "poll" /\ up
    /\ task[Current] = "gone"
    /\ \/ missing + 1 < Max404 /\ missing' = missing + 1 /\ PollAgain
       \/ /\ missing + 1 >= Max404
          /\ IF attempt <= Retries
             THEN /\ pc' = "submit" /\ attempt' = attempt + 1
                  /\ missing' = 0 /\ elapsed' = 0
                  /\ UNCHANGED <<section, silent>>
             ELSE EndSection
    /\ UNCHANGED <<up, task, results>>

(* Mutant: errors count as 404 answers.                                    *)
PollErrorCounts ==
    /\ pc = "poll"
    /\ Outages
    /\ IF missing + 1 >= Max404 /\ attempt <= Retries
       THEN /\ pc' = "submit" /\ attempt' = attempt + 1
            /\ missing' = 0 /\ elapsed' = 0
            /\ UNCHANGED <<section, silent>>
       ELSE missing' = (missing + 1) % Max404 /\ PollAgain
    /\ UNCHANGED <<up, task, results>>

(* Connection errors and 5xx answers change neither count.                 *)
PollError ==
    /\ pc = "poll"
    /\ Outages
    /\ PollAgain
    /\ UNCHANGED <<missing, up, task, results>>

(* Mutant: whatever fails a section, it is submitted again.                *)
FetchOrRetry ==
    /\ pc = "fetch"
    /\ \/ up /\ task[Current] = "completed" /\ results' = Append(results, section)
       \/ (Outages \/ task[Current] = "gone") /\ UNCHANGED results
    /\ \/ EndSection
       \/ /\ Outages /\ attempt <= Retries
          /\ pc' = "submit" /\ attempt' = attempt + 1
          /\ UNCHANGED <<section, missing, elapsed, silent>>
    /\ UNCHANGED <<up, task>>

(* The result is appended before the section's own HTML is rendered; what  *)
(* fails on the way fails the section, and is not retried.                 *)
Fetch ==
    /\ pc = "fetch"
    /\ \/ up /\ task[Current] = "completed" /\ results' = Append(results, section)
       \/ (Outages \/ task[Current] = "gone") /\ UNCHANGED results
    /\ EndSection
    /\ UNCHANGED <<up, task>>

(* The service: a task ends, a restart forgets them all, it is away for    *)
(* some time.                                                              *)
Finish(t) ==
    /\ task[t] = "processing"
    /\ \E s \in {"completed", "failed"} : task' = [task EXCEPT ![t] = s]
    /\ UNCHANGED <<pc, section, attempt, missing, elapsed, silent, up, results>>

ServiceRestart ==
    /\ task' = [t \in DOMAIN task |-> IF task[t] = "none" THEN "none" ELSE "gone"]
    /\ task' # task
    /\ UNCHANGED <<pc, section, attempt, missing, elapsed, silent, up, results>>

GoAway ==
    /\ Outages /\ up
    /\ up' = FALSE
    /\ UNCHANGED <<pc, section, attempt, missing, elapsed, silent, task, results>>

ComeBack ==
    /\ ~up
    /\ up' = TRUE
    /\ UNCHANGED <<pc, section, attempt, missing, elapsed, silent, task, results>>

Client == Submit \/ PollStatus \/ Poll404 \/ Fetch

Next ==
    \/ Client
    \/ PollError
    \/ \E t \in DOMAIN task : Finish(t)
    \/ ServiceRestart \/ GoAway \/ ComeBack

Spec == Init /\ [][Next]_vars

(* parse_chunked runs on, and polls often enough to meet a service that    *)
(* keeps coming back.  The service need not end any task.                  *)
FairSpec == Spec /\ SF_vars(Client)
ReachableSpec == FairSpec /\ WF_vars(ComeBack)

-----------------------------------------------------------------------------
(* merge_chunks zips sections with results by position.  When parse_chunked*)
(* reports all_succeeded (as many results as sections) each section meets  *)
(* its own result: no section is missing, twice there or shifted, however  *)
(* sections failed, were lost and were submitted again.                    *)
AllSucceeded == pc = "returned" /\ Len(results) = Sections
MergeAligned == AllSucceeded => \A k \in 1 .. Sections : results[k] = k

(* A section is submitted again only when MinerU has forgotten its earlier *)
(* tasks: a slow or unreachable service is not given the work twice.       *)
NoDuplicateTask ==
    \A t, u \in DOMAIN task :
        t[1] = u[1] /\ {task[t], task[u]} \cap {"none", "gone"} = {} => t = u

(* The client implements SectionList: whichever answers are lost, late or  *)
(* repeated, a section is settled once and in its turn, is given to MinerU *)
(* Retries + 1 times at most, and adds at most its own result.             *)
List == INSTANCE SectionList WITH
    Budget <- Retries + 1,
    next <- IF pc = "returned" THEN Sections + 1 ELSE section,
    given <- CASE pc = "submit" -> attempt - 1 [] pc = "returned" -> 0
               [] OTHER -> attempt,
    merged <- results
ImplementsSectionList == List!Spec

(* A timed-out task is not cancelled and works on beside its successors:   *)
(* MinerU has one task of each section begun at work at most, the retries  *)
(* of a lost section included.                                             *)
AtWork == {t \in DOMAIN task : task[t] = "processing"}
OneTaskPerSection == Cardinality(AtWork) <= section

(* The polls, submissions and fetches that are left at most: those of the  *)
(* attempt at work, and of the attempts and sections to come.              *)
RoundsLeft == (Sections - section) * (Retries + 1) + (Retries + 1 - attempt)
RoundSteps == PollMax + Max404 + 6
StageLeft ==
    CASE pc = "submit" -> RoundSteps - 1
      [] pc = "poll" /\ task[Current] # "gone" -> Max404 + 1 + PollMax + 3 - elapsed
      [] pc = "poll" /\ task[Current] = "gone" -> Max404 + 1 - missing
      [] OTHER -> 1
StepsLeft == IF pc = "returned" THEN 0 ELSE RoundsLeft * RoundSteps + StageLeft

(* Whatever MinerU answers, forgets or never ends, every call that is      *)
(* answered or ends the section uses up one of them, and neither an error  *)
(* nor anything the service does gives one back.                           *)
EveryAnswerCounts ==
    [][StepsLeft' <= StepsLeft /\ (Client => StepsLeft' < StepsLeft)]_vars

(* The call returns although the service goes away now and then, forgets   *)
(* tasks or never ends them.                                               *)
Returns == <>(pc = "returned")

(* poll_task gives up on a task after max_total_seconds, whatever MinerU   *)
(* answers or does not answer.                                             *)
PollGivesUp == pc = "poll" ~> pc # "poll"

(* The sweeper acts only on a worker that is stuck: a client whose polls   *)
(* are answered is not failed by the sweeper before poll_task gives up.    *)
SweeperComesLast == pc = "poll" => silent < SweepAfter

=============================================================================
