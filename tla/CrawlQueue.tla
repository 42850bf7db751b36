----------------------------- MODULE CrawlQueue -----------------------------
(***************************************************************************)
(* The queue of cost-info crawl tasks: rows of collection_task that        *)
(* schedulers, backfills and campaigns insert, and that crawler processes  *)
(* on any number of nodes (crawler_loop, crawl_cycle, API calls) lease in  *)
(* batches, run, finish, retry or give up.                                 *)
(*                                                                         *)
(* One action is one transaction.  What a run downloads and archives is    *)
(* left out; it takes place between the Lease and the Complete or Fail of  *)
(* a task.  Sessions keep their rows over a commit (expire_on_commit is    *)
(* off), so a process writes from the copy it made with the lease.         *)
(***************************************************************************)
EXTENDS Naturals, FiniteSets

CONSTANTS
    MaxTasks,     \* bound: how many tasks are ever created
    Sources,
    Workers,      \* crawler processes
    MaxAttempts,  \* max_attempts of every task
    StopAfter,    \* failed tasks in a row that stop a source
    Limit,        \* tasks in a batch
    MaxCrashes,   \* bound: process deaths
    None

ASSUME TaskNumbers == MaxTasks \in Nat /\ MaxAttempts \in Nat \ {0}
ASSUME LimitNumbers == StopAfter \in Nat /\ Limit \in Nat /\ MaxCrashes \in Nat
ASSUME NobodyAssumption == None \notin Sources /\ None \notin Workers

Tasks == 1 .. MaxTasks   \* in the order of created_at

VARIABLES
    task,     \* collection_task rows
    source,   \* status of each data_source
    pc,       \* where each process is
    subject,  \* the source whose task it schedules, or whose failures it counts
    held,     \* the tasks of its batch that it has not ended
    copy,     \* `attempt` of each task as its session loaded it with the lease
    stopped,  \* the sources its session has already stopped in this batch
    crashes,
    astray    \* history: tasks whose lease ran out on a crawler at work, as
              \* long as anybody works on them

queueVars == <<task, source, pc, subject, held, copy, stopped, crashes>>
vars == <<queueVars, astray>>

Statuses == {"unused", "pending", "running", "done", "failed"}
TaskRows == [status : Statuses, source : Sources \cup {None}, incremental : BOOLEAN,
             lease : {"none", "live", "expired"}, worker_id : Workers \cup {None},
             attempt : 0 .. MaxAttempts]

TypeOK ==
    /\ task \in [Tasks -> TaskRows]
    /\ source \in [Sources -> {"active", "manual_recovery"}]
    /\ pc \in [Workers -> {"idle", "insert", "batch", "count", "down"}]
    /\ subject \in [Workers -> Sources \cup {None}]
    /\ held \in [Workers -> SUBSET Tasks]
    /\ copy \in [Workers -> [Tasks -> 0 .. MaxAttempts]]
    /\ stopped \in [Workers -> SUBSET Sources]
    /\ crashes \in 0 .. MaxCrashes
    /\ astray \subseteq Tasks

Init ==
    /\ task = [t \in Tasks |-> [status |-> "unused", source |-> None,
                                incremental |-> FALSE, lease |-> "none",
                                worker_id |-> None, attempt |-> 0]]
    /\ source = [s \in Sources |-> "active"]
    /\ pc = [w \in Workers |-> "idle"]
    /\ subject = [w \in Workers |-> None]
    /\ held = [w \in Workers |-> {}]
    /\ copy = [w \in Workers |-> [t \in Tasks |-> 0]]
    /\ stopped = [w \in Workers |-> {}]
    /\ crashes = 0
    /\ astray = {}

-----------------------------------------------------------------------------
(* Creating tasks.                                                         *)

IsOpen(t) == task[t].status \in {"pending", "running"}

(* Named bound: whoever is about to insert still finds an unused id.       *)
SpareTask ==
    Cardinality({w \in Workers : pc[w] = "insert"})
        < Cardinality({t \in Tasks : task[t].status = "unused"})

Insert(s, kind) ==
    \E t \in Tasks :
        /\ task[t].status = "unused"
        /\ \A u \in Tasks : task[u].status = "unused" => t <= u
        /\ task' = [task EXCEPT ![t] =
               [status |-> "pending", source |-> s, incremental |-> kind,
                lease |-> "none", worker_id |-> None, attempt |-> 0]]

(* run_scheduler looks for an open incremental task of the source; --force *)
(* skips the due date.                                                     *)
CheckDue(w, s) ==
    /\ pc[w] = "idle"
    /\ source[s] = "active"
    /\ SpareTask
    /\ ~\E t \in Tasks : IsOpen(t) /\ task[t].source = s /\ task[t].incremental
    /\ pc' = [pc EXCEPT ![w] = "insert"]
    /\ subject' = [subject EXCEPT ![w] = s]
    /\ UNCHANGED <<task, source, held, copy, stopped, crashes>>

(* ... and inserts one, unless the source's first crawl state collides     *)
(* with the one another scheduler has just inserted (left open when).      *)
InsertIncremental(w) ==
    /\ pc[w] = "insert"
    /\ Insert(subject[w], TRUE) \/ UNCHANGED task
    /\ pc' = [pc EXCEPT ![w] = "idle"]
    /\ subject' = [subject EXCEPT ![w] = None]
    /\ UNCHANGED <<source, held, copy, stopped, crashes>>

(* A coverage backfill, a campaign or a call of the collection API.  They  *)
(* look for a task of the same period or campaign, not of the source.      *)
CreateTask(s) ==
    /\ SpareTask
    /\ \E kind \in BOOLEAN : Insert(s, kind)
    /\ UNCHANGED <<source, pc, subject, held, copy, stopped, crashes>>

-----------------------------------------------------------------------------
(* run_worker                                                              *)

(* Mutant: a running task is taken over at once.                           *)
LeasableAtOnce(t) ==
    /\ task[t].status \in {"pending", "running"}
    /\ source[task[t].source] = "active"

(* Mutant: include_expired_running is left at its default.                 *)
LeasablePending(t) ==
    /\ task[t].status = "pending"
    /\ source[task[t].source] = "active"

Leasable(t) ==
    /\ task[t].status \in {"pending", "running"}
    /\ task[t].status = "running" => task[t].lease = "expired"
    /\ source[task[t].source] = "active"

(* Mutant: lease_expires_at is not written.                                *)
LeaseWithoutEnd(w, S) ==
    /\ pc[w] = "idle"
    /\ S # {} /\ Cardinality(S) <= Limit
    /\ \A t \in S : Leasable(t)
    /\ task' = [t \in Tasks |-> IF t \in S
                   THEN [task[t] EXCEPT !.status = "running", !.worker_id = w]
                   ELSE task[t]]
    /\ held' = [held EXCEPT ![w] = S]
    /\ copy' = [copy EXCEPT ![w] = [t \in Tasks |-> IF t \in S THEN task[t].attempt ELSE 0]]
    /\ pc' = [pc EXCEPT ![w] = "batch"]
    /\ UNCHANGED <<source, subject, stopped, crashes>>

(* SELECT ... FOR UPDATE SKIP LOCKED, UPDATE, COMMIT.  Which of the tasks  *)
(* are due and come first is left open.                                    *)
Lease(w, S) ==
    /\ pc[w] = "idle"
    /\ S # {} /\ Cardinality(S) <= Limit
    /\ \A t \in S : Leasable(t)
    /\ task' = [t \in Tasks |-> IF t \in S
                   THEN [task[t] EXCEPT !.status = "running", !.lease = "live",
                                        !.worker_id = w]
                   ELSE task[t]]
    /\ held' = [held EXCEPT ![w] = S]
    /\ copy' = [copy EXCEPT ![w] = [t \in Tasks |-> IF t \in S THEN task[t].attempt ELSE 0]]
    /\ pc' = [pc EXCEPT ![w] = "batch"]
    /\ UNCHANGED <<source, subject, stopped, crashes>>

(* The next task of the batch, or the end of it.                           *)
Drop(w, t) ==
    /\ held' = [held EXCEPT ![w] = held[w] \ {t}]
    /\ copy' = [copy EXCEPT ![w] = [copy[w] EXCEPT ![t] = 0]]
NextTask(w, rest, seen) ==
    /\ pc' = [pc EXCEPT ![w] = IF rest = {} THEN "idle" ELSE "batch"]
    /\ stopped' = [stopped EXCEPT ![w] = IF rest = {} THEN {} ELSE seen]

(* The task ran, whatever became of its single issues, or its period was   *)
(* already covered.  Nothing asks whether the lease is still held.         *)
Complete(w, t) ==
    /\ pc[w] = "batch" /\ t \in held[w]
    /\ task' = [task EXCEPT ![t] = [task[t] EXCEPT !.status = "done", !.lease = "none"]]
    /\ Drop(w, t)
    /\ NextTask(w, held[w] \ {t}, stopped[w])
    /\ UNCHANGED <<source, subject, crashes>>

(* Mutant: one attempt too many.                                           *)
RetryOnceMore(w, t) ==
    /\ pc[w] = "batch" /\ t \in held[w]
    /\ copy[w][t] + 1 <= MaxAttempts
    /\ task' = [task EXCEPT ![t] = [task[t] EXCEPT !.status = "pending",
                    !.lease = "none", !.attempt = copy[w][t] + 1]]
    /\ Drop(w, t)
    /\ NextTask(w, held[w] \ {t}, stopped[w])
    /\ UNCHANGED <<source, subject, crashes>>

(* Mutant: the attempt is not counted.                                     *)
RetryUncounted(w, t) ==
    /\ pc[w] = "batch" /\ t \in held[w]
    /\ copy[w][t] + 1 < MaxAttempts
    /\ task' = [task EXCEPT ![t] = [task[t] EXCEPT !.status = "pending", !.lease = "none"]]
    /\ Drop(w, t)
    /\ NextTask(w, held[w] \ {t}, stopped[w])
    /\ UNCHANGED <<source, subject, crashes>>

(* The attempt is counted from the session's copy.                         *)
Retry(w, t) ==
    /\ pc[w] = "batch" /\ t \in held[w]
    /\ copy[w][t] + 1 < MaxAttempts
    /\ task' = [task EXCEPT ![t] = [task[t] EXCEPT !.status = "pending",
                    !.lease = "none", !.attempt = copy[w][t] + 1]]
    /\ Drop(w, t)
    /\ NextTask(w, held[w] \ {t}, stopped[w])
    /\ UNCHANGED <<source, subject, crashes>>

DeadLetter(w, t) ==
    /\ pc[w] = "batch" /\ t \in held[w]
    /\ copy[w][t] + 1 >= MaxAttempts
    /\ task' = [task EXCEPT ![t] = [task[t] EXCEPT !.status = "failed",
                    !.lease = "none", !.attempt = copy[w][t] + 1]]
    /\ Drop(w, t)
    /\ pc' = [pc EXCEPT ![w] = "count"]
    /\ subject' = [subject EXCEPT ![w] = task[t].source]
    /\ UNCHANGED <<source, stopped, crashes>>

(* The newest tasks of the source, as long as they have failed.            *)
FailedInARow(s) ==
    LET mine == {t \in Tasks : task[t].source = s}
    IN  Cardinality({t \in mine : \A u \in mine : u >= t => task[u].status = "failed"})

(* A transaction of its own, after the dead letter's.  A source that its    *)
(* session already has as stopped is not written again, even if an         *)
(* operator has put it back meanwhile.                                     *)
CountFailures(w) ==
    LET s == subject[w]
        seen == IF FailedInARow(s) >= StopAfter THEN stopped[w] \cup {s} ELSE stopped[w]
    IN  /\ pc[w] = "count"
        /\ source' = [source EXCEPT ![s] =
                         IF s \in seen \ stopped[w] THEN "manual_recovery" ELSE @]
        /\ subject' = [subject EXCEPT ![w] = None]
        /\ NextTask(w, held[w], seen)
        /\ UNCHANGED <<task, held, copy, crashes>>

(* The operator's `set-active`.                                            *)
SetActive(s) ==
    /\ source[s] = "manual_recovery"
    /\ source' = [source EXCEPT ![s] = "active"]
    /\ UNCHANGED <<task, pc, subject, held, copy, stopped, crashes>>

-----------------------------------------------------------------------------
(* Time and death.                                                         *)

(* lease_expires_at is counted from the start of the whole round and never *)
(* renewed: it may pass while the batch is still being worked on.          *)
Expire(t) ==
    /\ task[t].status = "running" /\ task[t].lease = "live"
    /\ task' = [task EXCEPT ![t] = [task[t] EXCEPT !.lease = "expired"]]
    /\ UNCHANGED <<source, pc, subject, held, copy, stopped, crashes>>

(* The process dies, or an error of the database ends the run: a session   *)
(* that needs a rollback never gets one.                                   *)
Crash(w) ==
    /\ pc[w] # "down"
    /\ crashes < MaxCrashes
    /\ crashes' = crashes + 1
    /\ pc' = [pc EXCEPT ![w] = "down"]
    /\ subject' = [subject EXCEPT ![w] = None]
    /\ held' = [held EXCEPT ![w] = {}]
    /\ copy' = [copy EXCEPT ![w] = [t \in Tasks |-> 0]]
    /\ stopped' = [stopped EXCEPT ![w] = {}]
    /\ UNCHANGED <<task, source>>

(* Mutant: a crawler that starts puts the running tasks back in the queue. *)
RestartRequeues(w) ==
    /\ pc[w] = "down"
    /\ pc' = [pc EXCEPT ![w] = "idle"]
    /\ task' = [t \in Tasks |-> IF task[t].status = "running"
                   THEN [task[t] EXCEPT !.status = "pending", !.lease = "none"]
                   ELSE task[t]]
    /\ UNCHANGED <<source, subject, held, copy, stopped, crashes>>

Restart(w) ==
    /\ pc[w] = "down"
    /\ pc' = [pc EXCEPT ![w] = "idle"]
    /\ UNCHANGED <<task, source, subject, held, copy, stopped, crashes>>

-----------------------------------------------------------------------------
EndTask(w, t) == Complete(w, t) \/ Retry(w, t) \/ DeadLetter(w, t)
WorkerStep(w) ==
    \/ InsertIncremental(w) \/ CountFailures(w)
    \/ \E t \in Tasks : EndTask(w, t)

Step ==
    \/ \E w \in Workers, s \in Sources : CheckDue(w, s)
    \/ \E w \in Workers, S \in SUBSET Tasks : Lease(w, S)
    \/ \E w \in Workers : WorkerStep(w) \/ Crash(w) \/ Restart(w)
    \/ \E s \in Sources : CreateTask(s) \/ SetActive(s)
    \/ \E t \in Tasks : Expire(t)

InHand(t) == \E w \in Workers : t \in held[w]
Next ==
    /\ Step
    /\ astray' = {t \in Tasks : InHand(t)' /\ (t \in astray \/ task'[t].lease = "expired")}

Spec == Init /\ [][Next]_vars

(* A run goes on (its downloads have time limits), time passes, crawlers   *)
(* are started again and again, and the order of the SELECT passes over no *)
(* task for ever: a retried task goes to its end.                          *)
LeaseOf(t) == \E w \in Workers, S \in SUBSET Tasks : t \in S /\ Lease(w, S)
Fairness ==
    /\ \A w \in Workers : WF_queueVars(WorkerStep(w)) /\ WF_queueVars(Restart(w))
    /\ \A t \in Tasks : WF_queueVars(Expire(t)) /\ SF_queueVars(LeaseOf(t))
FairSpec == Spec /\ Fairness

-----------------------------------------------------------------------------
(* Safety.                                                                 *)

(* The attempts of the source's policy are what a task gets: one that can  *)
(* still be leased has an attempt left, one that was given up has none,    *)
(* however late a worker counts.                                           *)
AttemptBudget ==
    \A t \in Tasks :
        /\ IsOpen(t) => task[t].attempt < MaxAttempts
        /\ task[t].status = "failed" => task[t].attempt = MaxAttempts

(* "task leasing remains the concurrency boundary" of crawlers on several  *)
(* nodes: a task is in two batches only if its lease ran out on the first, *)
(* and not after both are done with it.                                    *)
OneHolder ==
    \A v, w \in Workers : held[v] \cap held[w] \subseteq astray \/ v = w

(* A lease that has not expired is ended by its holder alone, when it ends *)
(* the task: no other process finishes, requeues or buries it.             *)
EndedByHolder(t) ==
    task[t].lease = "live" /\ task'[t].lease = "none" =>
        /\ t \in held[task[t].worker_id]
        /\ t \notin held'[task[t].worker_id]
LeaseRespected == [][\A t \in Tasks : EndedByHolder(t)]_vars

(* So it is for every task no lease of which ran out on a crawler that is  *)
(* still at work on it, whoever crashes, restarts or takes over.           *)
LeaseHonoured == [][\A t \in Tasks \ astray : EndedByHolder(t)]_vars

(* The writes to a task's row that are left at most: three for each        *)
(* attempt and each crash to come, and those of the round it is in.        *)
Stage(t) ==
    CASE task[t].status = "unused" -> 4
      [] task[t].status = "pending" -> 2
      [] task[t].status = "running" /\ InHand(t) -> 1
      [] task[t].status = "running" /\ ~InHand(t) /\ task[t].lease = "expired" -> 2
      [] OTHER -> 3
WritesLeft(t) ==
    IF task[t].status \in {"done", "failed"} THEN 0
    ELSE 3 * ((MaxAttempts - task[t].attempt) + (MaxCrashes - crashes)) + Stage(t)

(* No crawler works for nothing, unless a lease runs out on one: every     *)
(* lease, expiry, retry or end of a task brings it nearer to its end, and  *)
(* what becomes of other tasks, of sources or of crawlers takes it no      *)
(* further away.                                                           *)
EveryWriteCounts ==
    [][\A t \in Tasks \ (astray \cup astray') :
           /\ WritesLeft(t)' <= WritesLeft(t)
           /\ task'[t] # task[t] => WritesLeft(t)' < WritesLeft(t)]_vars

(* Every task is finished or given up, or its source is stopped, whichever *)
(* crawlers die on the way and however late the others write.              *)
TasksSettle ==
    \A t \in Tasks : IsOpen(t) ~>
        \/ ~IsOpen(t)
        \/ source[task[t].source] = "manual_recovery"

-----------------------------------------------------------------------------
(* The inductive invariant.                                                *)

(* Between transactions a process has a batch exactly when it works on one.*)
BatchPc ==
    \A w \in Workers :
        /\ held[w] # {} => pc[w] \in {"batch", "count"}
        /\ pc[w] \in {"insert", "count"} => subject[w] # None

RowShape ==
    \A t \in Tasks :
        /\ task[t].status = "unused" <=> task[t].source = None
        /\ task[t].status = "running" => task[t].lease # "none" /\ task[t].worker_id # None
        /\ task[t].status # "running" => task[t].lease = "none"
        /\ task[t].status = "unused" => task[t].attempt = 0

(* Whatever is counted later starts from an attempt that was left.         *)
CopyBudget ==
    \A w \in Workers : \A t \in held[w] :
        copy[w][t] < MaxAttempts /\ task[t].status # "unused"

(* As long as its lease has not run out, a batch is what its rows say.     *)
HolderHasLease ==
    \A w \in Workers : \A t \in held[w] \ astray :
        /\ task[t].status = "running" /\ task[t].lease = "live"
        /\ task[t].worker_id = w
        /\ copy[w][t] = task[t].attempt

RowInv == TypeOK /\ BatchPc /\ RowShape /\ CopyBudget /\ AttemptBudget
LeaseInv == RowInv /\ HolderHasLease /\ OneHolder /\ \A t \in astray : InHand(t)

(* The queue implements TaskLedger: tasks go from hand to hand only over   *)
(* dead crawlers, and no failure is forgotten or counted twice; only what  *)
(* becomes of a task whose lease ran out on its crawler is left open,      *)
(* until nobody works on it.                                               *)
PhaseOf(status) ==
    CASE status = "unused" -> "new" [] status = "pending" -> "waiting"
      [] status = "running" -> "taken" [] status = "done" -> "done"
      [] OTHER -> "dead"
HolderIn(batches, t) ==
    IF \E w \in Workers : t \in batches[w]
    THEN CHOOSE w \in Workers : t \in batches[w]
    ELSE None
LedgerPhase(t) == IF t \in astray THEN "astray" ELSE PhaseOf(task[t].status)
LedgerFailures(t) == IF t \in astray THEN 0 ELSE task[t].attempt
LedgerHolder(t) == IF t \in astray THEN None ELSE HolderIn(held, t)
Ledger == INSTANCE TaskLedger WITH
    MaxFailures <- MaxAttempts,
    Nobody <- None,
    phase <- [t \in Tasks |-> LedgerPhase(t)],
    failures <- [t \in Tasks |-> LedgerFailures(t)],
    holder <- [t \in Tasks |-> LedgerHolder(t)]
ImplementsLedger == Ledger!Spec

=============================================================================
