-------------------------- MODULE CrawlQueueProofs --------------------------
(***************************************************************************)
(* Proofs about CrawlQueue for every number of tasks, sources, crawlers,   *)
(* attempts and crashes, and however late crawlers are: a lease may run    *)
(* out at any moment of the work.  RowInv, and with it the budget of       *)
(* attempts, holds for every task; what a lease is worth is proved of the  *)
(* tasks that are not astray, and what becomes of those that are is what   *)
(* TaskLedger leaves open.                                                 *)
(***************************************************************************)
EXTENDS CrawlQueue, TLAPS

USE TaskNumbers, LimitNumbers, NobodyAssumption

-----------------------------------------------------------------------------
(* The row of a task.                                                      *)

(* What the end of a task writes to its row is a row.                      *)
LEMMA RowUpdate ==
  ASSUME NEW row \in TaskRows, NEW n \in 0 .. MaxAttempts, NEW s \in Statuses
  PROVE  [row EXCEPT !.status = s, !.lease = "none", !.attempt = n] \in TaskRows
  BY DEF TaskRows

LEMMA InitRowInv == Init => RowInv
<1> SUFFICES ASSUME Init PROVE RowInv
  OBVIOUS
<1>1. TypeOK
  BY DEF Init, TypeOK, TaskRows, Statuses
<1>2. BatchPc /\ RowShape /\ CopyBudget /\ AttemptBudget
  BY DEF Init, BatchPc, RowShape, CopyBudget, AttemptBudget, IsOpen
<1> QED
  BY <1>1, <1>2 DEF RowInv

(* A transaction that leaves the batches alone and inserts one task.       *)
LEMMA InsertRow ==
  ASSUME RowInv, NEW s \in Sources, NEW kind \in BOOLEAN, Insert(s, kind),
         UNCHANGED <<held, copy>>
  PROVE  /\ task' \in [Tasks -> TaskRows]
         /\ RowShape' /\ CopyBudget' /\ AttemptBudget'
<1>1. PICK t \in Tasks :
        /\ task[t].status = "unused"
        /\ task' = [task EXCEPT ![t] =
               [status |-> "pending", source |-> s, incremental |-> kind,
                lease |-> "none", worker_id |-> None, attempt |-> 0]]
  BY DEF Insert
<1>2. task \in [Tasks -> TaskRows]
  BY DEF RowInv, TypeOK
<1>3. task' \in [Tasks -> TaskRows]
  BY <1>1, <1>2 DEF TaskRows, Statuses
<1>4. RowShape' /\ AttemptBudget'
  BY <1>1, <1>2 DEF RowInv, RowShape, AttemptBudget, IsOpen
<1>5. CopyBudget'
  BY <1>1, <1>2 DEF RowInv, CopyBudget, TypeOK
<1> QED
  BY <1>3, <1>4, <1>5

(* A transaction that ends a task with a counted or uncounted attempt.     *)
LEMMA EndRow ==
  ASSUME RowInv, NEW w \in Workers, NEW t \in Tasks, t \in held[w], Drop(w, t),
         NEW s \in {"done", "pending", "failed"}, NEW n \in 0 .. MaxAttempts,
         task' = [task EXCEPT ![t] = [task[t] EXCEPT !.status = s, !.lease = "none",
                                                     !.attempt = n]],
         s = "pending" => n < MaxAttempts,
         s = "failed" => n = MaxAttempts
  PROVE  /\ task' \in [Tasks -> TaskRows]
         /\ held' \in [Workers -> SUBSET Tasks]
         /\ copy' \in [Workers -> [Tasks -> 0 .. MaxAttempts]]
         /\ RowShape' /\ CopyBudget' /\ AttemptBudget'
<1>1. /\ task \in [Tasks -> TaskRows]
      /\ held \in [Workers -> SUBSET Tasks]
      /\ copy \in [Workers -> [Tasks -> 0 .. MaxAttempts]]
  BY DEF RowInv, TypeOK
<1>2. task[t].status # "unused"
  BY DEF RowInv, CopyBudget
<1>3. task' \in [Tasks -> TaskRows]
  <2>1. task[t] \in TaskRows
    BY <1>1
  <2>2. [task[t] EXCEPT !.status = s, !.lease = "none", !.attempt = n] \in TaskRows
    BY <2>1, RowUpdate DEF Statuses
  <2> QED
    BY <1>1, <2>2
<1>4. /\ held' \in [Workers -> SUBSET Tasks]
      /\ copy' \in [Workers -> [Tasks -> 0 .. MaxAttempts]]
      /\ \A v \in Workers : held'[v] \subseteq held[v]
      /\ \A v \in Workers : \A u \in held'[v] : copy'[v][u] = copy[v][u]
  BY <1>1 DEF Drop
<1>5. RowShape'
  BY <1>1, <1>2 DEF RowInv, RowShape, TaskRows
<1>6. AttemptBudget'
  BY <1>1 DEF RowInv, AttemptBudget, IsOpen, TaskRows
<1>7. CopyBudget'
  <2>1. \A u \in Tasks : task'[u].status = "unused" => task[u].status = "unused"
    BY <1>1 DEF TaskRows
  <2> QED
    BY <1>1, <1>4, <2>1 DEF RowInv, CopyBudget
<1> QED
  BY <1>3, <1>4, <1>5, <1>6, <1>7

-----------------------------------------------------------------------------
(* RowInv, action by action.                                               *)

LEMMA CheckDueRow ==
  ASSUME RowInv, astray' \subseteq Tasks, NEW w \in Workers, NEW s \in Sources, CheckDue(w, s)
  PROVE  RowInv'
<1>1. TypeOK' /\ BatchPc'
  BY DEF RowInv, TypeOK, BatchPc, CheckDue
<1>2. RowShape' /\ CopyBudget' /\ AttemptBudget'
  BY DEF RowInv, RowShape, CopyBudget, AttemptBudget, IsOpen, CheckDue
<1> QED
  BY <1>1, <1>2 DEF RowInv

LEMMA InsertIncrementalRow ==
  ASSUME RowInv, astray' \subseteq Tasks, NEW w \in Workers, InsertIncremental(w)
  PROVE  RowInv'
<1>1. subject[w] \in Sources /\ UNCHANGED <<held, copy>>
  BY DEF RowInv, TypeOK, BatchPc, InsertIncremental
<1>2. task' \in [Tasks -> TaskRows] /\ RowShape' /\ CopyBudget' /\ AttemptBudget'
  <2>1. CASE Insert(subject[w], TRUE)
    BY <1>1, <2>1, InsertRow
  <2>2. CASE UNCHANGED task
    BY <1>1, <2>2 DEF RowInv, TypeOK, RowShape, CopyBudget, AttemptBudget, IsOpen
  <2> QED
    BY <2>1, <2>2 DEF InsertIncremental
<1>3. TypeOK' /\ BatchPc'
  BY <1>2 DEF RowInv, TypeOK, BatchPc, InsertIncremental
<1> QED
  BY <1>2, <1>3 DEF RowInv

LEMMA CreateTaskRow ==
  ASSUME RowInv, astray' \subseteq Tasks, NEW s \in Sources, CreateTask(s)
  PROVE  RowInv'
<1>1. task' \in [Tasks -> TaskRows] /\ RowShape' /\ CopyBudget' /\ AttemptBudget'
  BY InsertRow DEF CreateTask
<1>2. TypeOK' /\ BatchPc'
  BY <1>1 DEF RowInv, TypeOK, BatchPc, CreateTask
<1> QED
  BY <1>1, <1>2 DEF RowInv

(* The rows after a lease: those of the batch run under a lease of the      *)
(* crawler's, the others are as they were.                                 *)
LEMMA LeaseEffect ==
  ASSUME RowInv, NEW w \in Workers, NEW S \in SUBSET Tasks, Lease(w, S)
  PROVE  /\ task' \in [Tasks -> TaskRows]
         /\ \A t \in Tasks :
              /\ task'[t].source = task[t].source /\ task'[t].attempt = task[t].attempt
              /\ t \notin S => task'[t] = task[t]
         /\ \A t \in S :
              /\ IsOpen(t) /\ task[t].attempt < MaxAttempts
              /\ task'[t].status = "running" /\ task'[t].lease = "live"
              /\ task'[t].worker_id = w
         /\ held' = [held EXCEPT ![w] = S]
         /\ copy' \in [Workers -> [Tasks -> 0 .. MaxAttempts]]
         /\ \A t \in S : copy'[w][t] = task[t].attempt
         /\ \A v \in Workers \ {w} : copy'[v] = copy[v]
<1>1. /\ task \in [Tasks -> TaskRows]
      /\ copy \in [Workers -> [Tasks -> 0 .. MaxAttempts]]
  BY DEF RowInv, TypeOK
<1>2. \A t \in Tasks : task[t].attempt \in 0 .. MaxAttempts
  BY <1>1 DEF TaskRows
<1>3. \A t \in S : IsOpen(t) /\ task[t].attempt < MaxAttempts
  BY DEF RowInv, AttemptBudget, IsOpen, Leasable, Lease
<1>4. /\ task' = [t \in Tasks |-> IF t \in S
                     THEN [task[t] EXCEPT !.status = "running", !.lease = "live",
                                          !.worker_id = w]
                     ELSE task[t]]
      /\ held' = [held EXCEPT ![w] = S]
      /\ copy' = [copy EXCEPT ![w] = [t \in Tasks |-> IF t \in S THEN task[t].attempt ELSE 0]]
  BY DEF Lease
<1>5. ASSUME NEW t \in Tasks
      PROVE  /\ task'[t] \in TaskRows
             /\ task'[t].source = task[t].source /\ task'[t].attempt = task[t].attempt
             /\ t \notin S => task'[t] = task[t]
             /\ t \in S => /\ task'[t].status = "running" /\ task'[t].lease = "live"
                           /\ task'[t].worker_id = w
  <2>1. task[t] \in TaskRows
    BY <1>1
  <2>2. CASE t \in S
    <3>1. task'[t] = [task[t] EXCEPT !.status = "running", !.lease = "live", !.worker_id = w]
      BY <1>4, <2>2
    <3> QED
      BY <2>1, <2>2, <3>1 DEF TaskRows, Statuses
  <2>3. CASE t \notin S
    BY <1>4, <2>1, <2>3
  <2> QED
    BY <2>2, <2>3
<1>6. task' \in [Tasks -> TaskRows]
  BY <1>4, <1>5
<1>7. [t \in Tasks |-> IF t \in S THEN task[t].attempt ELSE 0] \in [Tasks -> 0 .. MaxAttempts]
  BY <1>2
<1>8. copy' \in [Workers -> [Tasks -> 0 .. MaxAttempts]]
  BY <1>1, <1>4, <1>7
<1>9. /\ \A t \in S : copy'[w][t] = task[t].attempt
      /\ \A v \in Workers \ {w} : copy'[v] = copy[v]
  BY <1>1, <1>4
<1> QED
  BY <1>3, <1>4, <1>5, <1>6, <1>8, <1>9

LEMMA LeaseRow ==
  ASSUME RowInv, astray' \subseteq Tasks, NEW w \in Workers, NEW S \in SUBSET Tasks, Lease(w, S)
  PROVE  RowInv'
<1>1. /\ pc[w] = "idle" /\ pc' = [pc EXCEPT ![w] = "batch"]
      /\ UNCHANGED <<source, subject, stopped, crashes>>
  BY DEF Lease
<1>2. TypeOK'
  <2>1. /\ task' \in [Tasks -> TaskRows] /\ held' = [held EXCEPT ![w] = S]
        /\ copy' \in [Workers -> [Tasks -> 0 .. MaxAttempts]]
    BY LeaseEffect
  <2> QED
    BY <1>1, <2>1 DEF RowInv, TypeOK
<1>3. BatchPc'
  BY <1>1, LeaseEffect DEF RowInv, TypeOK, BatchPc
<1>4. RowShape'
  <2>1. \A t \in S : task[t].status # "unused"
    BY LeaseEffect DEF IsOpen
  <2> QED
    BY <2>1, LeaseEffect DEF RowInv, RowShape
<1>5. CopyBudget'
  <2> SUFFICES ASSUME NEW v \in Workers, NEW t \in held'[v]
               PROVE  copy'[v][t] < MaxAttempts /\ task'[t].status # "unused"
    BY DEF CopyBudget
  <2>1. held \in [Workers -> SUBSET Tasks]
    BY DEF RowInv, TypeOK
  <2>2. CASE v = w
    BY <2>1, <2>2, LeaseEffect
  <2>3. CASE v # w
    <3>1. t \in held[v] /\ t \in Tasks /\ copy'[v] = copy[v]
      BY <2>1, <2>3, LeaseEffect
    <3>2. copy[v][t] < MaxAttempts /\ task[t].status # "unused"
      BY <3>1 DEF RowInv, CopyBudget
    <3> QED
      BY <3>1, <3>2, LeaseEffect
  <2> QED
    BY <2>2, <2>3
<1>6. AttemptBudget'
  BY LeaseEffect DEF RowInv, AttemptBudget, IsOpen
<1> QED
  BY <1>2, <1>3, <1>4, <1>5, <1>6 DEF RowInv

(* The end of a task, whichever, leads to the next task or out of the batch. *)
LEMMA NextTaskPc ==
  ASSUME RowInv, NEW w \in Workers, NEW rest \in SUBSET Tasks, NEW seen \in SUBSET Sources,
         pc[w] \in {"batch", "count"}, NextTask(w, rest, seen),
         held' = [held EXCEPT ![w] = rest],
         \/ UNCHANGED subject
         \/ subject' = [subject EXCEPT ![w] = None]
  PROVE  /\ pc' \in [Workers -> {"idle", "insert", "batch", "count", "down"}]
         /\ stopped' \in [Workers -> SUBSET Sources]
         /\ BatchPc'
  BY DEF RowInv, TypeOK, BatchPc, NextTask

LEMMA EndTaskRow ==
  ASSUME RowInv, astray' \subseteq Tasks, NEW w \in Workers, NEW t \in Tasks, EndTask(w, t)
  PROVE  RowInv'
<1>1. /\ task[t] \in TaskRows
      /\ copy[w][t] \in 0 .. MaxAttempts
      /\ pc[w] = "batch" /\ t \in held[w] /\ Drop(w, t)
  BY DEF RowInv, TypeOK, EndTask, Complete, Retry, DeadLetter
<1>2. copy[w][t] < MaxAttempts /\ task[t].status # "unused" /\ task[t].source \in Sources
  BY <1>1 DEF RowInv, CopyBudget, RowShape, TaskRows
<1>3. /\ task' \in [Tasks -> TaskRows]
      /\ held' \in [Workers -> SUBSET Tasks]
      /\ copy' \in [Workers -> [Tasks -> 0 .. MaxAttempts]]
      /\ RowShape' /\ CopyBudget' /\ AttemptBudget'
  <2>1. CASE Complete(w, t)
    <3>1. /\ task[t].attempt \in 0 .. MaxAttempts
          /\ [task[t] EXCEPT !.status = "done", !.lease = "none"]
               = [task[t] EXCEPT !.status = "done", !.lease = "none",
                                 !.attempt = task[t].attempt]
      BY <1>1 DEF TaskRows
    <3> QED
      BY <1>1, <2>1, <3>1, EndRow DEF Complete
  <2>2. CASE Retry(w, t)
    <3>1. copy[w][t] + 1 \in 0 .. MaxAttempts /\ copy[w][t] + 1 < MaxAttempts
      BY <1>1, <2>2 DEF Retry
    <3> QED
      BY <1>1, <2>2, <3>1, EndRow DEF Retry
  <2>3. CASE DeadLetter(w, t)
    <3>1. copy[w][t] + 1 = MaxAttempts
      BY <1>1, <1>2, <2>3 DEF DeadLetter
    <3>2. copy[w][t] + 1 \in 0 .. MaxAttempts
      BY <3>1
    <3> QED
      BY <1>1, <2>3, <3>1, <3>2, EndRow DEF DeadLetter
  <2> QED
    BY <2>1, <2>2, <2>3 DEF EndTask
<1>4. /\ held' = [held EXCEPT ![w] = held[w] \ {t}]
      /\ held[w] \ {t} \in SUBSET Tasks /\ stopped[w] \in SUBSET Sources
  BY <1>1 DEF RowInv, TypeOK, Drop
<1>5. CASE Complete(w, t) \/ Retry(w, t)
  <2>1. NextTask(w, held[w] \ {t}, stopped[w]) /\ UNCHANGED <<source, subject, crashes>>
    BY <1>5 DEF Complete, Retry
  <2>2. /\ pc' \in [Workers -> {"idle", "insert", "batch", "count", "down"}]
        /\ stopped' \in [Workers -> SUBSET Sources]
        /\ BatchPc'
    BY <1>1, <1>4, <2>1, NextTaskPc
  <2>3. TypeOK'
    BY <1>3, <2>1, <2>2 DEF RowInv, TypeOK
  <2> QED
    BY <1>3, <2>2, <2>3 DEF RowInv
<1>6. CASE DeadLetter(w, t)
  <2>1. TypeOK'
    BY <1>2, <1>3, <1>6 DEF RowInv, TypeOK, DeadLetter
  <2>2. BatchPc'
    BY <1>2, <1>4, <1>6 DEF RowInv, TypeOK, BatchPc, DeadLetter
  <2> QED
    BY <1>3, <2>1, <2>2 DEF RowInv
<1> QED
  BY <1>5, <1>6 DEF EndTask

LEMMA CountFailuresRow ==
  ASSUME RowInv, astray' \subseteq Tasks, NEW w \in Workers, CountFailures(w)
  PROVE  RowInv'
<1> DEFINE s == subject[w]
           seen == IF FailedInARow(s) >= StopAfter THEN stopped[w] \cup {s} ELSE stopped[w]
<1>1. /\ pc[w] = "count" /\ s \in Sources /\ seen \in SUBSET Sources
      /\ held[w] \in SUBSET Tasks /\ held' = [held EXCEPT ![w] = held[w]]
      /\ NextTask(w, held[w], seen) /\ subject' = [subject EXCEPT ![w] = None]
  BY DEF RowInv, TypeOK, BatchPc, CountFailures
<1>2. /\ pc' \in [Workers -> {"idle", "insert", "batch", "count", "down"}]
      /\ stopped' \in [Workers -> SUBSET Sources]
      /\ BatchPc'
  <2> HIDE DEF seen, s
  <2> QED
    BY <1>1, NextTaskPc
<1>3. source' \in [Sources -> {"active", "manual_recovery"}]
  BY DEF RowInv, TypeOK, CountFailures
<1>4. TypeOK'
  BY <1>2, <1>3 DEF RowInv, TypeOK, CountFailures
<1>5. RowShape' /\ CopyBudget' /\ AttemptBudget'
  BY DEF RowInv, RowShape, CopyBudget, AttemptBudget, IsOpen, CountFailures
<1> QED
  BY <1>2, <1>4, <1>5 DEF RowInv

LEMMA SetActiveRow ==
  ASSUME RowInv, astray' \subseteq Tasks, NEW s \in Sources, SetActive(s)
  PROVE  RowInv'
<1>1. TypeOK' /\ BatchPc'
  BY DEF RowInv, TypeOK, BatchPc, SetActive
<1>2. RowShape' /\ CopyBudget' /\ AttemptBudget'
  BY DEF RowInv, RowShape, CopyBudget, AttemptBudget, IsOpen, SetActive
<1> QED
  BY <1>1, <1>2 DEF RowInv

LEMMA ExpireRow ==
  ASSUME RowInv, astray' \subseteq Tasks, NEW t \in Tasks, Expire(t)
  PROVE  RowInv'
<1> USE DEF Expire
<1>1. task \in [Tasks -> TaskRows] /\ [task[t] EXCEPT !.lease = "expired"] \in TaskRows
  <2>1. task \in [Tasks -> TaskRows]
    BY DEF RowInv, TypeOK
  <2> QED
    BY <2>1 DEF TaskRows
<1>2. task' \in [Tasks -> TaskRows]
  BY <1>1
<1>3. TypeOK' /\ BatchPc'
  BY <1>2 DEF RowInv, TypeOK, BatchPc
<1>4. RowShape' /\ CopyBudget' /\ AttemptBudget'
  BY <1>1 DEF RowInv, RowShape, CopyBudget, AttemptBudget, IsOpen, TaskRows
<1> QED
  BY <1>3, <1>4 DEF RowInv

LEMMA CrashRow ==
  ASSUME RowInv, astray' \subseteq Tasks, NEW w \in Workers, Crash(w)
  PROVE  RowInv'
<1> USE DEF Crash
<1>1. TypeOK'
  BY DEF RowInv, TypeOK
<1>2. BatchPc' /\ CopyBudget'
  BY DEF RowInv, TypeOK, BatchPc, CopyBudget
<1>3. RowShape' /\ AttemptBudget'
  BY DEF RowInv, RowShape, AttemptBudget, IsOpen
<1> QED
  BY <1>1, <1>2, <1>3 DEF RowInv

LEMMA RestartRow ==
  ASSUME RowInv, astray' \subseteq Tasks, NEW w \in Workers, Restart(w)
  PROVE  RowInv'
<1> USE DEF Restart
<1>1. TypeOK' /\ BatchPc'
  BY DEF RowInv, TypeOK, BatchPc
<1>2. RowShape' /\ CopyBudget' /\ AttemptBudget'
  BY DEF RowInv, RowShape, CopyBudget, AttemptBudget, IsOpen
<1> QED
  BY <1>1, <1>2 DEF RowInv

LEMMA RowNext == RowInv /\ [Next]_vars => RowInv'
<1> SUFFICES ASSUME RowInv, [Next]_vars PROVE RowInv'
  OBVIOUS
<1>1. CASE Next
  <2>1. astray' \subseteq Tasks
    BY <1>1 DEF Next
  <2> QED
    BY <1>1, <2>1, CheckDueRow, InsertIncrementalRow, CreateTaskRow, LeaseRow, EndTaskRow,
       CountFailuresRow, SetActiveRow, ExpireRow, CrashRow, RestartRow
       DEF Next, Step, WorkerStep
<1>2. CASE UNCHANGED vars
  BY <1>2 DEF vars, queueVars, RowInv, TypeOK, BatchPc, RowShape, CopyBudget, AttemptBudget, IsOpen
<1> QED
  BY <1>1, <1>2

(* However late a crawler is, the rows keep their shape and nothing is     *)
(* counted past the budget.                                                *)
THEOREM RowsCorrect == Spec => []RowInv
  BY InitRowInv, RowNext, PTL DEF Spec

(* A task that can still be leased has an attempt left, and one that was   *)
(* given up has had them all: also when leases expire under a crawler at   *)
(* work, whose copy of the attempts may be old (_handle_task_failure).     *)
THEOREM BudgetKept == Spec => []AttemptBudget
  BY RowsCorrect, PTL DEF RowInv

-----------------------------------------------------------------------------
(* What a lease is worth.                                                  *)

(* A task goes astray when its lease runs out in somebody's hands, and is  *)
(* astray for as long as it stays in hands.                                *)
LEMMA AstrayStep ==
  ASSUME LeaseInv, Next, NEW t \in Tasks
  PROVE  t \in astray' <=> InHand(t)' /\ (t \in astray \/ task'[t].lease = "expired")
  BY DEF Next

(* The batches, without what is astray.                                    *)
LEMMA SafeBatches ==
  ASSUME LeaseInv, NEW w \in Workers, NEW t \in held[w], t \notin astray
  PROVE  /\ t \in Tasks /\ InHand(t)
         /\ task[t].status = "running" /\ task[t].lease = "live"
         /\ task[t].worker_id = w /\ copy[w][t] = task[t].attempt
         /\ \A v \in Workers : t \in held[v] => v = w
  BY DEF LeaseInv, RowInv, TypeOK, HolderHasLease, OneHolder, InHand

LEMMA SafeAfter ==
  ASSUME LeaseInv, Next, NEW w \in Workers, NEW t \in Tasks, t \in held'[w], t \notin astray'
  PROVE  t \notin astray /\ task'[t].lease # "expired"
  BY AstrayStep DEF InHand

(* Tasks in two batches stay astray.                                       *)
LEMMA OneHolderStep ==
  ASSUME LeaseInv, Next, held' \in [Workers -> SUBSET Tasks],
         \A w \in Workers : held'[w] \subseteq held[w]
  PROVE  OneHolder'
<1> SUFFICES ASSUME NEW v \in Workers, NEW w \in Workers, v # w,
                    NEW t \in held'[v], t \in held'[w]
             PROVE  t \in astray'
  BY DEF OneHolder
<1>1. t \in Tasks /\ t \in astray
  BY DEF LeaseInv, OneHolder
<1> QED
  BY <1>1, AstrayStep DEF InHand

(* A transaction that leaves the batches alone, and the rows in them too   *)
(* unless they go astray.                                                  *)
LEMMA SameBatches ==
  ASSUME LeaseInv, Next, UNCHANGED <<held, copy>>,
         \A w \in Workers : \A t \in held[w] \ astray' : task'[t] = task[t]
  PROVE  HolderHasLease' /\ OneHolder'
<1>1. held \in [Workers -> SUBSET Tasks]
  BY DEF LeaseInv, RowInv, TypeOK
<1>2. OneHolder'
  BY <1>1, OneHolderStep
<1>3. ASSUME NEW w \in Workers, NEW t \in held'[w], t \notin astray'
      PROVE  /\ task'[t].status = "running" /\ task'[t].lease = "live"
             /\ task'[t].worker_id = w /\ copy'[w][t] = task'[t].attempt
  <2>1. t \in Tasks /\ t \in held[w] /\ t \notin astray /\ task'[t] = task[t]
    BY <1>1, <1>3, SafeAfter
  <2> QED
    BY <2>1, SafeBatches
<1> QED
  BY <1>2, <1>3 DEF HolderHasLease

(* No batch holds a task that can be leased, unless it is astray.          *)
LEMMA LeasableIsFree ==
  ASSUME LeaseInv, NEW t \in Tasks, Leasable(t), t \notin astray, NEW w \in Workers
  PROVE  t \notin held[w]
  BY SafeBatches DEF Leasable

LEMMA LeaseLease ==
  ASSUME LeaseInv, Next, NEW w \in Workers, NEW S \in SUBSET Tasks, Lease(w, S)
  PROVE  HolderHasLease' /\ OneHolder'
<1>1. /\ RowInv /\ held \in [Workers -> SUBSET Tasks]
      /\ \A t \in S : Leasable(t)
  BY DEF LeaseInv, RowInv, TypeOK, Lease
<1>2. held'[w] = S /\ \A v \in Workers \ {w} : held'[v] = held[v]
  BY <1>1, LeaseEffect
<1>3. \A v \in Workers : held'[v] \subseteq Tasks
  BY <1>1, <1>2
<1>4. ASSUME NEW v \in Workers, NEW t \in held'[v], t \notin astray'
      PROVE  /\ task'[t].status = "running" /\ task'[t].lease = "live"
             /\ task'[t].worker_id = v
             /\ copy'[v][t] = task'[t].attempt
             /\ \A u \in Workers : t \in held'[u] => u = v
  <2>1. t \in Tasks /\ t \notin astray
    BY <1>3, <1>4, SafeAfter
  <2>2. t \in S => \A u \in Workers : t \notin held[u]
    BY <1>1, <2>1, LeasableIsFree
  <2>3. CASE v = w
    BY <1>1, <1>2, <1>4, <2>2, <2>3, LeaseEffect
  <2>4. CASE v # w
    <3>1. t \in held[v] /\ t \notin S
      BY <1>2, <1>4, <2>2, <2>4
    <3>2. task'[t] = task[t] /\ copy'[v] = copy[v]
      BY <1>1, <2>1, <2>4, <3>1, LeaseEffect
    <3> QED
      BY <1>2, <2>1, <3>1, <3>2, SafeBatches
  <2> QED
    BY <2>3, <2>4
<1> QED
  BY <1>4 DEF HolderHasLease, OneHolder

(* The end of a task takes it from its only holder, unless it is astray.   *)
LEMMA EndTaskLease ==
  ASSUME LeaseInv, Next, NEW w \in Workers, NEW t \in Tasks, EndTask(w, t)
  PROVE  HolderHasLease' /\ OneHolder'
<1>1. /\ held \in [Workers -> SUBSET Tasks]
      /\ copy \in [Workers -> [Tasks -> 0 .. MaxAttempts]]
      /\ task \in [Tasks -> TaskRows]
  BY DEF LeaseInv, RowInv, TypeOK
<1>2. /\ t \in held[w] /\ Drop(w, t)
      /\ \A u \in Tasks \ {t} : task'[u] = task[u]
  BY <1>1 DEF EndTask, Complete, Retry, DeadLetter
<1>3. /\ held' \in [Workers -> SUBSET Tasks]
      /\ \A v \in Workers : held'[v] \subseteq held[v]
      /\ t \notin held'[w]
      /\ \A v \in Workers : \A u \in held'[v] : copy'[v][u] = copy[v][u]
  BY <1>1, <1>2 DEF Drop
<1>4. OneHolder'
  BY <1>3, OneHolderStep
<1>5. ASSUME NEW v \in Workers, NEW u \in held'[v], u \notin astray'
      PROVE  /\ task'[u].status = "running" /\ task'[u].lease = "live"
             /\ task'[u].worker_id = v /\ copy'[v][u] = task'[u].attempt
  <2>1. u \in Tasks /\ u \in held[v] /\ u \notin astray
    BY <1>3, <1>5, SafeAfter
  <2>2. u # t
    BY <1>2, <1>3, <2>1, SafeBatches
  <2> QED
    BY <1>2, <1>3, <2>1, <2>2, SafeBatches
<1> QED
  BY <1>4, <1>5 DEF HolderHasLease

LEMMA CrashLease ==
  ASSUME LeaseInv, Next, NEW w \in Workers, Crash(w)
  PROVE  HolderHasLease' /\ OneHolder'
<1>1. /\ held \in [Workers -> SUBSET Tasks] /\ held' = [held EXCEPT ![w] = {}]
      /\ copy \in [Workers -> [Tasks -> 0 .. MaxAttempts]]
      /\ copy' = [copy EXCEPT ![w] = [t \in Tasks |-> 0]]
      /\ task' = task
  BY DEF Crash, LeaseInv, RowInv, TypeOK
<1>2. /\ held' \in [Workers -> SUBSET Tasks]
      /\ \A v \in Workers : held'[v] \subseteq held[v]
  BY <1>1
<1>3. OneHolder'
  BY <1>2, OneHolderStep
<1>4. ASSUME NEW v \in Workers, NEW u \in held'[v], u \notin astray'
      PROVE  /\ task'[u].status = "running" /\ task'[u].lease = "live"
             /\ task'[u].worker_id = v /\ copy'[v][u] = task'[u].attempt
  <2>1. u \in Tasks /\ u \in held[v] /\ u \notin astray /\ v # w
    BY <1>1, <1>2, <1>4, SafeAfter
  <2> QED
    BY <1>1, <2>1, SafeBatches
<1> QED
  BY <1>3, <1>4 DEF HolderHasLease

LEMMA LeaseNext == LeaseInv /\ [Next]_vars => LeaseInv'
<1> SUFFICES ASSUME LeaseInv, [Next]_vars
             PROVE  HolderHasLease' /\ OneHolder' /\ \A t \in astray' : InHand(t)'
  BY RowNext DEF LeaseInv
<1>1. CASE UNCHANGED vars
  BY <1>1 DEF vars, queueVars, LeaseInv, HolderHasLease, OneHolder, InHand
<1>2. CASE Next
  <2> USE <1>2
  <2>1. \A t \in astray' : InHand(t)'
    BY DEF Next
  <2>2. HolderHasLease' /\ OneHolder'
    <3>1. ASSUME NEW s \in Sources, NEW kind \in BOOLEAN, Insert(s, kind),
                 UNCHANGED <<held, copy>>
          PROVE  HolderHasLease' /\ OneHolder'
      <4>1. PICK u \in Tasks : /\ task[u].status = "unused"
                               /\ \A t \in Tasks \ {u} : task'[t] = task[t]
        BY <3>1 DEF Insert, LeaseInv, RowInv, TypeOK
      <4>2. \A w \in Workers : \A t \in held[w] : t \in Tasks /\ t # u
        BY <4>1 DEF LeaseInv, RowInv, TypeOK, CopyBudget
      <4> QED
        BY <3>1, <4>1, <4>2, SameBatches
    <3>2. CASE \E w \in Workers, s \in Sources : CheckDue(w, s)
      BY <3>2, SameBatches DEF CheckDue
    <3>3. CASE \E w \in Workers, S \in SUBSET Tasks : Lease(w, S)
      BY <3>3, LeaseLease
    <3>4. CASE \E w \in Workers : InsertIncremental(w)
      <4>1. PICK w \in Workers : InsertIncremental(w)
        BY <3>4
      <4>2. subject[w] \in Sources /\ UNCHANGED <<held, copy>>
        BY <4>1 DEF LeaseInv, RowInv, TypeOK, BatchPc, InsertIncremental
      <4>3. CASE Insert(subject[w], TRUE)
        BY <3>1, <4>2, <4>3
      <4>4. CASE UNCHANGED task
        BY <4>2, <4>4, SameBatches
      <4> QED
        BY <4>1, <4>3, <4>4 DEF InsertIncremental
    <3>5. CASE \E w \in Workers, t \in Tasks : EndTask(w, t)
      BY <3>5, EndTaskLease
    <3>6. CASE \E w \in Workers : CountFailures(w)
      BY <3>6, SameBatches DEF CountFailures
    <3>7. CASE \E w \in Workers : Crash(w)
      BY <3>7, CrashLease
    <3>8. CASE \E w \in Workers : Restart(w)
      BY <3>8, SameBatches DEF Restart
    <3>9. CASE \E s \in Sources : CreateTask(s)
      BY <3>1, <3>9 DEF CreateTask
    <3>10. CASE \E s \in Sources : SetActive(s)
      BY <3>10, SameBatches DEF SetActive
    <3>11. CASE \E t \in Tasks : Expire(t)
      <4>1. PICK u \in Tasks : Expire(u)
        BY <3>11
      <4>2. /\ \A t \in Tasks \ {u} : task'[t] = task[t]
            /\ task'[u].lease = "expired" /\ UNCHANGED <<held, copy>>
        BY <4>1 DEF Expire, LeaseInv, RowInv, TypeOK, TaskRows
      <4>3. \A w \in Workers : u \in held[w] => u \in astray'
        BY <4>2, AstrayStep DEF InHand
      <4>4. \A w \in Workers : \A t \in held[w] : t \in Tasks
        BY DEF LeaseInv, RowInv, TypeOK
      <4> QED
        BY <4>2, <4>3, <4>4, SameBatches
    <3> QED
      BY <3>2, <3>3, <3>4, <3>5, <3>6, <3>7, <3>8, <3>9, <3>10, <3>11
         DEF Next, Step, WorkerStep
  <2> QED
    BY <2>1, <2>2
<1> QED
  BY <1>1, <1>2

LEMMA InitLeaseInv == Init => LeaseInv
  BY InitRowInv DEF Init, LeaseInv, HolderHasLease, OneHolder

(* A batch is what its rows say, but for the tasks whose lease has run     *)
(* out on it.                                                              *)
THEOREM LeasesCorrect == Spec => []LeaseInv
  BY InitLeaseInv, LeaseNext, PTL DEF Spec

(* No task is in two batches unless its lease ran out at work:             *)
(* _lease_pending_tasks hands out what waits and what the dead have left   *)
(* to one crawler each.                                                    *)
THEOREM OneHolderKept == Spec => []OneHolder
<1>1. LeaseInv => OneHolder
  BY DEF LeaseInv
<1> QED
  BY <1>1, LeasesCorrect, PTL

(* And only its holder ends a lease of such a task, though _complete_task  *)
(* and _handle_task_failure never look at it: what a late crawler can end  *)
(* are the tasks that are astray.                                          *)
THEOREM LeaseHonouredKept == Spec => LeaseHonoured
<1>1. ASSUME LeaseInv, [Next]_vars, NEW t \in Tasks \ astray
      PROVE  EndedByHolder(t)
  <2> SUFFICES ASSUME task[t].lease = "live", task'[t].lease = "none"
               PROVE  t \in held[task[t].worker_id] /\ t \notin held'[task[t].worker_id]
    BY DEF EndedByHolder
  <2>1. /\ task \in [Tasks -> TaskRows]
        /\ held \in [Workers -> SUBSET Tasks]
    BY <1>1 DEF LeaseInv, RowInv, TypeOK
  <2>2. task[t].status # "unused"
    BY <1>1 DEF LeaseInv, RowInv, RowShape
  <2>3. PICK w \in Workers, u \in Tasks : EndTask(w, u)
    <3>1. task' # task
      OBVIOUS
    <3>2. ASSUME NEW w \in Workers, NEW S \in SUBSET Tasks, Lease(w, S)
          PROVE  FALSE
      BY <1>1, <3>2, LeaseEffect DEF LeaseInv
    <3>3. ASSUME NEW s \in Sources, NEW kind \in BOOLEAN, Insert(s, kind)
          PROVE  FALSE
      BY <2>1, <2>2, <3>3 DEF Insert
    <3>4. ASSUME NEW u \in Tasks, Expire(u)
          PROVE  FALSE
      BY <2>1, <3>4 DEF Expire, TaskRows
    <3>5. ASSUME NEW w \in Workers, InsertIncremental(w)
          PROVE  FALSE
      <4>1. subject[w] \in Sources
        BY <1>1, <3>5 DEF LeaseInv, RowInv, TypeOK, BatchPc, InsertIncremental
      <4> QED
        BY <3>1, <3>3, <3>5, <4>1 DEF InsertIncremental
    <3> QED
      BY <1>1, <3>1, <3>2, <3>3, <3>4, <3>5
         DEF Next, Step, WorkerStep, CheckDue, CreateTask, CountFailures, SetActive,
             Crash, Restart, vars, queueVars
  <2>4. /\ u \in held[w] /\ Drop(w, u)
        /\ \A r \in Tasks \ {u} : task'[r] = task[r]
    BY <2>1, <2>3 DEF EndTask, Complete, Retry, DeadLetter
  <2>5. u = t
    BY <2>4
  <2>6. task[t].worker_id = w
    BY <1>1, <2>4, <2>5, SafeBatches
  <2> QED
    BY <2>1, <2>4, <2>5, <2>6 DEF Drop
<1>2. LeaseInv /\ [Next]_vars => [\A t \in Tasks \ astray : EndedByHolder(t)]_vars
  BY <1>1
<1> QED
  BY <1>2, LeasesCorrect, PTL DEF Spec, LeaseHonoured

-----------------------------------------------------------------------------
(* Every write brings a task nearer to its end.                            *)

(* A step that neither writes a task nor moves it in or out of a batch,    *)
(* and no crash, leaves what is left to be written.                        *)
LEMMA WritesSame ==
  ASSUME NEW t \in Tasks, task'[t] = task[t], crashes' = crashes,
         InHand(t)' <=> InHand(t)
  PROVE  WritesLeft(t)' = WritesLeft(t)
<1>1. Stage(t)' = Stage(t)
  BY DEF Stage
<1> QED
  BY <1>1 DEF WritesLeft

(* An end, a step within a round, or a new round for an attempt or a crash. *)
LEMMA WritesFewer ==
  ASSUME LeaseInv, LeaseInv', NEW t \in Tasks,
         task[t].status \notin {"done", "failed"},
         \/ task'[t].status \in {"done", "failed"}
         \/ /\ task'[t].attempt = task[t].attempt /\ crashes' = crashes
            /\ Stage(t)' < Stage(t)
         \/ /\ task'[t].attempt = task[t].attempt + 1 /\ crashes' = crashes
            /\ Stage(t)' <= Stage(t) + 2
         \/ /\ task'[t].attempt = task[t].attempt /\ crashes' = crashes + 1
            /\ Stage(t)' <= Stage(t) + 2
  PROVE  WritesLeft(t)' < WritesLeft(t)
<1>1. /\ task[t].attempt \in 0 .. MaxAttempts /\ task'[t].attempt \in 0 .. MaxAttempts
      /\ crashes \in 0 .. MaxCrashes /\ crashes' \in 0 .. MaxCrashes
  BY DEF LeaseInv, RowInv, TypeOK, TaskRows
<1>2. Stage(t) \in 1 .. 4 /\ Stage(t)' \in 1 .. 4
  BY DEF Stage
<1>3. WritesLeft(t) = 3 * ((MaxAttempts - task[t].attempt) + (MaxCrashes - crashes)) + Stage(t)
  BY DEF WritesLeft
<1>4. CASE task'[t].status \in {"done", "failed"}
  <2>1. WritesLeft(t)' = 0
    BY <1>4 DEF WritesLeft
  <2> QED
    BY <1>1, <1>2, <1>3, <2>1
<1>5. CASE task'[t].status \notin {"done", "failed"}
  <2>1. WritesLeft(t)' = 3 * ((MaxAttempts - task'[t].attempt) + (MaxCrashes - crashes'))
                           + Stage(t)'
    BY <1>5 DEF WritesLeft
  <2> HIDE DEF Stage
  <2> QED
    BY <1>1, <1>2, <1>3, <1>5, <2>1
<1> QED
  BY <1>4, <1>5

LEMMA WritesNumber ==
  ASSUME LeaseInv, NEW t \in Tasks
  PROVE  WritesLeft(t) \in Nat
<1>1. task[t].attempt \in 0 .. MaxAttempts /\ crashes \in 0 .. MaxCrashes
  BY DEF LeaseInv, RowInv, TypeOK, TaskRows
<1>2. Stage(t) \in 1 .. 4
  BY DEF Stage
<1> QED
  BY <1>1, <1>2 DEF WritesLeft

(* A crawler that dies costs each of its tasks a round of its crash.       *)
LEMMA CrashCounts ==
  ASSUME LeaseInv, LeaseInv', NEW t \in Tasks \ astray, NEW w \in Workers, Crash(w)
  PROVE  WritesLeft(t)' <= WritesLeft(t) /\ task'[t] = task[t]
<1>1. /\ task' = task /\ crashes' = crashes + 1
      /\ held' = [held EXCEPT ![w] = {}]
      /\ held \in [Workers -> SUBSET Tasks]
  BY DEF Crash, LeaseInv, RowInv, TypeOK
<1>2. WritesLeft(t) \in Nat
  BY WritesNumber
<1>3. CASE task[t].status \in {"done", "failed"}
  <2>1. WritesLeft(t)' = 0 /\ WritesLeft(t) = 0
    BY <1>1, <1>3 DEF WritesLeft
  <2> QED
    BY <1>1, <2>1
<1>4. CASE task[t].status \notin {"done", "failed"}
  <2>1. Stage(t)' <= Stage(t) + 2
    <3>1. CASE t \in held[w]
      <4>1. task[t].status = "running"
        BY <3>1, SafeBatches
      <4>2. InHand(t) /\ task'[t].status = "running"
        BY <1>1, <3>1, <4>1 DEF InHand
      <4>3. Stage(t) = 1
        BY <4>1, <4>2 DEF Stage
      <4>4. Stage(t)' \in 1 .. 3
        BY <4>2 DEF Stage
      <4> QED
        BY <4>3, <4>4
    <3>2. CASE t \notin held[w]
      <4>1. InHand(t)' <=> InHand(t)
        BY <1>1, <3>2 DEF InHand
      <4>2. Stage(t)' = Stage(t) /\ Stage(t) \in 1 .. 4
        BY <1>1, <4>1 DEF Stage
      <4> QED
        BY <4>2
    <3> QED
      BY <3>1, <3>2
  <2>2. WritesLeft(t)' < WritesLeft(t) /\ WritesLeft(t)' \in Nat
    <3>1. WritesLeft(t)' < WritesLeft(t)
      BY <1>1, <1>4, <2>1, WritesFewer
    <3>2. /\ task[t].attempt \in 0 .. MaxAttempts /\ crashes' \in 0 .. MaxCrashes
          /\ Stage(t)' \in 1 .. 4
      BY DEF LeaseInv, RowInv, TypeOK, TaskRows, Stage
    <3>3. WritesLeft(t)' \in Nat
      BY <1>1, <1>4, <3>2 DEF WritesLeft
    <3> QED
      BY <3>1, <3>3
  <2> QED
    BY <1>1, <1>2, <2>2
<1> QED
  BY <1>3, <1>4

(* A step of the queue, as a task that neither is astray nor goes astray   *)
(* sees it.                                                                *)
LEMMA WritesStep ==
  ASSUME LeaseInv, LeaseInv', [Next]_vars, NEW t \in Tasks \ (astray \cup astray')
  PROVE  \/ WritesLeft(t)' < WritesLeft(t)
         \/ WritesLeft(t)' <= WritesLeft(t) /\ task'[t] = task[t]
<1> DEFINE Unseen == /\ task'[t] = task[t] /\ crashes' = crashes
                     /\ InHand(t)' <=> InHand(t)
<1>1. /\ task \in [Tasks -> TaskRows] /\ task[t] \in TaskRows
      /\ held \in [Workers -> SUBSET Tasks]
  BY DEF LeaseInv, RowInv, TypeOK
<1>2. ASSUME Unseen
      PROVE  WritesLeft(t)' <= WritesLeft(t) /\ task'[t] = task[t]
  <2>1. WritesLeft(t)' = WritesLeft(t) /\ WritesLeft(t) \in Nat
    BY <1>2, WritesSame, WritesNumber
  <2> QED
    BY <1>2, <2>1
<1>3. ASSUME NEW s \in Sources, NEW kind \in BOOLEAN, Insert(s, kind),
             held' = held, crashes' = crashes
      PROVE  WritesLeft(t)' < WritesLeft(t) \/ Unseen
  <2>1. PICK u \in Tasks :
          /\ task[u].status = "unused"
          /\ task' = [task EXCEPT ![u] =
                 [status |-> "pending", source |-> s, incremental |-> kind,
                  lease |-> "none", worker_id |-> None, attempt |-> 0]]
    BY <1>3 DEF Insert
  <2>2. CASE u = t
    <3>1. /\ task[t].status = "unused" /\ task[t].attempt = 0
          /\ task'[t].status = "pending" /\ task'[t].attempt = 0
      BY <1>1, <2>1, <2>2 DEF LeaseInv, RowInv, RowShape
    <3>2. Stage(t) = 4 /\ Stage(t)' = 2
      BY <3>1 DEF Stage
    <3> QED
      BY <1>3, <3>1, <3>2, WritesFewer
  <2>3. CASE u # t
    BY <1>1, <1>3, <2>1, <2>3 DEF InHand
  <2> QED
    BY <2>2, <2>3
<1>4. CASE \E w \in Workers, S \in SUBSET Tasks : Lease(w, S)
  <2>1. PICK w \in Workers, S \in SUBSET Tasks : Lease(w, S)
    BY <1>4
  <2>2. /\ held' = [held EXCEPT ![w] = S] /\ crashes' = crashes
        /\ held[w] = {} /\ \A u \in S : Leasable(u)
    BY <2>1 DEF Lease, LeaseInv, RowInv, BatchPc
  <2>3. CASE t \in S
    <3>1. \A v \in Workers : t \notin held[v]
      BY <2>2, <2>3, LeasableIsFree
    <3>2. /\ task'[t].status = "running" /\ task'[t].attempt = task[t].attempt
          /\ t \in held'[w]
      BY <1>1, <2>1, <2>2, <2>3, LeaseEffect DEF LeaseInv
    <3>3. Stage(t)' = 1
      <4>1. InHand(t)'
        BY <3>2 DEF InHand
      <4> QED
        BY <3>2, <4>1 DEF Stage
    <3>4. Stage(t) = 2
      BY <2>2, <2>3, <3>1 DEF Stage, InHand, Leasable
    <3> QED
      BY <2>2, <2>3, <3>2, <3>3, <3>4, WritesFewer DEF Leasable
  <2>4. CASE t \notin S
    <3>1. task'[t] = task[t]
      BY <2>1, <2>4, LeaseEffect DEF LeaseInv
    <3>2. InHand(t)' <=> InHand(t)
      BY <1>1, <2>2, <2>4 DEF InHand
    <3> QED
      BY <1>2, <2>2, <3>1, <3>2
  <2> QED
    BY <2>3, <2>4
<1>5. CASE \E w \in Workers, u \in Tasks : EndTask(w, u)
  <2>1. PICK w \in Workers, u \in Tasks : EndTask(w, u)
    BY <1>5
  <2>2. /\ u \in held[w] /\ held' = [held EXCEPT ![w] = held[w] \ {u}]
        /\ crashes' = crashes /\ \A r \in Tasks \ {u} : task'[r] = task[r]
    BY <1>1, <2>1 DEF EndTask, Complete, Retry, DeadLetter, Drop
  <2>3. CASE u = t
    <3>1. /\ task[t].status = "running" /\ copy[w][t] = task[t].attempt
          /\ Stage(t) = 1
      BY <2>2, <2>3, SafeBatches DEF Stage
    <3>2. CASE Complete(w, t) \/ DeadLetter(w, t)
      <4>1. task'[t].status \in {"done", "failed"}
        <5>1. CASE Complete(w, t)
          BY <1>1, <5>1 DEF Complete, TaskRows
        <5>2. CASE DeadLetter(w, t)
          <6>1. task'[t] = [task[t] EXCEPT !.status = "failed", !.lease = "none",
                                           !.attempt = copy[w][t] + 1]
            BY <1>1, <5>2 DEF DeadLetter
          <6> QED
            BY <1>1, <6>1 DEF TaskRows
        <5> QED
          BY <3>2, <5>1, <5>2
      <4> QED
        BY <3>1, <4>1, WritesFewer
    <3>3. CASE Retry(w, t)
      <4>1. task'[t] = [task[t] EXCEPT !.status = "pending", !.lease = "none",
                                       !.attempt = copy[w][t] + 1]
        BY <1>1, <3>3 DEF Retry
      <4>2. task'[t].status = "pending" /\ task'[t].attempt = task[t].attempt + 1
        BY <1>1, <3>1, <4>1 DEF TaskRows
      <4>3. Stage(t)' = 2
        BY <4>2 DEF Stage
      <4> QED
        BY <2>2, <3>1, <4>2, <4>3, WritesFewer
    <3> QED
      BY <2>1, <2>3, <3>2, <3>3 DEF EndTask
  <2>4. CASE u # t
    <3>1. InHand(t)' <=> InHand(t)
      BY <1>1, <2>2, <2>4 DEF InHand
    <3> QED
      BY <1>2, <2>2, <2>4, <3>1
  <2> QED
    BY <2>3, <2>4
<1>6. CASE \E w \in Workers : InsertIncremental(w)
  <2>1. PICK w \in Workers : InsertIncremental(w)
    BY <1>6
  <2>2. subject[w] \in Sources /\ held' = held /\ crashes' = crashes
    BY <2>1 DEF LeaseInv, RowInv, TypeOK, BatchPc, InsertIncremental
  <2>3. CASE Insert(subject[w], TRUE)
    BY <1>2, <1>3, <2>2, <2>3
  <2>4. CASE UNCHANGED task
    BY <1>2, <2>2, <2>4 DEF InHand
  <2> QED
    BY <2>1, <2>3, <2>4 DEF InsertIncremental
<1>7. CASE \E s \in Sources : CreateTask(s)
  BY <1>2, <1>3, <1>7 DEF CreateTask
<1>8. CASE \E w \in Workers : Crash(w)
  BY <1>8, CrashCounts
<1>9. CASE \E u \in Tasks : Expire(u)
  <2>1. PICK u \in Tasks : Expire(u)
    BY <1>9
  <2>2. /\ task[u].status = "running" /\ task[u].lease = "live"
        /\ task' = [task EXCEPT ![u] = [task[u] EXCEPT !.lease = "expired"]]
        /\ held' = held /\ crashes' = crashes
    BY <2>1 DEF Expire
  <2>3. CASE u = t
    <3>1. /\ task'[t].status = "running" /\ task'[t].lease = "expired"
          /\ task'[t].attempt = task[t].attempt
      BY <1>1, <2>2, <2>3 DEF TaskRows
    <3>2. ~InHand(t)
      <4>1. Next
        BY <2>2, <2>3, <3>1 DEF vars, queueVars
      <4>2. InHand(t)' <=> InHand(t)
        BY <2>2 DEF InHand
      <4> QED
        BY <3>1, <4>1, <4>2, AstrayStep
    <3>3. Stage(t) = 3 /\ Stage(t)' = 2
      BY <2>2, <2>3, <3>1, <3>2 DEF Stage, InHand
    <3> QED
      BY <2>2, <2>3, <3>1, <3>3, WritesFewer
  <2>4. CASE u # t
    BY <1>1, <1>2, <2>2, <2>4 DEF InHand
  <2> QED
    BY <2>3, <2>4
<1>10. CASE \/ \E w \in Workers : Restart(w) \/ CountFailures(w)
            \/ \E w \in Workers, s \in Sources : CheckDue(w, s)
            \/ \E s \in Sources : SetActive(s)
            \/ UNCHANGED vars
  <2>1. task' = task /\ held' = held /\ crashes' = crashes
    BY <1>10 DEF Restart, CountFailures, CheckDue, SetActive, vars, queueVars
  <2> QED
    BY <1>2, <2>1 DEF InHand
<1> QED
  BY <1>4, <1>5, <1>6, <1>7, <1>8, <1>9, <1>10 DEF Next, Step, WorkerStep

(* The core of TasksSettle: the row of a task that does not go astray is   *)
(* written at most WritesLeft times, so that only a crawler or a clock     *)
(* that stands still keeps it from its end, and never a round of retries,  *)
(* expiries and takeovers.                                                 *)
THEOREM WritesAreCounted == Spec => EveryWriteCounts
<1>1. LeaseInv /\ LeaseInv' /\ [Next]_vars =>
        \A t \in Tasks \ (astray \cup astray') :
            /\ WritesLeft(t)' <= WritesLeft(t)
            /\ task'[t] # task[t] => WritesLeft(t)' < WritesLeft(t)
  <2> SUFFICES ASSUME LeaseInv, LeaseInv', [Next]_vars,
                      NEW t \in Tasks \ (astray \cup astray')
               PROVE  /\ WritesLeft(t)' <= WritesLeft(t)
                      /\ task'[t] # task[t] => WritesLeft(t)' < WritesLeft(t)
    OBVIOUS
  <2>1. WritesLeft(t) \in Nat /\ WritesLeft(t)' \in Nat
    <3>1. task'[t].attempt \in 0 .. MaxAttempts /\ crashes' \in 0 .. MaxCrashes
      BY DEF LeaseInv, RowInv, TypeOK, TaskRows
    <3>2. Stage(t)' \in 1 .. 4
      BY DEF Stage
    <3>3. WritesLeft(t)' \in Nat
      BY <3>1, <3>2 DEF WritesLeft
    <3> QED
      BY <3>3, WritesNumber
  <2> QED
    BY <2>1, WritesStep
<1> QED
  BY <1>1, LeasesCorrect, PTL DEF Spec, EveryWriteCounts

-----------------------------------------------------------------------------
(* The queue implements TaskLedger.                                        *)

Batches == [Workers -> SUBSET Tasks]
Alone(batches, t) == \A v, w \in Workers : t \in batches[v] /\ t \in batches[w] => v = w

(* The holder the mapping reads off the batches, if there is one at most.  *)
LEMMA HolderRead ==
  ASSUME NEW batches \in Batches, NEW t \in Tasks, Alone(batches, t)
  PROVE  /\ HolderIn(batches, t) \in Workers \cup {None}
         /\ \A w \in Workers : HolderIn(batches, t) = w <=> t \in batches[w]
<1>1. CASE \E w \in Workers : t \in batches[w]
  <2>1. HolderIn(batches, t) = CHOOSE w \in Workers : t \in batches[w]
    BY <1>1 DEF HolderIn
  <2>2. HolderIn(batches, t) \in Workers /\ t \in batches[HolderIn(batches, t)]
    BY <1>1, <2>1
  <2> QED
    BY <2>2 DEF Alone
<1>2. CASE ~\E w \in Workers : t \in batches[w]
  BY <1>2 DEF HolderIn
<1> QED
  BY <1>1, <1>2

(* Batches that hold a task alike read alike.                              *)
LEMMA HolderSame ==
  ASSUME NEW before \in Batches, NEW after \in Batches, NEW t \in Tasks,
         Alone(before, t), \A w \in Workers : t \in after[w] <=> t \in before[w]
  PROVE  HolderIn(after, t) = HolderIn(before, t)
<1>1. Alone(after, t)
  BY DEF Alone
<1> QED
  BY <1>1, HolderRead

(* The phase of a task is read off its status.                             *)
LEMMA PhaseRead ==
  /\ PhaseOf("unused") = "new" /\ PhaseOf("pending") = "waiting"
  /\ PhaseOf("running") = "taken" /\ PhaseOf("done") = "done" /\ PhaseOf("failed") = "dead"
  BY DEF PhaseOf

phaseBar == [t \in Tasks |-> LedgerPhase(t)]
failuresBar == [t \in Tasks |-> LedgerFailures(t)]
holderBar == [t \in Tasks |-> LedgerHolder(t)]

(* The state the lemmas about steps work with.                             *)
LEMMA LeaseInvBatches ==
  ASSUME LeaseInv
  PROVE  /\ held \in Batches /\ task \in [Tasks -> TaskRows] /\ astray \subseteq Tasks
         /\ \A t \in Tasks \ astray : Alone(held, t)
         /\ \A t \in astray : InHand(t)
  BY DEF LeaseInv, RowInv, TypeOK, OneHolder, Batches, Alone

(* A task astray has no holder in the ledger.                              *)
LEMMA AstrayRead ==
  ASSUME NEW t \in astray
  PROVE  LedgerPhase(t) = "astray" /\ LedgerFailures(t) = 0 /\ LedgerHolder(t) = None
  BY DEF LedgerPhase, LedgerFailures, LedgerHolder

(* As long as it stays astray it is the same to the ledger; when it comes  *)
(* back, its row has kept to the budget.                                   *)
LEMMA AstrayAfter ==
  ASSUME LeaseInv, LeaseInv', NEW t \in astray, task'[t].status # "unused"
  PROVE  /\ \/ LedgerPhase(t)' = LedgerPhase(t) /\ LedgerFailures(t)' = LedgerFailures(t)
            \/ /\ LedgerPhase(t)' = "done"
            \/ /\ LedgerPhase(t)' = "dead" /\ LedgerFailures(t)' = MaxAttempts
            \/ /\ LedgerPhase(t)' \in {"waiting", "taken"}
               /\ LedgerFailures(t)' < MaxAttempts
<1>1. CASE t \in astray'
  BY <1>1, AstrayRead DEF LedgerPhase, LedgerFailures
<1>2. CASE t \notin astray'
  <2>1. /\ t \in Tasks /\ task'[t] \in TaskRows
        /\ LedgerPhase(t)' = PhaseOf(task'[t].status)
        /\ LedgerFailures(t)' = task'[t].attempt
    BY <1>2 DEF LedgerPhase, LedgerFailures, LeaseInv, RowInv, TypeOK
  <2>2. /\ task'[t].status \in {"pending", "running"} => task'[t].attempt < MaxAttempts
        /\ task'[t].status = "failed" => task'[t].attempt = MaxAttempts
    BY <2>1 DEF LeaseInv, RowInv, AttemptBudget, IsOpen
  <2>3. task'[t].status \in {"pending", "running", "done", "failed"}
    BY <2>1 DEF TaskRows, Statuses
  <2> QED
    BY <2>1, <2>2, <2>3, PhaseRead
<1> QED
  BY <1>1, <1>2

(* No task goes astray or comes back in a step that leaves the batches     *)
(* alone and lets no lease in them run out.                                *)
LEMMA AstraySame ==
  ASSUME LeaseInv, Next, held' = held,
         \A w \in Workers : \A t \in held[w] \ astray : task'[t].lease = task[t].lease
  PROVE  astray' = astray
<1>1. ASSUME NEW t \in Tasks PROVE t \in astray' <=> t \in astray
  <2>1. InHand(t)' <=> InHand(t)
    BY DEF InHand
  <2>2. t \in astray => InHand(t)
    BY LeaseInvBatches
  <2>3. InHand(t) /\ t \notin astray => task'[t].lease = "live"
    BY SafeBatches DEF InHand
  <2> QED
    BY <2>1, <2>2, <2>3, AstrayStep
<1>2. astray \subseteq Tasks /\ astray' \subseteq Tasks
  BY LeaseInvBatches DEF Next
<1> QED
  BY <1>1, <1>2

(* What leaves the rows' status, attempt and lease and the batches alone   *)
(* is a stutter of the ledger.                                             *)
LEMMA LedgerStutter ==
  ASSUME held' = held, astray' = astray,
         \A t \in Tasks : task'[t].status = task[t].status /\ task'[t].attempt = task[t].attempt
  PROVE  UNCHANGED <<phaseBar, failuresBar, holderBar>>
  BY DEF phaseBar, failuresBar, holderBar, LedgerPhase, LedgerFailures, LedgerHolder

LEMMA SameRows ==
  ASSUME LeaseInv, Next, held' = held, task' = task
  PROVE  UNCHANGED <<phaseBar, failuresBar, holderBar>>
  BY AstraySame, LedgerStutter

LEMMA InsertCreates ==
  ASSUME LeaseInv, Next, NEW s \in Sources, NEW kind \in BOOLEAN, Insert(s, kind), held' = held
  PROVE  \E t \in Tasks : Ledger!Create(t)
<1>1. PICK t \in Tasks :
        /\ task[t].status = "unused"
        /\ task' = [task EXCEPT ![t] =
               [status |-> "pending", source |-> s, incremental |-> kind,
                lease |-> "none", worker_id |-> None, attempt |-> 0]]
  BY DEF Insert
<1>2. task \in [Tasks -> TaskRows] /\ task[t].attempt = 0
  BY <1>1 DEF LeaseInv, RowInv, TypeOK, RowShape
<1>3. /\ task'[t].status = "pending" /\ task'[t].attempt = 0
      /\ \A u \in Tasks \ {t} : task'[u] = task[u]
  BY <1>1, <1>2
<1>4. \A w \in Workers : \A u \in held[w] : u # t /\ u \in Tasks
  BY <1>1 DEF LeaseInv, RowInv, CopyBudget, TypeOK
<1>5. astray' = astray /\ t \notin astray
  <2>1. \A w \in Workers : \A u \in held[w] \ astray : task'[u].lease = task[u].lease
    BY <1>3, <1>4
  <2> QED
    BY <1>4, <2>1, AstraySame, LeaseInvBatches DEF InHand
<1>6. phaseBar[t] = "new" /\ phaseBar' = [phaseBar EXCEPT ![t] = "waiting"]
  <2>1. phaseBar[t] = "new" /\ phaseBar'[t] = "waiting"
    BY <1>1, <1>3, <1>5, PhaseRead DEF phaseBar, LedgerPhase
  <2>2. \A u \in Tasks \ {t} : phaseBar'[u] = phaseBar[u]
    BY <1>3, <1>5 DEF phaseBar, LedgerPhase
  <2> QED
    BY <2>1, <2>2 DEF phaseBar
<1>7. UNCHANGED <<failuresBar, holderBar>>
  BY <1>2, <1>3, <1>5 DEF failuresBar, holderBar, LedgerFailures, LedgerHolder
<1> QED
  BY <1>6, <1>7 DEF Ledger!Create, phaseBar, failuresBar, holderBar

LEMMA LeaseTakes ==
  ASSUME LeaseInv, LeaseInv', Next, NEW w \in Workers, NEW S \in SUBSET Tasks, Lease(w, S)
  PROVE  Ledger!Take(w, S \ astray)
<1>1. /\ RowInv /\ held \in Batches /\ held' \in Batches
      /\ task \in [Tasks -> TaskRows] /\ astray \subseteq Tasks /\ astray' \subseteq Tasks
      /\ \A t \in Tasks \ astray : Alone(held, t)
      /\ \A t \in Tasks \ astray' : Alone(held', t)
  BY LeaseInvBatches DEF LeaseInv, RowInv, TypeOK, OneHolder, Batches, Alone
<1>2. /\ \A t \in S : Leasable(t)
      /\ held[w] = {} /\ held' = [held EXCEPT ![w] = S]
  BY DEF Lease, LeaseInv, RowInv, BatchPc
<1>3. astray' = astray
  <2>1. ASSUME NEW t \in S PROVE t \in astray' <=> t \in astray
    <3>1. InHand(t)' /\ task'[t].lease = "live"
      BY <1>1, <1>2, LeaseEffect DEF InHand, Batches
    <3> QED
      BY <3>1, AstrayStep
  <2>2. ASSUME NEW t \in Tasks \ S PROVE t \in astray' <=> t \in astray
    <3>1. task'[t] = task[t]
      BY <1>1, LeaseEffect
    <3>2. InHand(t)' <=> InHand(t)
      BY <1>1, <1>2 DEF InHand, Batches
    <3>3. t \in astray => InHand(t)
      BY LeaseInvBatches
    <3>4. InHand(t) /\ t \notin astray => task[t].lease = "live"
      BY SafeBatches DEF InHand
    <3> QED
      BY <3>1, <3>2, <3>3, <3>4, AstrayStep
  <2> QED
    BY <1>1, <2>1, <2>2
<1>4. ASSUME NEW t \in S \ astray
      PROVE  phaseBar[t] = "waiting" \/ (phaseBar[t] = "taken" /\ holderBar[t] = None)
  <2>1. \A v \in Workers : t \notin held[v]
    BY <1>2, LeasableIsFree
  <2>2. HolderIn(held, t) = None
    BY <1>1, <2>1, HolderRead
  <2>3. task[t].status \in {"pending", "running"}
    BY <1>2 DEF Leasable
  <2> QED
    BY <2>2, <2>3, PhaseRead DEF phaseBar, holderBar, LedgerPhase, LedgerHolder
<1>5. phaseBar' = [t \in Tasks |-> IF t \in S \ astray THEN "taken" ELSE phaseBar[t]]
  <2>1. ASSUME NEW t \in Tasks
        PROVE  LedgerPhase(t)' = IF t \in S \ astray THEN "taken" ELSE LedgerPhase(t)
    <3>1. task'[t] = task[t] \/ (t \in S /\ task'[t].status = "running")
      BY <1>1, LeaseEffect
    <3>2. t \notin S => task'[t] = task[t]
      BY <1>1, LeaseEffect
    <3>3. t \in S => task'[t].status = "running"
      BY <1>1, LeaseEffect
    <3> QED
      BY <1>3, <3>2, <3>3, PhaseRead DEF LedgerPhase
  <2> QED
    BY <2>1 DEF phaseBar
<1>6. holderBar' = [t \in Tasks |-> IF t \in S \ astray THEN w ELSE holderBar[t]]
  <2>1. ASSUME NEW t \in Tasks \ astray
        PROVE  HolderIn(held', t) = IF t \in S THEN w ELSE HolderIn(held, t)
    <3>1. CASE t \in S
      <4>1. t \in held'[w]
        BY <1>1, <1>2, <3>1 DEF Batches
      <4> QED
        BY <1>1, <1>3, <3>1, <4>1, HolderRead
    <3>2. CASE t \notin S
      <4>1. \A v \in Workers : t \in held'[v] <=> t \in held[v]
        BY <1>1, <1>2, <3>2 DEF Batches
      <4> QED
        BY <1>1, <3>2, <4>1, HolderSame
    <3> QED
      BY <3>1, <3>2
  <2>2. \A t \in Tasks : LedgerHolder(t)' = IF t \in S \ astray THEN w ELSE LedgerHolder(t)
    BY <1>3, <2>1 DEF LedgerHolder
  <2> QED
    BY <2>2 DEF holderBar
<1>7. UNCHANGED failuresBar
  BY <1>1, <1>3, LeaseEffect DEF failuresBar, LedgerFailures
<1> QED
  BY <1>4, <1>5, <1>6, <1>7 DEF Ledger!Take, phaseBar, failuresBar, holderBar

(* Tasks the step does not touch.                                          *)
LEMMA OthersSame ==
  ASSUME LeaseInv, LeaseInv', Next, NEW t \in Tasks, task'[t] = task[t],
         \A w \in Workers : t \in held'[w] <=> t \in held[w]
  PROVE  /\ LedgerPhase(t)' = LedgerPhase(t) /\ LedgerFailures(t)' = LedgerFailures(t)
         /\ LedgerHolder(t)' = LedgerHolder(t)
<1>1. InHand(t)' <=> InHand(t)
  BY DEF InHand
<1>2. t \in astray => InHand(t)
  BY LeaseInvBatches
<1>3. InHand(t) /\ t \notin astray => task'[t].lease = "live"
  BY SafeBatches DEF InHand
<1>4. t \in astray' <=> t \in astray
  BY <1>1, <1>2, <1>3, AstrayStep
<1>5. held \in Batches /\ held' \in Batches
  BY LeaseInvBatches DEF LeaseInv, RowInv, TypeOK, Batches
<1>6. t \notin astray => HolderIn(held', t) = HolderIn(held, t)
  BY <1>5, LeaseInvBatches, HolderSame
<1> QED
  BY <1>4, <1>6 DEF LedgerPhase, LedgerFailures, LedgerHolder

(* The phases and counts the ledger reads are of its types.                *)
LedgerTyped ==
    /\ phaseBar \in [Tasks -> {"new", "waiting", "taken", "done", "dead", "astray"}]
    /\ failuresBar \in [Tasks -> 0 .. MaxAttempts]

LEMMA LedgerTypes == LeaseInv => LedgerTyped
<1> SUFFICES ASSUME LeaseInv PROVE LedgerTyped
  OBVIOUS
<1>1. ASSUME NEW t \in Tasks
      PROVE  /\ LedgerPhase(t) \in {"new", "waiting", "taken", "done", "dead", "astray"}
             /\ LedgerFailures(t) \in 0 .. MaxAttempts
  <2>1. task[t].status \in Statuses /\ task[t].attempt \in 0 .. MaxAttempts
    BY LeaseInvBatches DEF TaskRows
  <2> QED
    BY <2>1, PhaseRead DEF LedgerPhase, LedgerFailures, Statuses
<1> QED
  BY <1>1 DEF LedgerTyped, phaseBar, failuresBar

LEMMA EndTaskEnds ==
  ASSUME LeaseInv, LeaseInv', Next, NEW w \in Workers, NEW t \in Tasks, EndTask(w, t),
         t \notin astray
  PROVE  Ledger!Finish(t) \/ Ledger!Fail(t)
<1>1. /\ held \in Batches /\ held' \in Batches /\ Alone(held, t)
      /\ task \in [Tasks -> TaskRows] /\ task[t].attempt \in 0 .. MaxAttempts
  BY LeaseInvBatches DEF LeaseInv, RowInv, TypeOK, Batches, TaskRows
<1>2. /\ t \in held[w] /\ held' = [held EXCEPT ![w] = held[w] \ {t}]
      /\ \A u \in Tasks \ {t} : task'[u] = task[u]
  BY <1>1 DEF EndTask, Complete, Retry, DeadLetter, Drop
<1>3. /\ task[t].status = "running" /\ copy[w][t] = task[t].attempt
      /\ copy[w][t] < MaxAttempts
  BY <1>2, SafeBatches DEF LeaseInv, RowInv, CopyBudget
<1>4. /\ \A v \in Workers : t \notin held'[v]
      /\ t \notin astray'
  <2>1. \A v \in Workers : t \notin held'[v]
    BY <1>1, <1>2 DEF Batches, Alone
  <2> QED
    BY <2>1, AstrayStep DEF InHand
<1>5. /\ phaseBar[t] = "taken" /\ holderBar[t] # None
      /\ failuresBar[t] = task[t].attempt
  <2>1. HolderIn(held, t) = w
    BY <1>1, <1>2, HolderRead
  <2> QED
    BY <1>3, <2>1, PhaseRead
       DEF phaseBar, holderBar, failuresBar, LedgerPhase, LedgerHolder, LedgerFailures
<1>6. \A u \in Tasks \ {t} : /\ LedgerPhase(u)' = LedgerPhase(u)
                             /\ LedgerFailures(u)' = LedgerFailures(u)
                             /\ LedgerHolder(u)' = LedgerHolder(u)
  <2>1. \A u \in Tasks \ {t} : \A v \in Workers : u \in held'[v] <=> u \in held[v]
    BY <1>1, <1>2 DEF Batches
  <2> QED
    BY <1>2, <2>1, OthersSame
<1>7. holderBar' = [holderBar EXCEPT ![t] = None]
  <2>1. HolderIn(held', t) = None
    BY <1>4 DEF HolderIn
  <2>2. LedgerHolder(t)' = None
    BY <1>4, <2>1 DEF LedgerHolder
  <2> QED
    BY <1>6, <2>2 DEF holderBar
<1>8. LedgerPhase(t)' = PhaseOf(task'[t].status) /\ LedgerFailures(t)' = task'[t].attempt
  BY <1>4 DEF LedgerPhase, LedgerFailures
<1>9. CASE Complete(w, t)
  <2>1. task'[t].status = "done" /\ task'[t].attempt = task[t].attempt
    BY <1>1, <1>9 DEF Complete, TaskRows
  <2>2. phaseBar' = [phaseBar EXCEPT ![t] = "done"]
    BY <1>6, <1>8, <2>1, PhaseRead DEF phaseBar
  <2>3. \A u \in Tasks : LedgerFailures(u)' = failuresBar[u]
    BY <1>5, <1>6, <1>8, <2>1 DEF failuresBar
  <2>4. UNCHANGED failuresBar
    BY <2>3 DEF failuresBar
  <2> QED
    BY <1>5, <1>7, <2>2, <2>4 DEF Ledger!Finish, phaseBar, failuresBar, holderBar
<1>10. CASE Retry(w, t) \/ DeadLetter(w, t)
  <2>1. /\ task'[t].attempt = task[t].attempt + 1
        /\ task'[t].status = IF task[t].attempt + 1 = MaxAttempts THEN "failed" ELSE "pending"
    <3>1. task[t] \in TaskRows /\ copy[w][t] \in 0 .. MaxAttempts
      BY <1>1, <1>3
    <3>2. CASE Retry(w, t)
      <4>1. copy[w][t] + 1 < MaxAttempts
            /\ task'[t] = [task[t] EXCEPT !.status = "pending", !.lease = "none",
                                          !.attempt = copy[w][t] + 1]
        BY <1>1, <3>2 DEF Retry
      <4> QED
        BY <1>3, <3>1, <4>1 DEF TaskRows
    <3>3. CASE DeadLetter(w, t)
      <4>1. copy[w][t] + 1 >= MaxAttempts
            /\ task'[t] = [task[t] EXCEPT !.status = "failed", !.lease = "none",
                                          !.attempt = copy[w][t] + 1]
        BY <1>1, <3>3 DEF DeadLetter
      <4> QED
        BY <1>3, <3>1, <4>1 DEF TaskRows
    <3> QED
      BY <1>10, <3>2, <3>3
  <2>2. failuresBar' = [failuresBar EXCEPT ![t] = failuresBar[t] + 1]
    BY <1>5, <1>6, <1>8, <2>1 DEF failuresBar
  <2>3. phaseBar' = [phaseBar EXCEPT ![t] =
                       IF failuresBar[t] + 1 = MaxAttempts THEN "dead" ELSE "waiting"]
    BY <1>5, <1>6, <1>8, <2>1, PhaseRead DEF phaseBar
  <2>4. failuresBar[t] < MaxAttempts
    BY <1>3, <1>5
  <2> QED
    BY <1>5, <1>7, <2>2, <2>3, <2>4 DEF Ledger!Fail, phaseBar, failuresBar, holderBar
<1> QED
  BY <1>9, <1>10 DEF EndTask

(* The last worker on a task that is astray brings it back; before that,   *)
(* what the ledger sees of it stays as it is.                              *)
LEMMA EndTaskReturns ==
  ASSUME LeaseInv, LeaseInv', Next, NEW w \in Workers, NEW t \in Tasks, EndTask(w, t),
         t \in astray
  PROVE  Ledger!Return(None)
<1>1. /\ held \in Batches /\ held' \in Batches /\ task \in [Tasks -> TaskRows]
  BY LeaseInvBatches DEF LeaseInv, RowInv, TypeOK, Batches
<1>2. /\ t \in held[w] /\ held' = [held EXCEPT ![w] = held[w] \ {t}]
      /\ \A u \in Tasks \ {t} : task'[u] = task[u]
      /\ task'[t].status # "unused"
  <2>1. /\ t \in held[w] /\ held' = [held EXCEPT ![w] = held[w] \ {t}]
        /\ \A u \in Tasks \ {t} : task'[u] = task[u]
    BY <1>1 DEF EndTask, Complete, Retry, DeadLetter, Drop
  <2>2. \E row \in TaskRows, s \in {"done", "pending", "failed"}, n \in Nat :
          task'[t] = [row EXCEPT !.status = s, !.lease = "none", !.attempt = n]
    <3>1. /\ task[t] \in TaskRows /\ task[t].attempt \in Nat /\ copy[w][t] + 1 \in Nat
      BY <1>1 DEF TaskRows, LeaseInv, RowInv, TypeOK
    <3>2. CASE Complete(w, t)
      <4>1. task'[t] = [task[t] EXCEPT !.status = "done", !.lease = "none",
                                       !.attempt = task[t].attempt]
        BY <1>1, <3>1, <3>2 DEF Complete, TaskRows
      <4> QED
        BY <3>1, <4>1
    <3>3. CASE Retry(w, t)
      <4>1. task'[t] = [task[t] EXCEPT !.status = "pending", !.lease = "none",
                                       !.attempt = copy[w][t] + 1]
        BY <1>1, <3>3 DEF Retry
      <4> QED
        BY <3>1, <4>1
    <3>4. CASE DeadLetter(w, t)
      <4>1. task'[t] = [task[t] EXCEPT !.status = "failed", !.lease = "none",
                                       !.attempt = copy[w][t] + 1]
        BY <1>1, <3>4 DEF DeadLetter
      <4> QED
        BY <3>1, <4>1
    <3> QED
      BY <3>2, <3>3, <3>4 DEF EndTask
  <2>3. task'[t].status # "unused"
    BY <2>2 DEF TaskRows
  <2> QED
    BY <2>1, <2>3
<1>3. \A u \in Tasks \ {t} : /\ LedgerPhase(u)' = LedgerPhase(u)
                             /\ LedgerFailures(u)' = LedgerFailures(u)
                             /\ LedgerHolder(u)' = LedgerHolder(u)
  <2>1. \A u \in Tasks \ {t} : \A v \in Workers : u \in held'[v] <=> u \in held[v]
    BY <1>1, <1>2 DEF Batches
  <2> QED
    BY <1>2, <2>1, OthersSame
<1>4. LedgerHolder(t)' = LedgerHolder(t)
  <2>1. t \notin astray' => \A v \in Workers : t \notin held'[v]
    BY AstrayStep DEF InHand
  <2>2. t \notin astray' => HolderIn(held', t) = None
    BY <2>1 DEF HolderIn
  <2> QED
    BY <2>2, AstrayRead DEF LedgerHolder
<1>5. holderBar' = [u \in Tasks |-> IF holderBar[u] = None THEN None ELSE holderBar[u]]
  BY <1>3, <1>4 DEF holderBar
<1>6. ASSUME NEW u \in Tasks
      PROVE  \/ phaseBar'[u] = phaseBar[u] /\ failuresBar'[u] = failuresBar[u]
             \/ /\ phaseBar[u] = "astray"
                /\ \/ phaseBar'[u] = "done"
                   \/ phaseBar'[u] = "dead" /\ failuresBar'[u] = MaxAttempts
                   \/ phaseBar'[u] \in {"waiting", "taken"} /\ failuresBar'[u] < MaxAttempts
  <2>1. CASE u = t
    BY <1>2, <2>1, AstrayRead, AstrayAfter DEF phaseBar, failuresBar
  <2>2. CASE u # t
    BY <1>3, <2>2 DEF phaseBar, failuresBar
  <2> QED
    BY <2>1, <2>2
<1>7. LedgerTyped'
  BY LedgerTypes, PTL
<1> QED
  BY <1>5, <1>6, <1>7
     DEF Ledger!Return, Ledger!Back, LedgerTyped, phaseBar, failuresBar, holderBar

LEMMA CrashReturns ==
  ASSUME LeaseInv, LeaseInv', Next, NEW w \in Workers, Crash(w)
  PROVE  Ledger!Return(w)
<1>1. /\ held \in Batches /\ held' \in Batches /\ task \in [Tasks -> TaskRows]
      /\ held' = [held EXCEPT ![w] = {}] /\ task' = task
  BY LeaseInvBatches DEF LeaseInv, RowInv, TypeOK, Batches, Crash
<1>2. ASSUME NEW t \in astray
      PROVE  /\ task'[t].status # "unused"
             /\ LedgerHolder(t) = None /\ LedgerHolder(t)' = None
  <2>1. t \in Tasks /\ InHand(t)
    BY LeaseInvBatches
  <2>2. task'[t].status # "unused"
    BY <1>1, <2>1 DEF InHand, LeaseInv, RowInv, CopyBudget
  <2>3. t \notin astray' => \A v \in Workers : t \notin held'[v]
    BY <2>1, AstrayStep DEF InHand
  <2>4. t \notin astray' => HolderIn(held', t) = None
    BY <2>3 DEF HolderIn
  <2> QED
    BY <2>2, <2>4, AstrayRead DEF LedgerHolder
<1>3. ASSUME NEW t \in Tasks \ astray
      PROVE  /\ LedgerPhase(t)' = LedgerPhase(t) /\ LedgerFailures(t)' = LedgerFailures(t)
             /\ LedgerHolder(t)' = IF LedgerHolder(t) = w THEN None ELSE LedgerHolder(t)
  <2>1. CASE t \in held[w]
    <3>1. Alone(held, t)
      BY LeaseInvBatches
    <3>2. \A v \in Workers : t \notin held'[v]
      BY <1>1, <2>1, <3>1 DEF Batches, Alone
    <3>3. t \notin astray' /\ HolderIn(held', t) = None
      BY <3>2, AstrayStep DEF InHand, HolderIn
    <3>4. HolderIn(held, t) = w
      BY <1>1, <2>1, <3>1, HolderRead
    <3> QED
      BY <1>1, <3>3, <3>4 DEF LedgerPhase, LedgerFailures, LedgerHolder
  <2>2. CASE t \notin held[w]
    <3>1. \A v \in Workers : t \in held'[v] <=> t \in held[v]
      BY <1>1, <2>2 DEF Batches
    <3>2. HolderIn(held, t) # w
      BY <1>1, <2>2, LeaseInvBatches, HolderRead
    <3> QED
      BY <1>1, <3>1, <3>2, OthersSame DEF LedgerHolder
  <2> QED
    BY <2>1, <2>2
<1>4. holderBar' = [t \in Tasks |-> IF holderBar[t] = w THEN None ELSE holderBar[t]]
  BY <1>2, <1>3 DEF holderBar
<1>5. ASSUME NEW u \in Tasks
      PROVE  \/ phaseBar'[u] = phaseBar[u] /\ failuresBar'[u] = failuresBar[u]
             \/ /\ phaseBar[u] = "astray"
                /\ \/ phaseBar'[u] = "done"
                   \/ phaseBar'[u] = "dead" /\ failuresBar'[u] = MaxAttempts
                   \/ phaseBar'[u] \in {"waiting", "taken"} /\ failuresBar'[u] < MaxAttempts
  <2>1. CASE u \in astray
    BY <1>2, <2>1, AstrayRead, AstrayAfter DEF phaseBar, failuresBar
  <2>2. CASE u \notin astray
    BY <1>3, <2>2 DEF phaseBar, failuresBar
  <2> QED
    BY <2>1, <2>2
<1>6. LedgerTyped'
  BY LedgerTypes, PTL
<1> QED
  BY <1>4, <1>5, <1>6
     DEF Ledger!Return, Ledger!Back, LedgerTyped, phaseBar, failuresBar, holderBar

(* A lease runs out: in nobody's hands the ledger sees nothing, in         *)
(* somebody's the task goes astray.                                        *)
LEMMA ExpireStrays ==
  ASSUME LeaseInv, LeaseInv', Next, NEW u \in Tasks, Expire(u)
  PROVE  Ledger!Stray(u) \/ UNCHANGED <<phaseBar, failuresBar, holderBar>>
<1>1. /\ held \in Batches /\ held' = held /\ task \in [Tasks -> TaskRows]
      /\ \A t \in Tasks : task'[t].status = task[t].status /\ task'[t].attempt = task[t].attempt
      /\ \A t \in Tasks \ {u} : task'[t] = task[t]
      /\ task[u].status = "running" /\ task'[u].lease = "expired"
  BY LeaseInvBatches DEF Expire, TaskRows
<1>2. CASE InHand(u) /\ u \notin astray
  <2>1. u \in astray'
    BY <1>1, <1>2, AstrayStep DEF InHand
  <2>2. \A t \in Tasks \ {u} : /\ LedgerPhase(t)' = LedgerPhase(t)
                               /\ LedgerFailures(t)' = LedgerFailures(t)
                               /\ LedgerHolder(t)' = LedgerHolder(t)
    BY <1>1, OthersSame
  <2>3. /\ LedgerPhase(u)' = "astray" /\ LedgerFailures(u)' = 0 /\ LedgerHolder(u)' = None
    BY <2>1 DEF LedgerPhase, LedgerFailures, LedgerHolder
  <2>4. phaseBar[u] = "taken" /\ holderBar[u] # None
    <3>1. HolderIn(held, u) # None
      BY <1>1, <1>2, LeaseInvBatches, HolderRead DEF InHand
    <3> QED
      BY <1>1, <1>2, <3>1, PhaseRead DEF phaseBar, holderBar, LedgerPhase, LedgerHolder
  <2>5. /\ phaseBar' = [phaseBar EXCEPT ![u] = "astray"]
        /\ failuresBar' = [failuresBar EXCEPT ![u] = 0]
        /\ holderBar' = [holderBar EXCEPT ![u] = None]
    BY <2>2, <2>3 DEF phaseBar, failuresBar, holderBar
  <2> QED
    BY <2>4, <2>5 DEF Ledger!Stray, phaseBar, failuresBar, holderBar
<1>3. CASE ~(InHand(u) /\ u \notin astray)
  <2>1. \A w \in Workers : \A t \in held[w] \ astray : t \in Tasks /\ t # u
    BY <1>1, <1>3 DEF InHand, Batches
  <2>2. astray' = astray
    BY <1>1, <2>1, AstraySame
  <2> QED
    BY <1>1, <2>2, LedgerStutter
<1> QED
  BY <1>2, <1>3

LEMMA LedgerNext ==
  ASSUME LeaseInv, LeaseInv', [Next]_vars
  PROVE  Ledger!Next \/ UNCHANGED <<phaseBar, failuresBar, holderBar>>
<1>1. CASE UNCHANGED vars
  BY <1>1, LedgerStutter DEF vars, queueVars
<1>2. CASE Next
  <2> USE <1>2
  <2>1. CASE \E w \in Workers, S \in SUBSET Tasks : Lease(w, S)
    <3>1. PICK w \in Workers, S \in SUBSET Tasks : Lease(w, S)
      BY <2>1
    <3>2. Ledger!Take(w, S \ astray)
      BY <3>1, LeaseTakes
    <3> QED
      BY <3>2 DEF Ledger!Next
  <2>2. CASE \E w \in Workers, t \in Tasks : EndTask(w, t)
    BY <2>2, EndTaskEnds, EndTaskReturns DEF Ledger!Next
  <2>3. CASE \E w \in Workers : InsertIncremental(w)
    <3>1. PICK w \in Workers : InsertIncremental(w)
      BY <2>3
    <3>2. subject[w] \in Sources /\ held' = held
      BY <3>1 DEF LeaseInv, RowInv, TypeOK, BatchPc, InsertIncremental
    <3>3. CASE Insert(subject[w], TRUE)
      BY <3>2, <3>3, InsertCreates DEF Ledger!Next
    <3>4. CASE UNCHANGED task
      BY <3>2, <3>4, SameRows
    <3> QED
      BY <3>1, <3>3, <3>4 DEF InsertIncremental
  <2>4. CASE \E s \in Sources : CreateTask(s)
    BY <2>4, InsertCreates DEF CreateTask, Ledger!Next
  <2>5. CASE \E w \in Workers : Crash(w)
    BY <2>5, CrashReturns DEF Ledger!Next
  <2>6. CASE \E t \in Tasks : Expire(t)
    BY <2>6, ExpireStrays DEF Ledger!Next
  <2>7. CASE \E w \in Workers : Restart(w) \/ CountFailures(w)
    BY <2>7, SameRows DEF Restart, CountFailures
  <2>8. CASE \/ \E w \in Workers, s \in Sources : CheckDue(w, s)
             \/ \E s \in Sources : SetActive(s)
    BY <2>8, SameRows DEF CheckDue, SetActive
  <2> QED
    BY <2>1, <2>2, <2>3, <2>4, <2>5, <2>6, <2>7, <2>8 DEF Next, Step, WorkerStep
<1> QED
  BY <1>1, <1>2

(* The queue implements TaskLedger: a task changes hands only over a dead  *)
(* crawler, is ended by its holder alone, and every failure counts once,   *)
(* unless its lease runs out at work; and then it comes back to the        *)
(* ledger, within its attempts, when nobody works on it.                   *)
THEOREM LedgerImplemented == Spec => ImplementsLedger
<1>1. Init => Ledger!Init
  <2> SUFFICES ASSUME Init PROVE Ledger!Init
    OBVIOUS
  <2>1. /\ \A t \in Tasks : task[t].status = "unused" /\ task[t].attempt = 0
        /\ \A t \in Tasks : HolderIn(held, t) = None /\ t \notin astray
    BY DEF Init, HolderIn
  <2> QED
    BY <2>1, PhaseRead DEF Ledger!Init, LedgerPhase, LedgerFailures, LedgerHolder
<1>2. LeaseInv /\ LeaseInv' /\ [Next]_vars => [Ledger!Next]_(Ledger!vars)
  BY LedgerNext DEF Ledger!vars, phaseBar, failuresBar, holderBar
<1> QED
  BY <1>1, <1>2, LeasesCorrect, PTL DEF Spec, ImplementsLedger, Ledger!Spec

-----------------------------------------------------------------------------
(* The ledger of one task, which CampaignRun is composed with.             *)

One(t) == INSTANCE TaskLedger WITH
    Tasks <- {t}, MaxFailures <- MaxAttempts, Nobody <- None,
    phase <- [u \in {t} |-> LedgerPhase(u)],
    failures <- [u \in {t} |-> LedgerFailures(u)],
    holder <- [u \in {t} |-> LedgerHolder(u)]

(* A step of the ledger of all tasks, as one task of it sees it: its own   *)
(* creation, lease or end, its going astray, the return of what was, the   *)
(* death of a crawler, or nothing.                                         *)
LEMMA LedgerSees ==
  ASSUME NEW t \in Tasks, Ledger!Next \/ UNCHANGED <<phaseBar, failuresBar, holderBar>>
  PROVE  LET p == LedgerPhase(t)  f == LedgerFailures(t)  h == LedgerHolder(t)
         IN  \/ p' = p /\ f' = f /\ h' = h
             \/ p = "new" /\ p' = "waiting" /\ f' = f /\ h' = h
             \/ \E w \in Workers : /\ p = "waiting" \/ (p = "taken" /\ h = None)
                                   /\ p' = "taken" /\ h' = w /\ f' = f
             \/ p = "taken" /\ h # None /\ p' = "done" /\ h' = None /\ f' = f
             \/ /\ p = "taken" /\ h # None /\ f < MaxAttempts /\ f' = f + 1
                /\ p' = IF f + 1 = MaxAttempts THEN "dead" ELSE "waiting"
                /\ h' = None
             \/ \E w \in Workers : h' = (IF h = w THEN None ELSE h) /\ p' = p /\ f' = f
             \/ p = "taken" /\ h # None /\ p' = "astray" /\ f' = 0 /\ h' = None
             \/ \E w \in Workers \cup {None} :
                   /\ p' \in {"new", "waiting", "taken", "done", "dead", "astray"}
                   /\ f' \in 0 .. MaxAttempts
                   /\ \/ p' = p /\ f' = f
                      \/ p = "astray" /\ \/ p' = "done"
                                         \/ p' = "dead" /\ f' = MaxAttempts
                                         \/ p' \in {"waiting", "taken"} /\ f' < MaxAttempts
                   /\ h' = IF h = w THEN None ELSE h
<1> DEFINE p == LedgerPhase(t)
           f == LedgerFailures(t)
           h == LedgerHolder(t)
<1>1. /\ phaseBar[t] = p /\ phaseBar'[t] = p'
      /\ failuresBar[t] = f /\ failuresBar'[t] = f'
      /\ holderBar[t] = h /\ holderBar'[t] = h'
  BY DEF phaseBar, failuresBar, holderBar
<1>2. /\ phaseBar = [u \in Tasks |-> LedgerPhase(u)]
      /\ failuresBar = [u \in Tasks |-> LedgerFailures(u)]
      /\ holderBar = [u \in Tasks |-> LedgerHolder(u)]
  BY DEF phaseBar, failuresBar, holderBar
<1>3. DOMAIN phaseBar = Tasks /\ DOMAIN failuresBar = Tasks /\ DOMAIN holderBar = Tasks
  BY <1>2
<1> HIDE DEF p, f, h
<1>4. CASE UNCHANGED <<phaseBar, failuresBar, holderBar>>
  BY <1>1, <1>4 DEF p, f, h
<1>5. CASE \E u \in Tasks : Ledger!Create(u)
  <2>1. PICK u \in Tasks :
          /\ phaseBar[u] = "new" /\ phaseBar' = [phaseBar EXCEPT ![u] = "waiting"]
          /\ failuresBar' = failuresBar /\ holderBar' = holderBar
    BY <1>5 DEF Ledger!Create, phaseBar, failuresBar, holderBar
  <2>2. \/ p' = p /\ f' = f /\ h' = h
        \/ p = "new" /\ p' = "waiting" /\ f' = f /\ h' = h
    BY <1>1, <1>3, <2>1
  <2> QED
    BY <2>2 DEF p, f, h
<1>6. CASE \E w \in Workers, S \in SUBSET Tasks : Ledger!Take(w, S)
  <2>1. PICK w \in Workers, S \in SUBSET Tasks :
          /\ \A u \in S : phaseBar[u] = "waiting" \/ (phaseBar[u] = "taken" /\ holderBar[u] = None)
          /\ phaseBar' = [u \in Tasks |-> IF u \in S THEN "taken" ELSE phaseBar[u]]
          /\ holderBar' = [u \in Tasks |-> IF u \in S THEN w ELSE holderBar[u]]
          /\ failuresBar' = failuresBar
    BY <1>6 DEF Ledger!Take, phaseBar, failuresBar, holderBar
  <2>2. \/ p' = p /\ f' = f /\ h' = h
        \/ /\ p = "waiting" \/ (p = "taken" /\ h = None)
           /\ p' = "taken" /\ h' = w /\ f' = f
    BY <1>1, <2>1
  <2> QED
    BY <2>2 DEF p, f, h
<1>7. CASE \E u \in Tasks : Ledger!Finish(u)
  <2>1. PICK u \in Tasks :
          /\ phaseBar[u] = "taken" /\ holderBar[u] # None
          /\ phaseBar' = [phaseBar EXCEPT ![u] = "done"]
          /\ holderBar' = [holderBar EXCEPT ![u] = None]
          /\ failuresBar' = failuresBar
    BY <1>7 DEF Ledger!Finish, phaseBar, failuresBar, holderBar
  <2>2. \/ p' = p /\ f' = f /\ h' = h
        \/ p = "taken" /\ h # None /\ p' = "done" /\ h' = None /\ f' = f
    BY <1>1, <1>3, <2>1
  <2> QED
    BY <2>2 DEF p, f, h
<1>8. CASE \E u \in Tasks : Ledger!Fail(u)
  <2>1. PICK u \in Tasks :
          /\ phaseBar[u] = "taken" /\ holderBar[u] # None
          /\ failuresBar[u] < MaxAttempts
          /\ failuresBar' = [failuresBar EXCEPT ![u] = failuresBar[u] + 1]
          /\ phaseBar' = [phaseBar EXCEPT ![u] =
                            IF failuresBar[u] + 1 = MaxAttempts THEN "dead" ELSE "waiting"]
          /\ holderBar' = [holderBar EXCEPT ![u] = None]
    BY <1>8 DEF Ledger!Fail, phaseBar, failuresBar, holderBar
  <2>2. \/ p' = p /\ f' = f /\ h' = h
        \/ /\ p = "taken" /\ h # None /\ f < MaxAttempts /\ f' = f + 1
           /\ p' = IF f + 1 = MaxAttempts THEN "dead" ELSE "waiting"
           /\ h' = None
    BY <1>1, <1>3, <2>1
  <2> QED
    BY <2>2 DEF p, f, h
<1>9. CASE \E w \in Workers : Ledger!Abandon(w)
  <2>1. PICK w \in Workers :
          /\ holderBar' = [u \in Tasks |-> IF holderBar[u] = w THEN None ELSE holderBar[u]]
          /\ phaseBar' = phaseBar /\ failuresBar' = failuresBar
    BY <1>9 DEF Ledger!Abandon, phaseBar, failuresBar, holderBar
  <2>2. h' = (IF h = w THEN None ELSE h) /\ p' = p /\ f' = f
    BY <1>1, <2>1
  <2> QED
    BY <2>2 DEF p, f, h
<1>10. CASE \E u \in Tasks : Ledger!Stray(u)
  <2>1. PICK u \in Tasks :
          /\ phaseBar[u] = "taken" /\ holderBar[u] # None
          /\ phaseBar' = [phaseBar EXCEPT ![u] = "astray"]
          /\ failuresBar' = [failuresBar EXCEPT ![u] = 0]
          /\ holderBar' = [holderBar EXCEPT ![u] = None]
    BY <1>10 DEF Ledger!Stray, phaseBar, failuresBar, holderBar
  <2>2. \/ p' = p /\ f' = f /\ h' = h
        \/ p = "taken" /\ h # None /\ p' = "astray" /\ f' = 0 /\ h' = None
    BY <1>1, <1>3, <2>1
  <2> QED
    BY <2>2 DEF p, f, h
<1>11. CASE \E w \in Workers \cup {None} : Ledger!Return(w)
  <2>1. PICK w \in Workers \cup {None} :
          /\ phaseBar' \in [Tasks -> {"new", "waiting", "taken", "done", "dead", "astray"}]
          /\ failuresBar' \in [Tasks -> 0 .. MaxAttempts]
          /\ \A u \in Tasks :
                \/ phaseBar'[u] = phaseBar[u] /\ failuresBar'[u] = failuresBar[u]
                \/ /\ phaseBar[u] = "astray"
                   /\ \/ phaseBar'[u] = "done"
                      \/ phaseBar'[u] = "dead" /\ failuresBar'[u] = MaxAttempts
                      \/ phaseBar'[u] \in {"waiting", "taken"} /\ failuresBar'[u] < MaxAttempts
          /\ holderBar' = [u \in Tasks |-> IF holderBar[u] = w THEN None ELSE holderBar[u]]
    BY <1>11 DEF Ledger!Return, Ledger!Back, phaseBar, failuresBar, holderBar
  <2>2. /\ p' \in {"new", "waiting", "taken", "done", "dead", "astray"}
        /\ f' \in 0 .. MaxAttempts
        /\ \/ p' = p /\ f' = f
           \/ p = "astray" /\ \/ p' = "done"
                              \/ p' = "dead" /\ f' = MaxAttempts
                              \/ p' \in {"waiting", "taken"} /\ f' < MaxAttempts
        /\ h' = IF h = w THEN None ELSE h
    BY <1>1, <2>1
  <2> QED
    BY <2>2 DEF p, f, h
<1> QED
  BY <1>4, <1>5, <1>6, <1>7, <1>8, <1>9, <1>10, <1>11 DEF Ledger!Next

LEMMA OneStep ==
  ASSUME NEW t \in Tasks, LeaseInv, LeaseInv', [Next]_vars
  PROVE  [One(t)!Next]_(One(t)!vars)
<1> DEFINE p == LedgerPhase(t)
           f == LedgerFailures(t)
           h == LedgerHolder(t)
<1> HIDE DEF p, f, h
<1>1. Ledger!Next \/ UNCHANGED <<phaseBar, failuresBar, holderBar>>
  BY LedgerNext
<1>2. CASE p' = p /\ f' = f /\ h' = h
  BY <1>2 DEF One!vars, p, f, h
<1>3. CASE p = "new" /\ p' = "waiting" /\ f' = f /\ h' = h
  <2>1. One(t)!Create(t)
    BY <1>3 DEF One!Create, p, f, h
  <2> QED
    BY <2>1 DEF One!Next
<1>4. CASE \E w \in Workers : /\ p = "waiting" \/ (p = "taken" /\ h = None)
                              /\ p' = "taken" /\ h' = w /\ f' = f
  <2>1. PICK w \in Workers : /\ p = "waiting" \/ (p = "taken" /\ h = None)
                             /\ p' = "taken" /\ h' = w /\ f' = f
    BY <1>4
  <2>2. One(t)!Take(w, {t})
    BY <2>1 DEF One!Take, p, f, h
  <2> QED
    BY <2>2 DEF One!Next
<1>5. CASE p = "taken" /\ h # None /\ p' = "done" /\ h' = None /\ f' = f
  <2>1. One(t)!Finish(t)
    BY <1>5 DEF One!Finish, p, f, h
  <2> QED
    BY <2>1 DEF One!Next
<1>6. CASE /\ p = "taken" /\ h # None /\ f < MaxAttempts /\ f' = f + 1
           /\ p' = IF f + 1 = MaxAttempts THEN "dead" ELSE "waiting"
           /\ h' = None
  <2>1. One(t)!Fail(t)
    BY <1>6 DEF One!Fail, p, f, h
  <2> QED
    BY <2>1 DEF One!Next
<1>7. CASE \E w \in Workers : h' = (IF h = w THEN None ELSE h) /\ p' = p /\ f' = f
  <2>1. PICK w \in Workers : h' = (IF h = w THEN None ELSE h) /\ p' = p /\ f' = f
    BY <1>7
  <2>2. One(t)!Abandon(w)
    BY <2>1 DEF One!Abandon, p, f, h
  <2> QED
    BY <2>2 DEF One!Next
<1>8. CASE p = "taken" /\ h # None /\ p' = "astray" /\ f' = 0 /\ h' = None
  <2>1. One(t)!Stray(t)
    BY <1>8 DEF One!Stray, p, f, h
  <2> QED
    BY <2>1 DEF One!Next
<1>9. CASE \E w \in Workers \cup {None} :
             /\ p' \in {"new", "waiting", "taken", "done", "dead", "astray"}
             /\ f' \in 0 .. MaxAttempts
             /\ \/ p' = p /\ f' = f
                \/ p = "astray" /\ \/ p' = "done"
                                   \/ p' = "dead" /\ f' = MaxAttempts
                                   \/ p' \in {"waiting", "taken"} /\ f' < MaxAttempts
             /\ h' = IF h = w THEN None ELSE h
  <2>1. PICK w \in Workers \cup {None} :
             /\ p' \in {"new", "waiting", "taken", "done", "dead", "astray"}
             /\ f' \in 0 .. MaxAttempts
             /\ \/ p' = p /\ f' = f
                \/ p = "astray" /\ \/ p' = "done"
                                   \/ p' = "dead" /\ f' = MaxAttempts
                                   \/ p' \in {"waiting", "taken"} /\ f' < MaxAttempts
             /\ h' = IF h = w THEN None ELSE h
    BY <1>9
  <2>2. One(t)!Return(w)
    BY <2>1 DEF One!Return, One!Back, p, f, h
  <2> QED
    BY <2>2 DEF One!Next
<1> QED
  BY <1>1, <1>2, <1>3, <1>4, <1>5, <1>6, <1>7, <1>8, <1>9, LedgerSees DEF p, f, h

(* Each task of the queue by itself behaves as the one-task ledger that    *)
(* CampaignRun uses as its Queue: with CampaignUsesLedger, what a campaign *)
(* is proved to do rests on the queue as it is, whatever the crawlers do   *)
(* with the other tasks of their batches.                                  *)
THEOREM EachTaskIsALedger ==
  ASSUME NEW t \in Tasks
  PROVE  Spec => One(t)!Spec
<1>1. Init => One(t)!Init
  <2> SUFFICES ASSUME Init PROVE One(t)!Init
    OBVIOUS
  <2>1. /\ task[t].status = "unused" /\ task[t].attempt = 0
        /\ HolderIn(held, t) = None /\ t \notin astray
    BY DEF Init, HolderIn
  <2> QED
    BY <2>1, PhaseRead DEF One!Init, LedgerPhase, LedgerFailures, LedgerHolder
<1>2. LeaseInv /\ LeaseInv' /\ [Next]_vars => [One(t)!Next]_(One(t)!vars)
  BY OneStep
<1> QED
  BY <1>1, <1>2, LeasesCorrect, PTL DEF Spec, One!Spec

=============================================================================
