------------------------- MODULE OcrSectionsProofs -------------------------
(***************************************************************************)
(* Proofs about OcrSections for every number of sections, retries and      *)
(* every timeout: what is merged is aligned, and MinerU is never given a   *)
(* section twice.                                                          *)
(***************************************************************************)
EXTENDS OcrSections, FiniteSetTheorems, TLAPS

USE SectionsAssumption, RetriesAssumption, TimeoutAssumption, OutagesAssumption

(* Every step keeps the types.                                             *)
THEOREM TypeCorrect == Spec => []TypeOK
<1> USE DEF TypeOK, Attempts, TaskStates, Late, Current
<1>1. Init => TypeOK
  BY DEF Init
<1>2. ASSUME TypeOK, Next PROVE TypeOK'
  <2> USE <1>2
  <2>1. ASSUME EndSection
        PROVE  /\ pc' \in {"submit", "returned"}
               /\ section' \in 1 .. Sections /\ attempt' \in 1 .. Retries + 1
               /\ missing' \in 0 .. Max404 /\ elapsed' \in 0 .. PollMax + 2
               /\ silent' \in 0 .. SweepAfter
    BY <2>1 DEF EndSection
  <2>2. ASSUME PollAgain
        PROVE  /\ pc' = pc /\ section' = section /\ attempt' = attempt
               /\ elapsed' \in 0 .. PollMax + 2
               /\ silent' \in 0 .. SweepAfter
    BY <2>2 DEF PollAgain
  <2>3. CASE Submit
    BY <2>1, <2>3 DEF Submit
  <2>4. CASE PollStatus
    <3>1. UNCHANGED <<up, task, results>>
      BY <2>4 DEF PollStatus
    <3>2. CASE EndSection
      BY <2>1, <3>1, <3>2
    <3>3. CASE PollAgain /\ missing' = 0
      BY <2>2, <3>1, <3>3
    <3>4. CASE pc' = "fetch" /\ missing' = 0 /\ UNCHANGED <<section, attempt, elapsed, silent>>
      BY <3>1, <3>4
    <3> QED
      BY <2>4, <3>2, <3>3, <3>4 DEF PollStatus
  <2>5. CASE Poll404
    <3>1. UNCHANGED <<up, task, results>>
      BY <2>5 DEF Poll404
    <3>2. CASE missing + 1 < Max404 /\ missing' = missing + 1 /\ PollAgain
      BY <2>2, <3>1, <3>2
    <3>3. CASE EndSection
      BY <2>1, <3>1, <3>3
    <3>4. CASE /\ attempt <= Retries /\ pc' = "submit" /\ attempt' = attempt + 1
               /\ missing' = 0 /\ elapsed' = 0 /\ UNCHANGED <<section, silent>>
      BY <3>1, <3>4
    <3> QED
      BY <2>5, <3>2, <3>3, <3>4 DEF Poll404
  <2>6. CASE Fetch
    <3>1. EndSection /\ UNCHANGED <<up, task>>
      BY <2>6 DEF Fetch
    <3>2. results' = results \/ results' = Append(results, section)
      BY <2>6 DEF Fetch
    <3> DEFINE S == 1 .. Sections
    <3>3. results \in Seq(S) /\ section \in S
      OBVIOUS
    <3> HIDE DEF S
    <3>4. results' \in Seq(S)
      BY <3>2, <3>3
    <3> QED
      BY <2>1, <3>1, <3>4 DEF S
  <2>7. CASE PollError
    BY <2>2, <2>7 DEF PollError
  <2>8. CASE \E t \in DOMAIN task : Finish(t)
    BY <2>8 DEF Finish
  <2>9. CASE ServiceRestart \/ GoAway \/ ComeBack
    BY <2>9 DEF ServiceRestart, GoAway, ComeBack
  <2> QED
    BY <2>3, <2>4, <2>5, <2>6, <2>7, <2>8, <2>9 DEF Next, Client
<1>3. TypeOK /\ UNCHANGED vars => TypeOK'
  BY DEF vars
<1> QED
  BY <1>1, <1>2, <1>3, PTL DEF Spec

-----------------------------------------------------------------------------
(* Sections already left, and results: never more results than sections,   *)
(* and as long as there are as many, each stands at its own place.         *)
Left == IF pc = "returned" THEN Sections ELSE section - 1
AlignedInv == /\ Len(results) <= Left
              /\ Len(results) = Left => \A k \in 1 .. Left : results[k] = k

(* A merge that parse_chunked reports as complete pairs every section with *)
(* its own result.                                                         *)
THEOREM Alignment == Spec => []MergeAligned
<1> USE DEF TypeOK, AlignedInv, Left
<1>1. Init => AlignedInv
  BY DEF Init
<1>2. ASSUME TypeOK, AlignedInv, Next PROVE AlignedInv'
  <2> USE <1>2
  <2>1. ASSUME EndSection, pc # "returned", UNCHANGED results
        PROVE  AlignedInv'
    BY <2>1 DEF EndSection
  <2>2. ASSUME EndSection, pc # "returned", results' = Append(results, section)
        PROVE  AlignedInv'
    <3>1. /\ Len(results') = Len(results) + 1
          /\ \A k \in 1 .. Len(results) : results'[k] = results[k]
          /\ results'[Len(results) + 1] = section
      BY <2>2
    <3>2. Left' = Left + 1 /\ Left = section - 1
      BY <2>2 DEF EndSection
    <3> QED
      BY <3>1, <3>2
  <2>3. ASSUME UNCHANGED <<section, results>>, pc # "returned", pc' # "returned"
        PROVE  AlignedInv'
    BY <2>3
  <2>4. CASE Submit
    BY <2>1, <2>3, <2>4 DEF Submit
  <2>5. CASE PollStatus
    BY <2>1, <2>3, <2>5 DEF PollStatus, PollAgain
  <2>6. CASE Poll404
    BY <2>1, <2>3, <2>6 DEF Poll404, PollAgain
  <2>7. CASE Fetch
    BY <2>1, <2>2, <2>7 DEF Fetch
  <2>8. CASE PollError
    BY <2>3, <2>8 DEF PollError, PollAgain
  <2>9. CASE (\E t \in DOMAIN task : Finish(t)) \/ ServiceRestart \/ GoAway \/ ComeBack
    BY <2>9 DEF Finish, ServiceRestart, GoAway, ComeBack
  <2> QED
    BY <2>4, <2>5, <2>6, <2>7, <2>8, <2>9 DEF Next, Client
<1>3. AlignedInv /\ UNCHANGED vars => AlignedInv'
  BY DEF vars
<1>4. TypeOK /\ AlignedInv => MergeAligned
  BY DEF MergeAligned, AllSucceeded
<1> QED
  BY <1>1, <1>2, <1>3, <1>4, TypeCorrect, PTL DEF Spec

-----------------------------------------------------------------------------
(* MinerU works on no task of an earlier attempt, and has not yet been     *)
(* given what is still to be submitted.                                    *)
Ahead(t) == \/ t[1] > section
            \/ t[1] = section /\ (t # Current \/ pc = "submit")
TaskInv == /\ NoDuplicateTask
           /\ \A t \in DOMAIN task : Ahead(t) => task[t] \in {"none", "gone"}

LEMMA TasksInvariant == Spec => []TaskInv
<1> DEFINE Ids == (1 .. Sections) \X Attempts
<1> USE DEF NoDuplicateTask
<1>1. Init => TaskInv
  BY DEF Init, TaskInv
<1>2. ASSUME TypeOK, TaskInv, Next PROVE TaskInv'
  <2> USE <1>2
  <2>1. /\ task \in [Ids -> TaskStates] /\ Current \in Ids
        /\ section \in 1 .. Sections /\ attempt \in Attempts
        /\ Sections \in Nat /\ Retries \in Nat
    BY DEF TypeOK, Current
  <2>2. ASSUME UNCHANGED task, EndSection, pc # "returned" PROVE TaskInv'
    BY <2>1, <2>2 DEF EndSection, TaskInv, Ahead, Current
  <2>3. ASSUME UNCHANGED <<task, section, attempt>>, pc' # "submit" PROVE TaskInv'
    BY <2>1, <2>3 DEF TaskInv, Ahead, Current
  <2>4. CASE Submit
    <3>1. CASE UNCHANGED task
      BY <2>2, <2>4, <3>1 DEF Submit, TaskInv, Ahead, Current
    <3>2. CASE task' = [task EXCEPT ![Current] = "processing"]
      <4>1. /\ pc = "submit"
            /\ \A t \in Ids : t[1] = section => task[t] \in {"none", "gone"}
        BY <2>1, <2>4 DEF Submit, TaskInv, Ahead
      <4>2. NoDuplicateTask'
        BY <2>1, <3>2, <4>1 DEF TaskInv, Current
      <4>3. \A t \in Ids : Ahead(t)' => t # Current /\ Ahead(t)
        BY <2>1, <2>4, <4>1 DEF Submit, EndSection, Ahead, Current
      <4> QED
        BY <2>1, <3>2, <4>2, <4>3 DEF TaskInv
    <3> QED
      BY <2>4, <3>1, <3>2 DEF Submit
  <2>5. CASE PollStatus
    BY <2>2, <2>3, <2>5 DEF PollStatus, PollAgain
  <2>6. CASE Poll404
    <3>1. UNCHANGED task /\ pc = "poll" /\ task[Current] = "gone"
      BY <2>6 DEF Poll404
    <3>2. CASE EndSection
      BY <2>2, <3>1, <3>2
    <3>3. CASE UNCHANGED section
      BY <2>1, <3>1, <3>3 DEF TaskInv, Ahead, Current
    <3> QED
      BY <2>6, <3>2, <3>3 DEF Poll404, PollAgain
  <2>7. CASE Fetch
    BY <2>2, <2>7 DEF Fetch
  <2>8. CASE PollError
    BY <2>3, <2>8 DEF PollError, PollAgain
  <2>9. CASE \E t \in DOMAIN task : Finish(t)
    <3>1. PICK u \in Ids : Finish(u)
      BY <2>1, <2>9
    <3>2. /\ UNCHANGED <<pc, section, attempt>>
          /\ task[u] = "processing"
          /\ task' \in [Ids -> TaskStates]
          /\ \A t \in Ids : task'[t] \in {"none", "gone"} <=> task[t] \in {"none", "gone"}
      BY <2>1, <3>1 DEF Finish, TaskStates
    <3> QED
      BY <2>1, <3>2 DEF TaskInv, Ahead, Current
  <2>10. CASE ServiceRestart
    BY <2>1, <2>10 DEF ServiceRestart, TaskInv, Ahead, Current
  <2>11. CASE GoAway \/ ComeBack
    BY <2>11 DEF GoAway, ComeBack, TaskInv, Ahead, Current
  <2> QED
    BY <2>4, <2>5, <2>6, <2>7, <2>8, <2>9, <2>10, <2>11 DEF Next, Client
<1>3. TaskInv /\ UNCHANGED vars => TaskInv'
  BY DEF vars, TaskInv, Ahead, Current
<1> QED
  BY <1>1, <1>2, <1>3, TypeCorrect, PTL DEF Spec

(* Submitting again is safe: the earlier task is gone.                     *)
THEOREM NoDuplicates == Spec => []NoDuplicateTask
  BY TasksInvariant, PTL DEF TaskInv

-----------------------------------------------------------------------------
(* Submit, poll, fetch and the service, one step of the list or none each. *)
LEMMA ListStep == TypeOK /\ [Next]_vars => [List!Next]_(List!vars)
<1> SUFFICES ASSUME TypeOK, [Next]_vars PROVE [List!Next]_(List!vars)
  OBVIOUS
<1> USE DEF List!vars
<1>1. /\ pc \in {"submit", "poll", "fetch", "returned"}
      /\ section \in 1 .. Sections /\ attempt \in 1 .. Retries + 1
      /\ Sections \in Nat /\ Retries \in Nat
  BY DEF TypeOK, Attempts
<1>2. ASSUME EndSection, pc # "returned", UNCHANGED results PROVE List!Miss
  BY <1>1, <1>2 DEF EndSection, List!Miss, List!Leave
<1>3. ASSUME EndSection, pc = "fetch", results' = Append(results, section) PROVE List!Merge
  BY <1>1, <1>3 DEF EndSection, List!Merge, List!Leave
<1>4. CASE Submit
  <2>1. CASE EndSection
    BY <1>2, <1>4, <2>1 DEF Submit, List!Next
  <2>2. CASE pc' = "poll" /\ UNCHANGED <<section, attempt, results>>
    BY <1>1, <1>4, <2>2 DEF Submit, List!Give, List!Next
  <2> QED
    BY <1>4, <2>1, <2>2 DEF Submit
<1>5. CASE PollStatus
  <2>1. pc = "poll" /\ UNCHANGED results
    BY <1>5 DEF PollStatus
  <2>2. CASE EndSection
    BY <1>2, <2>1, <2>2 DEF List!Next
  <2>3. CASE pc' \in {"poll", "fetch"} /\ UNCHANGED <<section, attempt>>
    BY <2>1, <2>3
  <2> QED
    BY <1>5, <2>1, <2>2, <2>3 DEF PollStatus, PollAgain
<1>6. CASE Poll404
  <2>1. pc = "poll" /\ UNCHANGED results
    BY <1>6 DEF Poll404
  <2>2. CASE EndSection
    BY <1>2, <2>1, <2>2 DEF List!Next
  <2>3. CASE PollAgain
    BY <2>1, <2>3 DEF PollAgain
  <2>4. CASE pc' = "submit" /\ attempt' = attempt + 1 /\ UNCHANGED section
    BY <1>1, <2>1, <2>4
  <2> QED
    BY <1>6, <2>2, <2>3, <2>4 DEF Poll404
<1>7. CASE Fetch
  BY <1>2, <1>3, <1>7 DEF Fetch, List!Next
<1>8. CASE PollError
  BY <1>8 DEF PollError, PollAgain
<1>9. CASE (\E t \in DOMAIN task : Finish(t)) \/ ServiceRestart \/ GoAway \/ ComeBack
  BY <1>9 DEF Finish, ServiceRestart, GoAway, ComeBack
<1>10. CASE UNCHANGED vars
  BY <1>10 DEF vars
<1> QED
  BY <1>4, <1>5, <1>6, <1>7, <1>8, <1>9, <1>10 DEF Next, Client

(* Every section is settled once, in its turn, after Retries + 1 tasks at  *)
(* most, and what is merged is some of the sections in their order.        *)
THEOREM ListImplemented == Spec => ImplementsSectionList
<1>1. Init => List!Init
  BY DEF Init, List!Init
<1> QED
  BY <1>1, ListStep, TypeCorrect, PTL DEF Spec, ImplementsSectionList, List!Spec

(* The results in the order of their sections, all of sections left.       *)
ResultsInOrder ==
    /\ \A j, k \in 1 .. Len(results) : j < k => results[j] < results[k]
    /\ \A k \in 1 .. Len(results) :
         results[k] < IF pc = "returned" THEN Sections + 1 ELSE section

(* No section is merged twice or before an earlier one, whichever of them  *)
(* failed: this follows from the list alone, whatever OcrSections adds.    *)
THEOREM MergedInOrder == Spec => []ResultsInOrder
<1>1. Init => ResultsInOrder
  BY DEF Init, ResultsInOrder
<1>2. ASSUME TypeOK, TypeOK', ResultsInOrder, [List!Next]_(List!vars)
      PROVE  ResultsInOrder'
  <2> DEFINE At == IF pc = "returned" THEN Sections + 1 ELSE section
  <2>1. /\ At \in Nat /\ At' \in Nat
        /\ results \in Seq(Nat) /\ Len(results) \in Nat
        /\ \A k \in 1 .. Len(results) : results[k] \in Nat
    BY <1>2 DEF TypeOK
  <2>2. CASE UNCHANGED <<At, results>>
    BY <1>2, <2>2 DEF ResultsInOrder
  <2>3. CASE At' = At + 1 /\ UNCHANGED results
    BY <1>2, <2>1, <2>3 DEF ResultsInOrder
  <2>4. CASE At' = At + 1 /\ results' = Append(results, At)
    <3>1. /\ Len(results') = Len(results) + 1
          /\ \A k \in 1 .. Len(results) : results'[k] = results[k]
          /\ results'[Len(results) + 1] = At
      BY <2>1, <2>4
    <3>2. \A k \in 1 .. Len(results') : k \in 1 .. Len(results) \/ k = Len(results) + 1
      BY <2>1, <3>1
    <3> QED
      BY <1>2, <2>1, <2>4, <3>1, <3>2 DEF ResultsInOrder
  <2> QED
    BY <1>2, <2>2, <2>3, <2>4
       DEF List!Next, List!vars, List!Give, List!Merge, List!Miss, List!Leave
<1> QED
  BY <1>1, <1>2, ListStep, TypeCorrect, PTL DEF Spec

-----------------------------------------------------------------------------
(* How long a job may be without a heartbeat.                              *)

(* The polls that one attempt can take when all of them are answered:      *)
(* PollMax + 1 while the task is processing, then 404 answers.             *)
AttemptPolls == PollMax + Max404
SilenceBounded == ~Outages => silent <= attempt * AttemptPolls

(* What has passed of an attempt, and before it.  A task that was missing  *)
(* once never answers otherwise.                                           *)
QuietSoFar(n) ==
    /\ missing > 0 => task[Current] = "gone"
    /\ missing < Max404
    /\ pc = "submit" => missing = 0 /\ silent <= n
    /\ pc = "poll" =>
         \/ missing = 0 /\ elapsed <= PollMax + 1 /\ silent <= n + elapsed
         \/ missing > 0 /\ silent <= n + PollMax + 1 + missing
    /\ pc # "submit" => silent <= n + AttemptPolls
    /\ pc = "submit" => elapsed = 0
QuietInv == QuietSoFar((attempt - 1) * AttemptPolls)

LEMMA Product ==
  ASSUME NEW n \in Nat, NEW m \in Nat
  PROVE  n * m \in Nat /\ (n + 1) * m = n * m + m /\ 0 * m = 0 /\ 1 * m = m
  OBVIOUS

LEMMA Monotone ==
  ASSUME NEW n \in Nat, NEW m \in Nat, NEW k \in Nat, n <= k
  PROVE  n * m \in Nat /\ k * m \in Nat /\ n * m <= k * m
  OBVIOUS

(* A step within an attempt; EndSection and a submission start a new one.  *)
LEMMA QuietWithin ==
  ASSUME TypeOK, ~Outages, NEW n \in Nat, QuietSoFar(n), Next
  PROVE  \/ QuietSoFar(n)' /\ UNCHANGED attempt
         \/ EndSection
         \/ /\ pc' = "submit" /\ attempt' = attempt + 1
            /\ missing' = 0 /\ elapsed' = 0
            /\ silent' <= n + AttemptPolls
<1> DEFINE Same == QuietSoFar(n)' /\ UNCHANGED attempt
           Again == /\ pc' = "submit" /\ attempt' = attempt + 1
                    /\ missing' = 0 /\ elapsed' = 0
                    /\ silent' <= n + AttemptPolls
<1>1. /\ PollMax \in Nat /\ Max404 \in Nat \ {0} /\ SweepAfter \in Nat
      /\ missing \in Nat /\ elapsed \in 0 .. PollMax + 2 /\ silent \in 0 .. SweepAfter
      /\ pc \in {"submit", "poll", "fetch", "returned"}
      /\ Current \in DOMAIN task
  BY DEF TypeOK, Late, Current, Attempts
<1>2. CASE Submit
  BY <1>1, <1>2 DEF Submit, QuietSoFar, AttemptPolls, Current
<1>3. CASE PollStatus
  <2>1. /\ pc = "poll" /\ UNCHANGED task
        /\ task[Current] \in {"processing", "completed", "failed"}
    BY <1>3 DEF PollStatus
  <2>2. missing = 0 /\ elapsed <= PollMax + 1 /\ silent <= n + elapsed
    BY <1>1, <2>1 DEF QuietSoFar
  <2>3. CASE pc' = "fetch" /\ missing' = 0 /\ UNCHANGED <<section, attempt, elapsed, silent>>
    BY <1>1, <2>1, <2>2, <2>3 DEF QuietSoFar, AttemptPolls
  <2>4. CASE elapsed <= PollMax /\ missing' = 0 /\ PollAgain
    BY <1>1, <2>1, <2>2, <2>4 DEF PollAgain, QuietSoFar, AttemptPolls, Late
  <2> QED
    BY <1>3, <2>3, <2>4 DEF PollStatus
<1>4. CASE Poll404
  <2>1. pc = "poll" /\ task[Current] = "gone" /\ UNCHANGED task
    BY <1>4 DEF Poll404
  <2>2. CASE missing + 1 < Max404 /\ missing' = missing + 1 /\ PollAgain
    <3>1. UNCHANGED <<pc, section, attempt>> /\ silent' <= silent + 1
      BY <1>1, <2>2 DEF PollAgain
    <3>2. silent <= n + PollMax + 1 + missing
      BY <1>1, <2>1 DEF QuietSoFar
    <3>3. silent' \in Nat
      BY <1>1, <2>2 DEF PollAgain
    <3>4. /\ missing' > 0 /\ missing' < Max404
          /\ silent' <= n + PollMax + 1 + missing'
          /\ silent' <= n + AttemptPolls
      BY <1>1, <2>2, <3>1, <3>2, <3>3 DEF AttemptPolls
    <3> QED
      BY <2>1, <3>1, <3>4 DEF QuietSoFar, Current
  <2>3. CASE /\ pc' = "submit" /\ attempt' = attempt + 1
             /\ missing' = 0 /\ elapsed' = 0 /\ UNCHANGED silent
    BY <1>1, <2>1, <2>3 DEF QuietSoFar
  <2> QED
    BY <1>4, <2>2, <2>3 DEF Poll404
<1>5. CASE Fetch
  BY <1>5 DEF Fetch
<1>6. CASE PollError
  BY <1>6 DEF PollError
<1>7. CASE \E t \in DOMAIN task : Finish(t)
  <2>1. task[Current] = "gone" => task'[Current] = "gone"
    BY <1>1, <1>7 DEF Finish
  <2> QED
    BY <1>7, <2>1 DEF Finish, QuietSoFar, Current
<1>8. CASE ServiceRestart
  <2>1. task[Current] = "gone" => task'[Current] = "gone"
    BY <1>1, <1>8 DEF ServiceRestart
  <2> QED
    BY <1>8, <2>1 DEF ServiceRestart, QuietSoFar, Current
<1>9. CASE GoAway \/ ComeBack
  BY <1>9 DEF GoAway, ComeBack, QuietSoFar, Current
<1> QED
  BY <1>2, <1>3, <1>4, <1>5, <1>6, <1>7, <1>8, <1>9 DEF Next, Client

(* What QuietInv says after a step, with the product evaluated.            *)
LEMMA QuietNext ==
  ASSUME NEW m \in Nat, (attempt' - 1) * AttemptPolls = m, QuietSoFar(m)'
  PROVE  QuietInv'
  BY DEF QuietInv, QuietSoFar

(* With every call answered a job is without a heartbeat for the polls of  *)
(* its attempts at this section at most, whatever MinerU does.             *)
THEOREM SilenceIsBounded == Spec => []SilenceBounded
<1> DEFINE Base(a) == (a - 1) * AttemptPolls
<1>1. AttemptPolls \in Nat
  BY DEF AttemptPolls
<1>2. \A a \in Nat \ {0} : /\ Base(a) \in Nat
                          /\ Base(a + 1) = Base(a) + AttemptPolls
                          /\ a * AttemptPolls = Base(a) + AttemptPolls
  <2> TAKE a \in Nat \ {0}
  <2>1. a - 1 \in Nat /\ (a - 1) + 1 = a /\ (a + 1) - 1 = a
    OBVIOUS
  <2> QED
    BY <1>1, <2>1, Product
<1>3. Base(1) = 0
  BY <1>1, Product
<1> DEFINE Inv == ~Outages => QuietInv
<1>4. Init => Inv
  <2> SUFFICES ASSUME Init PROVE QuietInv
    OBVIOUS
  <2>1. QuietSoFar(0)
    BY <1>1 DEF Init, QuietSoFar
  <2> QED
    BY <2>1, <1>3 DEF QuietInv, Init
<1>5. ASSUME TypeOK, Inv, [Next]_vars PROVE Inv'
  <2> SUFFICES ASSUME ~Outages PROVE QuietInv'
    OBVIOUS
  <2>0. attempt \in Nat \ {0}
    BY <1>5 DEF TypeOK, Attempts
  <2>1. PICK n \in Nat : n = Base(attempt)
    <3>1. Base(attempt) \in Nat
      BY <1>2, <2>0
    <3> HIDE DEF Base
    <3> QED
      BY <3>1
  <2>2. /\ QuietSoFar(n) /\ attempt \in Nat \ {0}
        /\ Base(attempt + 1) = n + AttemptPolls
    BY <1>2, <1>5, <2>0, <2>1 DEF QuietInv
  <2>3. CASE UNCHANGED vars
    BY <1>5, <2>3 DEF vars, QuietInv, QuietSoFar, Current
  <2>4. CASE QuietSoFar(n)' /\ UNCHANGED attempt
    BY <2>1, <2>4, QuietNext
  <2>5. CASE EndSection
    <3>1. silent' = 0 /\ missing' = 0 /\ elapsed' = 0
      BY <2>5 DEF EndSection
    <3>2. CASE pc' = "submit" /\ attempt' = 1
      <4>1. QuietSoFar(0)'
        BY <3>1, <3>2 DEF QuietSoFar
      <4> QED
        BY <1>3, <3>2, <4>1, QuietNext
    <3>3. CASE pc' = "returned" /\ UNCHANGED attempt
      <4>1. QuietSoFar(n)'
        BY <1>1, <3>1, <3>3 DEF QuietSoFar
      <4> QED
        BY <2>1, <3>3, <4>1, QuietNext
    <3> QED
      BY <2>5, <3>2, <3>3 DEF EndSection
  <2>6. CASE /\ pc' = "submit" /\ attempt' = attempt + 1
             /\ missing' = 0 /\ elapsed' = 0
             /\ silent' <= n + AttemptPolls
    <3>1. QuietSoFar(n + AttemptPolls)'
      BY <2>6 DEF QuietSoFar
    <3> QED
      BY <1>1, <2>2, <2>6, <3>1, QuietNext
  <2>7. CASE Next
    BY <1>5, <2>2, <2>4, <2>5, <2>6, <2>7, QuietWithin
  <2> QED
    BY <1>5, <2>3, <2>7
<1>6. ASSUME TypeOK, Inv PROVE SilenceBounded
  <2> SUFFICES ASSUME ~Outages PROVE silent <= attempt * AttemptPolls
    BY DEF SilenceBounded
  <2>0. attempt \in Nat \ {0}
    BY <1>6 DEF TypeOK, Attempts
  <2>1. PICK n \in Nat : n = Base(attempt)
    <3>1. Base(attempt) \in Nat
      BY <1>2, <2>0
    <3> HIDE DEF Base
    <3> QED
      BY <3>1
  <2>2. QuietSoFar(n) /\ attempt * AttemptPolls = n + AttemptPolls
    BY <1>2, <1>6, <2>0, <2>1 DEF QuietInv
  <2>3. silent \in Nat
    BY <1>6 DEF TypeOK
  <2> QED
    BY <1>1, <2>2, <2>3 DEF QuietSoFar
<1> QED
  BY <1>4, <1>5, <1>6, TypeCorrect, PTL DEF Spec

-----------------------------------------------------------------------------
(* How much is left to do, and how much is done at a time.                 *)

(* MinerU's tasks at work are of different sections, none of a later one.  *)
THEOREM SectionsAreEnough == Spec => []OneTaskPerSection
<1>1. ASSUME TypeOK, TaskInv PROVE OneTaskPerSection
  <2> DEFINE Section == [t \in AtWork |-> t[1]]
  <2>1. section \in Nat /\ \A t \in AtWork : t[1] \in 1 .. section
    <3>1. /\ section \in 1 .. Sections /\ DOMAIN task = (1 .. Sections) \X Attempts
          /\ \A t \in DOMAIN task : t[1] \in 1 .. Sections
      BY <1>1 DEF TypeOK
    <3>2. \A t \in AtWork : t \in DOMAIN task /\ ~Ahead(t)
      BY <1>1 DEF TaskInv, AtWork
    <3> QED
      BY <3>1, <3>2 DEF Ahead
  <2>2. \A t, u \in AtWork : t[1] = u[1] => t = u
    BY <1>1 DEF TaskInv, NoDuplicateTask, AtWork
  <2>3. Section \in Injection(AtWork, 1 .. section)
    BY <2>1, <2>2 DEF Injection, IsInjective
  <2>4. 1 \in Int /\ section \in Int /\ section >= 1
    BY <1>1 DEF TypeOK
  <2>5. IsFiniteSet(1 .. section) /\ Cardinality(1 .. section) = section
    BY <2>4, FS_Interval
  <2> HIDE DEF Section
  <2>6. Cardinality(AtWork) <= Cardinality(1 .. section)
    BY <2>3, <2>5, FS_Injection
  <2> QED
    BY <2>5, <2>6 DEF OneTaskPerSection
<1> QED
  BY <1>1, TypeCorrect, TasksInvariant, PTL

(* 404 answers are counted only for a task that is gone, and a new task    *)
(* starts with fresh counters.                                             *)
CountersInv ==
    /\ missing < Max404
    /\ missing > 0 => pc = "poll" /\ task[Current] = "gone"
    /\ pc = "submit" => elapsed = 0

LEMMA CountersStep == TypeOK /\ CountersInv /\ [Next]_vars => CountersInv'
<1> SUFFICES ASSUME TypeOK, CountersInv, [Next]_vars PROVE CountersInv'
  OBVIOUS
<1> USE DEF CountersInv
<1>1. /\ Max404 \in Nat \ {0} /\ missing \in Nat /\ Current \in DOMAIN task
      /\ task \in [DOMAIN task -> TaskStates]
  BY DEF TypeOK, Current, Attempts
<1>2. ASSUME EndSection PROVE CountersInv'
  BY <1>1, <1>2 DEF EndSection
<1>3. CASE Submit
  BY <1>1, <1>2, <1>3 DEF Submit
<1>4. CASE PollStatus
  BY <1>1, <1>2, <1>4 DEF PollStatus, PollAgain
<1>5. CASE Poll404
  <2>1. pc = "poll" /\ task[Current] = "gone" /\ UNCHANGED task
    BY <1>5 DEF Poll404
  <2>2. CASE missing + 1 < Max404 /\ missing' = missing + 1 /\ PollAgain
    BY <1>1, <2>1, <2>2 DEF PollAgain, Current
  <2> QED
    BY <1>1, <1>2, <1>5, <2>2 DEF Poll404
<1>6. CASE Fetch
  BY <1>2, <1>6 DEF Fetch
<1>7. CASE PollError
  BY <1>7 DEF PollError, PollAgain, Current
<1>8. CASE (\E t \in DOMAIN task : Finish(t)) \/ ServiceRestart \/ GoAway \/ ComeBack
  <2>1. UNCHANGED <<pc, section, attempt, missing, elapsed>>
    BY <1>8 DEF Finish, ServiceRestart, GoAway, ComeBack
  <2>2. task[Current] = "gone" => task'[Current] = "gone"
    BY <1>1, <1>8 DEF Finish, ServiceRestart, GoAway, ComeBack
  <2> QED
    BY <2>1, <2>2 DEF Current
<1>9. CASE UNCHANGED vars
  BY <1>9 DEF vars, Current
<1> QED
  BY <1>3, <1>4, <1>5, <1>6, <1>7, <1>8, <1>9 DEF Next, Client

LEMMA CountersCorrect == Spec => []CountersInv
<1>1. Init => CountersInv
  BY DEF Init, CountersInv
<1> QED
  BY <1>1, CountersStep, TypeCorrect, PTL DEF Spec

(* A round less is worth any number of steps of the next one.              *)
LEMMA RoundLess ==
  ASSUME NEW n \in Nat, NEW k \in Nat, n < k,
         NEW m \in Nat, NEW x \in 0 .. m - 1, NEW y \in Nat
  PROVE  n * m + x \in Nat /\ k * m + y \in Nat /\ n * m + x < k * m + y
<1>1. n + 1 <= k /\ n + 1 \in Nat
  OBVIOUS
<1>2. (n + 1) * m <= k * m /\ k * m \in Nat
  BY <1>1, Monotone
<1>3. (n + 1) * m = n * m + m /\ n * m \in Nat
  BY Product
<1> QED
  BY <1>2, <1>3

(* Rounds and stages are numbers, and a stage is shorter than a round.     *)
StepsInv ==
    /\ RoundsLeft \in Nat
    /\ StageLeft \in 1 .. RoundSteps - 1
    /\ StepsLeft \in Nat

LEMMA StepsType ==
  ASSUME TypeOK, CountersInv
  PROVE  StepsInv
<1>1. /\ section \in 1 .. Sections /\ attempt \in 1 .. Retries + 1
      /\ Sections \in Nat /\ Retries \in Nat
  BY DEF TypeOK, Attempts
<1>2. (Sections - section) * (Retries + 1) \in Nat
  BY <1>1, Product
<1>3. RoundsLeft \in Nat
  BY <1>1, <1>2 DEF RoundsLeft
<1>4. RoundSteps \in Nat
  BY DEF RoundSteps
<1>5. /\ missing \in Nat /\ missing < Max404 /\ elapsed \in 0 .. PollMax + 2
      /\ PollMax \in Nat /\ Max404 \in Nat \ {0}
      /\ pc \in {"submit", "poll", "fetch", "returned"}
  BY DEF TypeOK, CountersInv, Late
<1>6. StageLeft \in 1 .. RoundSteps - 1
  BY <1>5 DEF StageLeft, RoundSteps
<1>7. RoundsLeft * RoundSteps \in Nat
  BY <1>3, <1>4, Product
<1> QED
  BY <1>3, <1>4, <1>6, <1>7 DEF StepsLeft, StepsInv

(* The end of a section, and of an attempt, uses up a round.               *)
LEMMA RoundEnds ==
  ASSUME TypeOK, StepsInv, StepsInv', pc # "returned",
         \/ EndSection
         \/ /\ attempt <= Retries /\ pc' = "submit"
            /\ attempt' = attempt + 1 /\ UNCHANGED section
  PROVE  StepsLeft' < StepsLeft
<1>1. /\ section \in 1 .. Sections /\ attempt \in 1 .. Retries + 1
      /\ Sections \in Nat /\ Retries \in Nat
  BY DEF TypeOK, Attempts
<1>0. RoundSteps \in Nat /\ RoundSteps' = RoundSteps
  BY DEF RoundSteps
<1>2. CASE pc' = "returned"
  <2>1. RoundsLeft * RoundSteps \in Nat /\ StageLeft \in Nat \ {0}
    BY <1>0, Product DEF StepsInv
  <2>2. StepsLeft' = 0 /\ StepsLeft = RoundsLeft * RoundSteps + StageLeft
    BY <1>2 DEF StepsLeft
  <2> QED
    BY <2>1, <2>2
<1>3. CASE pc' # "returned" /\ RoundsLeft' < RoundsLeft
  <2>1. StepsLeft' = RoundsLeft' * RoundSteps + StageLeft'
    BY <1>0, <1>3 DEF StepsLeft
  <2>2. /\ StageLeft' \in 0 .. RoundSteps - 1 /\ RoundsLeft' \in Nat
        /\ StageLeft \in Nat /\ RoundsLeft \in Nat
    BY <1>0 DEF StepsInv
  <2>3. RoundsLeft' * RoundSteps + StageLeft' < RoundsLeft * RoundSteps + StageLeft
    BY <1>0, <1>3, <2>2, RoundLess
  <2> QED
    BY <2>1, <2>3 DEF StepsLeft
<1>4. CASE attempt <= Retries /\ attempt' = attempt + 1 /\ UNCHANGED section
  <2>1. (Sections - section) * (Retries + 1) \in Nat
    BY <1>1, Product
  <2>2. RoundsLeft' < RoundsLeft
    BY <1>1, <1>4, <2>1 DEF RoundsLeft
  <2> QED
    BY <1>2, <1>3, <2>2
<1>5. CASE section < Sections /\ section' = section + 1 /\ attempt' = 1
  <2>1. PICK n \in Nat : n = Sections - (section + 1)
    BY <1>1, <1>5
  <2>2. Sections - section = n + 1
    BY <1>1, <2>1
  <2>3. (n + 1) * (Retries + 1) = n * (Retries + 1) + (Retries + 1) /\ n * (Retries + 1) \in Nat
    BY <1>1, Product
  <2>4. RoundsLeft' = n * (Retries + 1) + (Retries + 1 - 1)
    BY <1>5, <2>1 DEF RoundsLeft
  <2>5. RoundsLeft = n * (Retries + 1) + (Retries + 1) + (Retries + 1 - attempt)
    BY <2>2, <2>3 DEF RoundsLeft
  <2>6. RoundsLeft' < RoundsLeft
    BY <1>1, <2>3, <2>4, <2>5
  <2> QED
    BY <1>2, <1>3, <2>6
<1> QED
  BY <1>2, <1>3, <1>4, <1>5, <1>1 DEF EndSection

(* A step within an attempt.                                               *)
LEMMA StageEnds ==
  ASSUME StepsInv, StepsInv', UNCHANGED <<section, attempt>>,
         pc # "returned", pc' # "returned"
  PROVE  /\ StageLeft' <= StageLeft => StepsLeft' <= StepsLeft
         /\ StageLeft' < StageLeft => StepsLeft' < StepsLeft
<1>1. RoundsLeft' = RoundsLeft
  BY DEF RoundsLeft
<1>0. RoundSteps \in Nat /\ RoundSteps' = RoundSteps
  BY DEF RoundSteps
<1>2. /\ StepsLeft = RoundsLeft * RoundSteps + StageLeft
      /\ StepsLeft' = RoundsLeft * RoundSteps + StageLeft'
  BY <1>0, <1>1 DEF StepsLeft
<1>3. RoundsLeft * RoundSteps \in Nat
  BY <1>0, Product DEF StepsInv
<1>4. StageLeft \in Nat /\ StageLeft' \in Nat
  BY <1>0 DEF StepsInv
<1> HIDE DEF StepsInv
<1> QED
  BY <1>2, <1>3, <1>4

LEMMA AnswersStep ==
  ASSUME TypeOK, TypeOK', CountersInv, StepsInv, StepsInv', [Next]_vars
  PROVE  StepsLeft' <= StepsLeft /\ (Client => StepsLeft' < StepsLeft)
<1>1. /\ missing \in Nat /\ missing < Max404 /\ elapsed \in 0 .. PollMax + 2
      /\ PollMax \in Nat /\ Max404 \in Nat \ {0}
      /\ Current \in DOMAIN task
      /\ StepsLeft \in Nat /\ StepsLeft' \in Nat
  <2>1. /\ missing \in Nat /\ missing < Max404 /\ elapsed \in 0 .. PollMax + 2
        /\ PollMax \in Nat /\ Max404 \in Nat \ {0} /\ Current \in DOMAIN task
    BY DEF TypeOK, CountersInv, Late, Current, Attempts
  <2>2. StepsLeft \in Nat /\ StepsLeft' \in Nat
    BY DEF StepsInv
  <2> QED
    BY <2>1, <2>2
<1>2. ASSUME Client PROVE StepsLeft' < StepsLeft
  <2>1. CASE EndSection
    BY <1>2, <2>1, RoundEnds DEF Client, Submit, PollStatus, Poll404, Fetch
  <2>2. CASE Submit
    <3>1. CASE pc' = "poll" /\ task' = [task EXCEPT ![Current] = "processing"]
               /\ UNCHANGED <<section, attempt, elapsed>>
      <4>1. pc = "submit" /\ elapsed' = 0 /\ task'[Current'] = "processing"
        BY <1>1, <2>2, <3>1 DEF Submit, CountersInv, Current
      <4>2. StageLeft = RoundSteps - 1 /\ StageLeft' = Max404 + 1 + PollMax + 3
        BY <3>1, <4>1 DEF StageLeft
      <4> QED
        BY <1>1, <3>1, <4>1, <4>2, StageEnds DEF RoundSteps
    <3> QED
      BY <2>1, <2>2, <3>1 DEF Submit
  <2>3. CASE PollStatus
    <3>1. /\ pc = "poll" /\ task[Current] # "gone" /\ UNCHANGED task
      BY <2>3 DEF PollStatus
    <3>2. CASE pc' = "fetch" /\ UNCHANGED <<section, attempt>>
      BY <1>1, <3>1, <3>2, StageEnds DEF StageLeft
    <3>3. CASE elapsed <= PollMax /\ PollAgain
      BY <1>1, <3>1, <3>3, StageEnds DEF StageLeft, PollAgain, Late, Current
    <3> QED
      BY <2>1, <2>3, <3>2, <3>3 DEF PollStatus
  <2>4. CASE Poll404
    <3>1. /\ pc = "poll" /\ task[Current] = "gone" /\ UNCHANGED task
      BY <2>4 DEF Poll404
    <3>2. CASE missing' = missing + 1 /\ PollAgain
      BY <1>1, <3>1, <3>2, StageEnds DEF StageLeft, PollAgain, Current
    <3>3. CASE /\ attempt <= Retries /\ pc' = "submit"
               /\ attempt' = attempt + 1 /\ UNCHANGED section
      BY <3>1, <3>3, RoundEnds
    <3> QED
      BY <2>1, <2>4, <3>2, <3>3 DEF Poll404
  <2>5. CASE Fetch
    BY <2>1, <2>5 DEF Fetch
  <2> QED
    BY <1>2, <2>2, <2>3, <2>4, <2>5 DEF Client
<1>3. CASE PollError
  <2>1. /\ pc = "poll" /\ UNCHANGED <<pc, section, attempt, missing, task>>
        /\ elapsed' \in {elapsed, elapsed + 1}
    BY <1>3 DEF PollError, PollAgain
  <2>2. elapsed' <= PollMax + 2 /\ elapsed' \in Nat
    BY <1>1, <1>3, <2>1 DEF PollError, PollAgain, Late
  <2>3. StageLeft' <= StageLeft
    BY <1>1, <2>1, <2>2 DEF StageLeft, Current
  <2> QED
    BY <1>2, <2>1, <2>3, StageEnds
<1>4. CASE (\E t \in DOMAIN task : Finish(t)) \/ ServiceRestart \/ GoAway \/ ComeBack
  <2>1. UNCHANGED <<pc, section, attempt, missing, elapsed>>
    BY <1>4 DEF Finish, ServiceRestart, GoAway, ComeBack
  <2>2. task[Current] = "gone" => task'[Current'] = "gone"
    BY <1>1, <1>4, <2>1 DEF Finish, ServiceRestart, GoAway, ComeBack, Current
  <2>3. StageLeft' <= StageLeft
    BY <1>1, <2>1, <2>2 DEF StageLeft, RoundSteps, CountersInv
  <2>4. CASE pc = "returned"
    <3>1. StepsLeft = 0 /\ StepsLeft' = 0
      BY <2>1, <2>4 DEF StepsLeft
    <3> QED
      BY <1>2, <3>1
  <2> QED
    BY <1>2, <2>1, <2>3, <2>4, StageEnds
<1>5. CASE UNCHANGED vars
  <2>1. UNCHANGED <<pc, section, attempt, missing, elapsed, task>>
    BY <1>5 DEF vars
  <2>2. RoundsLeft' = RoundsLeft /\ StageLeft' = StageLeft /\ RoundSteps' = RoundSteps
    BY <2>1 DEF RoundsLeft, StageLeft, RoundSteps, Current
  <2>3. StepsLeft' = StepsLeft
    BY <2>1, <2>2 DEF StepsLeft
  <2> QED
    BY <1>1, <1>2, <2>3
<1>6. StepsLeft' <= StepsLeft
  BY <1>1, <1>2, <1>3, <1>4, <1>5 DEF Next
<1> QED
  BY <1>2, <1>6

(* The core of Returns: the client makes no more than StepsLeft steps,     *)
(* whatever the service does, so that it is kept from returning only by    *)
(* calls that are never answered.                                          *)
THEOREM AnswersAreCounted == Spec => EveryAnswerCounts
  BY StepsType, AnswersStep, CountersCorrect, TypeCorrect, PTL DEF Spec, EveryAnswerCounts

=============================================================================
