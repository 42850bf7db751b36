------------------------- MODULE CampaignRunProofs -------------------------
(***************************************************************************)
(* Proofs about CampaignRun for every number of issues, crawlers,          *)
(* archives, attempts and disturbances: a campaign run is a behaviour of   *)
(* the archive tables, an item that is done has its downloads stored, and  *)
(* the campaign, its task and its items agree.                             *)
(***************************************************************************)
EXTENDS CampaignRun, ArchiveIngestProofs

USE KeyAssumption, FileAssumption, CrawlerAssumption, IssueAssumption, AttemptAssumption,
    BoundAssumption

-----------------------------------------------------------------------------
(* A campaign run uses the archives as any other client does.              *)

LEMMA IdleOrEnds ==
  ASSUME NEW c \in Clients, call' = [call EXCEPT ![c] = Idle], UNCHANGED Rows, TypeOK
  PROVE  [Next]_vars
<1>1. CASE call[c] = Idle
  BY <1>1 DEF vars, Rows, TypeOK
<1>2. CASE call[c] # Idle
  BY <1>2 DEF Next, EndCall, Answer
<1> QED
  BY <1>1, <1>2

LEMMA CampaignStepIsIngestStep ==
  IngestInv /\ [CampaignNext]_campaignVars => [Next]_vars
<1> SUFFICES ASSUME IngestInv, [CampaignNext]_campaignVars PROVE [Next]_vars
  OBVIOUS
<1>1. CASE UNCHANGED campaignVars
  BY <1>1 DEF campaignVars
<1>2. CASE Request
  BY <1>2 DEF Request, Next
<1>3. ASSUME NEW c \in Clients \ Crawlers, WebStep(c) \/ FetchJob(c) PROVE [Next]_vars
  BY <1>3 DEF WebStep, FetchJob, Next
<1>4. ASSUME NEW w \in Crawlers, BreakDown(w) \/ Crash(w) PROVE [Next]_vars
  BY <1>4, IdleOrEnds DEF BreakDown, Crash, LoseSession, IngestInv
<1>5. ASSUME NEW w \in Crawlers, NEW k \in Issues, Download(w, k) PROVE [Next]_vars
  <2>1. k \in Keys /\ Late[k] = {}
    BY LateAssumption
  <2>2. PICK given \in Attachments[k] : BeginIngest(w, k, given, {})
    BY <1>5 DEF Download
  <2>3. BeginIngest(w, k, given, Late[k])
    BY <2>1, <2>2, Zenon
  <2> QED
    BY <2>1, <2>3 DEF Next, Start
<1>6. ASSUME NEW w \in Crawlers, Register(w) \/ IngestStep(w) \/ DownloadFails(w) \/ EndItem(w)
      PROVE  [Next]_vars
  BY <1>6 DEF Register, IngestStep, DownloadFails, EndItem, Next, Work
<1>7. ASSUME NEW w \in Crawlers,
             \/ Lease(w) \/ Finish(w) \/ ListFails(w) \/ RunFails(w) \/ MarkFailed(w)
             \/ ReadCampaign(w) \/ MarkRunning(w) \/ Discover(w)
             \/ \E k \in Issues : Duplicate(w, k)
      PROVE  UNCHANGED vars
  BY <1>7 DEF Lease, Finish, ListFails, RunFails, FailTask, MarkFailed, ReadCampaign,
              MarkRunning, Discover, Duplicate
<1>8. CASE StopSource \/ SetActive
  BY <1>8 DEF StopSource, SetActive
<1> QED
  BY <1>1, <1>2, <1>3, <1>4, <1>5, <1>6, <1>7, <1>8 DEF CampaignNext, CrawlerStep

LEMMA CampaignIngestInvariant == CampaignSpec => []IngestInv
<1>1. CampaignInit => IngestInv
  BY InitIngestInv DEF CampaignInit
<1>2. IngestInv /\ [CampaignNext]_campaignVars => IngestInv'
  BY CampaignStepIsIngestStep, NextIngestInv
<1> QED
  BY <1>1, <1>2, PTL DEF CampaignSpec

(* Crawlers and callers together do to the archives only what ArchiveIngest *)
(* allows, so that its theorems hold of a campaign run.                    *)
THEOREM CampaignUsesArchives == CampaignSpec => Spec
BY CampaignIngestInvariant, CampaignStepIsIngestStep, PTL DEF CampaignSpec, CampaignInit, Spec
-----------------------------------------------------------------------------
(* Facts about a state.                                                    *)

RunType ==
    [pc : {"idle", "discover", "issues", "ingest", "bury", "retry", "mark"},
     rest : SUBSET Issues, issue : Issues \cup {None}, given : Seq(Files),
     campaign : {"running", "completed", None}, item : [Issues -> ItemStatuses]]

LEMMA RestingType ==
  /\ Resting \in RunType /\ Resting.pc = "idle" /\ Resting.campaign = None
  /\ \A k \in Issues : Resting.item[k] # "done"
BY DEF Resting, RunType, ItemStatuses

LEMMA OneAtWork ==
  ASSUME CampaignInv, NEW v \in Crawlers, NEW w \in Crawlers, AtWork(v), AtWork(w)
  PROVE  v = w
BY DEF CampaignInv, RunShape

LEMMA RunFacts ==
  ASSUME CampaignInv, NEW w \in Crawlers
  PROVE  /\ run \in [Crawlers -> RunType] /\ run[w] \in RunType
         /\ phase[Task] \in {"waiting", "taken", "done", "dead"}
         /\ failures[Task] \in 0 .. MaxAttempts /\ holder[Task] \in Crawlers \cup {None}
         /\ campaign \in CampaignStatuses /\ item \in [Issues -> ItemStatuses]
         /\ got \in [Issues -> SUBSET Files]
BY DEF CampaignInv, CampaignTypeOK, RunType

(* Archives lose no file.                                                  *)
LEMMA FilesGrow ==
  ASSUME IngestInv, [Next]_vars
  PROVE  \A f : Stored(f) => Stored(f)'
<1>1. files \in [Ids -> SUBSET Files]
  BY DEF IngestInv, TypeOK
<1>2. ASSUME NEW c \in Clients, CommitAttach(c) PROVE \A a \in Ids : files[a] \subseteq files'[a]
  BY <1>1, <1>2 DEF CommitAttach
<1>3. ASSUME NEW c \in Clients, CommitFetch(c) PROVE \A a \in Ids : files[a] \subseteq files'[a]
  BY <1>1, <1>3 DEF CommitFetch
<1>4. ASSUME NEW c \in Clients,
             Start(c) \/ FetchLate(c) \/ Refuse(c) \/ EndCall(c) \/ Lookup(c) \/ Fold(c)
               \/ Attach(c) \/ AttachPending(c) \/ Create(c) \/ CommitRename(c)
      PROVE  UNCHANGED files
  BY <1>4 DEF Start, BeginIngest, AttachByHand, BeginRename, FetchLate, BeginFetch, Refuse,
              EndCall, Lookup, Fold, Attach, AttachPending, Create, CommitRename, Rows
<1>5. ASSUME AtOnce PROVE UNCHANGED files
  BY <1>5 DEF AtOnce, CreateByHand, Withdraw, Delete
<1>6. \A a \in Ids : files[a] \subseteq files'[a]
  BY <1>2, <1>3, <1>4, <1>5 DEF Next, Work, vars
<1> QED
  BY <1>6 DEF Stored

LEMMA InitCampaignInv == CampaignInit => CampaignInv
<1> SUFFICES ASSUME CampaignInit PROVE CampaignInv
  OBVIOUS
<1> USE DEF CampaignInit
<1>1. CampaignTypeOK
  <2>1. run \in [Crawlers -> RunType]
    BY RestingType
  <2>2. /\ item \in [Issues -> ItemStatuses] /\ got \in [Issues -> SUBSET Files]
        /\ campaign \in CampaignStatuses
    BY DEF ItemStatuses, CampaignStatuses
  <2>3. overruled \in BOOLEAN /\ died \in BOOLEAN
    OBVIOUS
  <2>4. /\ phase \in [{Task} -> {"waiting", "taken", "done", "dead"}]
        /\ failures \in [{Task} -> 0 .. MaxAttempts]
        /\ holder \in [{Task} -> Crawlers \cup {None}]
        /\ source \in {"active", "manual_recovery"}
        /\ disturbances \in 0 .. MaxDisturbances
    OBVIOUS
  <2> QED
    BY <2>1, <2>2, <2>3, <2>4 DEF CampaignTypeOK, RunType
<1>2. \A w \in Crawlers : run[w].pc = "idle" /\ ~AtWork(w)
  BY RestingType DEF AtWork
<1>3. RunShape
  BY <1>2 DEF RunShape, Init
<1>4. FirstRun /\ StoredSoFar
  BY <1>2 DEF FirstRun, StoredSoFar
<1>5. DoneIsStored
  BY RestingType DEF DoneIsStored, Done
<1>6. CampaignClosed /\ FailedTogether
  BY DEF CampaignClosed, FailedTogether
<1> QED
  BY <1>1, <1>3, <1>4, <1>5, <1>6 DEF CampaignInv

-----------------------------------------------------------------------------
(* Steps of the other sessions.                                            *)

(* Nothing but archives, the calls of the others and the source changes.   *)
LEMMA OthersStep ==
  ASSUME IngestInv, CampaignInv, [Next]_vars, disturbances' \in 0 .. MaxDisturbances,
         source' \in {"active", "manual_recovery"},
         UNCHANGED <<taskVars, storeVars, run, historyVars>>,
         \A w \in Crawlers : call'[w] = call[w]
  PROVE  CampaignInv'
<1> USE DEF CampaignInv, taskVars, storeVars, historyVars
<1>1. CampaignTypeOK'
  BY DEF CampaignTypeOK
<1>2. RunShape'
  BY DEF RunShape, AtWork
<1>3. FirstRun'
  BY DEF FirstRun, AtWork
<1>4. CampaignClosed' /\ FailedTogether'
  BY DEF CampaignClosed, FailedTogether, NoneActive
<1>5. StoredSoFar'
  BY FilesGrow DEF StoredSoFar, SoFar
<1>6. DoneIsStored'
  BY FilesGrow DEF DoneIsStored, Done
<1> QED
  BY <1>1, <1>2, <1>3, <1>4, <1>5, <1>6

LEMMA WebSteps ==
  ASSUME IngestInv, CampaignInv, NEW c \in Clients \ Crawlers, WebStep(c) \/ FetchJob(c)
  PROVE  CampaignInv'
<1>1. call \in [Clients -> CallType]
  BY DEF IngestInv, TypeOK, CallType
<1>2. \E new : call' = [call EXCEPT ![c] = new]
  BY DEF WebStep, FetchJob, FetchLate, BeginFetch, Begin, Work, Lookup, Create, Fold, Attach,
         InsertLink, CommitAttach, AttachPending, CommitFetch, CommitRename, EndCall, Answer,
         Goto
<1>3. \A w \in Crawlers : call'[w] = call[w]
  BY <1>1, <1>2
<1>4. Next
  BY DEF WebStep, FetchJob, Next
<1>5. UNCHANGED <<taskVars, source, storeVars, run, historyVars, disturbances>>
  BY DEF WebStep, FetchJob
<1>6. /\ disturbances' \in 0 .. MaxDisturbances
      /\ source' \in {"active", "manual_recovery"}
  BY <1>5 DEF CampaignInv, CampaignTypeOK
<1> QED
  BY <1>3, <1>4, <1>5, <1>6, OthersStep

LEMMA RequestStep ==
  ASSUME IngestInv, CampaignInv, Request
  PROVE  CampaignInv'
<1>1. call \in [Clients -> CallType]
  BY DEF IngestInv, TypeOK, CallType
<1>2. \A w \in Crawlers : call'[w] = call[w]
  <2>1. CASE AtOnce
    BY <2>1 DEF AtOnce, CreateByHand, Withdraw, Delete
  <2>2. ASSUME NEW c \in Clients \ Crawlers, Start(c)
        PROVE  \A w \in Crawlers : call'[w] = call[w]
    <3>1. \E new : call' = [call EXCEPT ![c] = new]
      BY <2>2 DEF Start, BeginIngest, AttachByHand, BeginRename, Begin, InsertLink
    <3> QED
      BY <1>1, <3>1
  <2> QED
    BY <2>1, <2>2 DEF Request
<1>3. Next /\ UNCHANGED <<taskVars, storeVars, run, historyVars>>
  BY DEF Request, Next
<1>4. /\ disturbances' \in 0 .. MaxDisturbances
      /\ source' \in {"active", "manual_recovery"}
  BY DEF Request, Disturb, CampaignInv, CampaignTypeOK
<1> QED
  BY <1>2, <1>3, <1>4, OthersStep

LEMMA SourceStep ==
  ASSUME IngestInv, CampaignInv, StopSource \/ SetActive
  PROVE  CampaignInv'
<1>1. UNCHANGED <<vars, taskVars, storeVars, run, historyVars>>
  BY DEF StopSource, SetActive
<1>2. /\ disturbances' \in 0 .. MaxDisturbances
      /\ source' \in {"active", "manual_recovery"}
  BY DEF StopSource, SetActive, Disturb, CampaignInv, CampaignTypeOK
<1> QED
  BY <1>1, <1>2, OthersStep DEF vars

-----------------------------------------------------------------------------
(* Steps of an ingest.                                                     *)

LEMMA NextGiven ==
  ASSUME NEW s \in Seq(Files), NEW n \in 1 .. Len(s) + 1, SubSeq(s, n, Len(s)) # <<>>
  PROVE  /\ n <= Len(s)
         /\ Head(SubSeq(s, n, Len(s))) = s[n]
         /\ Tail(SubSeq(s, n, Len(s))) = SubSeq(s, n + 1, Len(s))
         /\ SubSeq(s, n + 1, Len(s)) = <<>> => n = Len(s)
<1>1. /\ n <= Len(s) /\ Head(SubSeq(s, n, Len(s))) = s[n]
      /\ Tail(SubSeq(s, n, Len(s))) = SubSeq(s, n + 1, Len(s))
  OBVIOUS
<1>2. ASSUME SubSeq(s, n + 1, Len(s)) = <<>> PROVE n = Len(s)
  <2>1. Len(SubSeq(s, n + 1, Len(s))) = IF n + 1 <= Len(s) THEN Len(s) - n ELSE 0
    OBVIOUS
  <2>2. Len(SubSeq(s, n + 1, Len(s))) = 0
    BY <1>2, EmptySeq
  <2> QED
    BY <1>1, <2>1, <2>2
<1> QED
  BY <1>1, <1>2

(* A crawler's call moves on, without its campaign.                        *)
LEMMA IngestMoves ==
  ASSUME IngestInv, CampaignInv, [Next]_vars, NEW w \in Crawlers, NEW x, NEW given,
         run[w].pc = "ingest", call' = [call EXCEPT ![w] = x], x.key = call[w].key,
         given = run[w].given, SoFar(given, x)',
         UNCHANGED <<taskVars, source, storeVars, run, historyVars, disturbances>>
  PROVE  CampaignInv'
<1> USE DEF CampaignInv, taskVars, storeVars, historyVars
<1>1. \A v \in Crawlers : call'[v] = IF v = w THEN x ELSE call[v]
  BY DEF IngestInv, TypeOK
<1>2. CampaignTypeOK'
  BY DEF CampaignTypeOK
<1>3. RunShape'
  BY <1>1 DEF RunShape, AtWork
<1>4. FirstRun'
  BY DEF FirstRun, AtWork
<1>5. CampaignClosed' /\ FailedTogether'
  BY DEF CampaignClosed, FailedTogether, NoneActive
<1>6. StoredSoFar'
  <2> SUFFICES ASSUME NEW v \in Crawlers, run[v].pc = "ingest"
               PROVE  SoFar(run[v].given, call[v])'
    BY FilesGrow DEF StoredSoFar
  <2>1. CASE v = w
    BY <1>1, <2>1 DEF SoFar
  <2>2. CASE v # w
    BY <1>1, <2>2, FilesGrow DEF StoredSoFar, SoFar
  <2> QED
    BY <2>1, <2>2
<1>7. DoneIsStored'
  BY FilesGrow DEF DoneIsStored, Done
<1> QED
  BY <1>2, <1>3, <1>4, <1>5, <1>6, <1>7

(* What is stored so far when a call moves on to another step, ...         *)
LEMMA MovesOn ==
  ASSUME IngestInv, [Next]_vars, NEW given, NEW x, NEW y, SoFar(given, x),
         y.todo = x.todo, y.step # "ok", x.step \notin {"refused", "broken"}
  PROVE  SoFar(given, y)'
BY FilesGrow DEF SoFar

(* ... and when it is through with a file that is stored.                  *)
LEMMA Advances ==
  ASSUME IngestInv, [Next]_vars, NEW given \in Seq(Files), NEW x \in CallType,
         SoFar(given, x), x.step \notin {"refused", "broken"}, x.key \in Keys, x.todo # <<>>,
         Stored(Head(x.todo))'
  PROVE  SoFar(given, Advance(x))'
<1>1. PICK n \in 1 .. Len(given) + 1 :
          /\ x.todo = SubSeq(given, n, Len(given))
          /\ \A i \in 1 .. n - 1 : Stored(given[i])
  BY DEF SoFar
<1>2. /\ n <= Len(given) /\ Head(x.todo) = given[n]
      /\ Tail(x.todo) = SubSeq(given, n + 1, Len(given))
      /\ SubSeq(given, n + 1, Len(given)) = <<>> => n = Len(given)
  BY <1>1, NextGiven
<1>3. /\ Advance(x).todo = Tail(x.todo)
      /\ Advance(x).step = "ok" => Tail(x.todo) = <<>>
  BY DEF Advance, CallType
<1>4. \A i \in 1 .. n : Stored(given[i])'
  BY <1>1, <1>2, FilesGrow
<1>5. Advance(x).step = "ok" => n + 1 = Len(given) + 1
  BY <1>2, <1>3
<1>6. n + 1 \in 1 .. Len(given) + 1 /\ (n + 1) - 1 = n
  BY <1>2
<1> QED
  BY <1>2, <1>3, <1>4, <1>5, <1>6 DEF SoFar

LEMMA IngestSteps ==
  ASSUME IngestInv, CampaignInv, NEW w \in Crawlers, IngestStep(w) \/ DownloadFails(w)
  PROVE  CampaignInv'
<1>0. PICK given, y : given = run[w].given /\ y = call[w]
  OBVIOUS
<1>1. /\ call \in [Clients -> CallType] /\ ShapeOK(call[w])
  BY DEF IngestInv, TypeOK, CallType, CallsOK
<1>2. Next /\ UNCHANGED <<taskVars, source, storeVars, run, historyVars, disturbances>>
  BY DEF IngestStep, DownloadFails, Next, Work
<1>3. call[w].step \in {"lookup", "create", "fold", "attach", "commit"}
  BY DEF IngestStep, DownloadFails, Refuse, Create, Fold, Attach, CommitAttach
<1>4. /\ run[w].pc = "ingest" /\ given \in Seq(Files) /\ SoFar(given, y)
      /\ y \in CallType /\ y.key \in Keys /\ y.todo # <<>>
      /\ y.step \notin {"refused", "broken"}
  <2>1. run[w].pc = "ingest"
    BY <1>3 DEF CampaignInv, RunShape, Idle
  <2>2. run[w].issue \in Keys /\ call[w].key = run[w].issue
    BY <2>1 DEF CampaignInv, RunShape
  <2>3. call[w].todo # <<>>
    BY <1>1, <1>3, <2>2 DEF ShapeOK
  <2> QED
    BY <1>0, <1>1, <1>3, <2>1, <2>2, <2>3, RunFacts DEF CampaignInv, StoredSoFar, RunType
<1>5. ASSUME NEW s \in {"attach", "create", "refused", "broken"}, Goto(w, s) PROVE CampaignInv'
  <2>1. PICK x : x = [call[w] EXCEPT !.step = s]
    OBVIOUS
  <2>2. x.todo = call[w].todo /\ x.key = call[w].key /\ x.step = s
    BY <1>1, <2>1 DEF CallType
  <2>3. SoFar(given, x)'
    BY <1>0, <1>2, <1>4, <2>2, MovesOn
  <2> QED
    BY <1>0, <1>2, <1>4, <1>5, <2>1, <2>2, <2>3, IngestMoves DEF Goto
<1>6. ASSUME call' = [call EXCEPT ![w] = Advance(y)], Stored(Head(y.todo))'
      PROVE  CampaignInv'
  <2>1. SoFar(given, Advance(y))'
    BY <1>2, <1>4, <1>6, Advances
  <2>2. PICK x : x = Advance(y)
    OBVIOUS
  <2>3. x.key = call[w].key /\ SoFar(given, x)' /\ call' = [call EXCEPT ![w] = x]
    BY <1>0, <1>4, <1>6, <2>1, <2>2, AdvanceCall
  <2> QED
    BY <1>0, <1>2, <1>4, <2>3, IngestMoves
<1>7. ASSUME DownloadFails(w) PROVE CampaignInv'
  BY <1>5, <1>7 DEF DownloadFails, Refuse
<1>8. ASSUME Create(w) PROVE CampaignInv'
  <2>1. CASE Goto(w, "refused") \/ Goto(w, "broken")
    BY <1>5, <2>1
  <2>2. CASE \E a \in Ids : call' = [call EXCEPT ![w] =
                [call[w] EXCEPT !.step = "attach", !.archive = a]]
    <3>1. PICK a \in Ids : call' = [call EXCEPT ![w] =
                  [call[w] EXCEPT !.step = "attach", !.archive = a]]
      BY <2>2
    <3>2. PICK x : x = [call[w] EXCEPT !.step = "attach", !.archive = a]
      OBVIOUS
    <3>3. x.todo = call[w].todo /\ x.key = call[w].key /\ x.step = "attach"
      BY <1>1, <3>2 DEF CallType
    <3>4. SoFar(given, x)'
      BY <1>0, <1>2, <1>4, <3>3, MovesOn
    <3> QED
      BY <1>0, <1>2, <1>4, <3>1, <3>2, <3>3, <3>4, IngestMoves
  <2> QED
    BY <1>8, <2>1, <2>2 DEF Create
<1>9. ASSUME Fold(w) PROVE CampaignInv'
  <2>1. CASE Goto(w, "broken") \/ Goto(w, "attach")
    BY <1>5, <2>1
  <2>2. CASE /\ call' = [call EXCEPT ![w] = Advance(call[w])]
             /\ Head(call[w].todo) \in files[call[w].archive]
    <3>1. PICK f : f = Head(y.todo)
      OBVIOUS
    <3>2. Stored(f)
      BY <1>0, <1>1, <1>9, <2>2, <3>1 DEF Stored, ShapeOK, Fold
    <3>3. Stored(f)'
      BY <1>2, <3>2, FilesGrow
    <3> QED
      BY <1>0, <1>6, <2>2, <3>1, <3>3
  <2> QED
    BY <1>9, <2>1, <2>2 DEF Fold
<1>10. ASSUME Attach(w) PROVE CampaignInv'
  <2>1. CASE Goto(w, "broken")
    BY <1>5, <2>1
  <2>2. CASE InsertLink(w, call[w].archive, Head(call[w].todo), call[w])
    <3> DEFINE a == call[w].archive
               seen == files[a] \cup {Head(call[w].todo)}
    <3>0. PICK x : /\ call' = [call EXCEPT ![w] = x]
                  /\ x = [call[w] EXCEPT !.step = "commit", !.archive = a,
                              !.file = Head(call[w].todo), !.up = Lead(seen) \ primary[a],
                              !.down = primary[a] \ Lead(seen)]
      BY <2>2 DEF InsertLink
    <3>1. x.todo = call[w].todo /\ x.key = call[w].key /\ x.step = "commit"
      BY <1>0, <1>4, <3>0 DEF CallType
    <3>2. SoFar(given, x)'
      BY <1>0, <1>2, <1>4, <3>1, MovesOn
    <3> QED
      BY <1>0, <1>2, <1>4, <3>0, <3>1, <3>2, IngestMoves
  <2> QED
    BY <1>10, <2>1, <2>2 DEF Attach
<1>11. ASSUME CommitAttach(w) PROVE CampaignInv'
  <2>1. PICK f : f = Head(y.todo)
    OBVIOUS
  <2>2. /\ call[w].archive \in Ids /\ call[w].file = f
        /\ files \in [Ids -> SUBSET Files]
    BY <1>0, <1>1, <1>4, <1>11, <2>1 DEF CommitAttach, ShapeOK, IngestInv, TypeOK
  <2>3. f \in files'[call[w].archive]
    BY <1>11, <2>2 DEF CommitAttach
  <2>4. Stored(f)'
    BY <2>2, <2>3 DEF Stored
  <2> QED
    BY <1>0, <1>6, <1>11, <2>1, <2>4 DEF CommitAttach
<1> QED
  BY <1>7, <1>8, <1>9, <1>10, <1>11 DEF IngestStep

-----------------------------------------------------------------------------
(* Steps of the run.                                                       *)

(* A step of the run that writes no archive and starts no ingest.          *)
LEMMA DraftStep ==
  ASSUME CampaignInv, NEW w \in Crawlers, NEW r \in RunType, run' = [run EXCEPT ![w] = r],
         UNCHANGED <<vars, got>>, r.pc # "ingest",
         \A k \in Issues : r.item[k] = "done" => Done(k),
         \A k \in Issues : item'[k] = "done" => Done(k)
  PROVE  StoredSoFar' /\ DoneIsStored'
<1>1. \A v \in Crawlers : run'[v] = IF v = w THEN r ELSE run[v]
  BY RunFacts
<1>2. StoredSoFar'
  BY <1>1 DEF CampaignInv, StoredSoFar, SoFar, Stored, vars
<1>3. \A k \in Issues : Done(k)' => Done(k)
  BY <1>1 DEF Done
<1>4. DoneIsStored'
  BY <1>3 DEF CampaignInv, DoneIsStored, Stored, vars
<1> QED
  BY <1>2, <1>4

(* A crawler at work does not see its campaign as failed, nor as completed *)
(* in the first run, unless it has nothing left to do.                     *)
LEMMA SeenFacts ==
  ASSUME CampaignInv, NEW w \in Crawlers, AtWork(w)
  PROVE  /\ campaign # "failed" /\ Seen(w) \in CampaignStatuses \ {"failed"}
         /\ failures[Task] = 0 => campaign # "completed"
         /\ failures[Task] = 0 /\ Seen(w) = "completed" =>
               /\ run[w].pc = "issues" /\ run[w].rest = {}
               /\ \A k \in Issues : run[w].item[k] \notin Active
<1>1. phase[Task] = "taken"
  BY DEF CampaignInv, RunShape
<1>2. campaign # "failed" /\ (failures[Task] = 0 => campaign # "completed")
  BY <1>1 DEF CampaignInv, FailedTogether, CampaignClosed
<1>3. Seen(w) \in CampaignStatuses \ {"failed"}
  BY <1>2, RunFacts DEF Seen, RunType, CampaignStatuses
<1> QED
  BY <1>2, <1>3 DEF Seen, CampaignInv, FirstRun

LEMMA LeaseInv ==
  ASSUME CampaignInv, NEW w \in Crawlers, Lease(w)
  PROVE  CampaignInv'
<1>1. /\ phase[Task] = "waiting" \/ (phase[Task] = "taken" /\ holder[Task] = None)
      /\ phase' = [t \in {Task} |-> "taken"] /\ holder' = [t \in {Task} |-> w]
      /\ UNCHANGED <<vars, failures, source, storeVars, historyVars, disturbances>>
      /\ run[w].pc = "idle"
  BY DEF Lease, Queue!Take
<1>2. PICK r \in RunType :
        /\ run' = [run EXCEPT ![w] = r]
        /\ r.pc = "discover" /\ r.campaign = None
        /\ \A k \in Issues : r.item[k] # "done"
  <2>1. PICK r : r = [Resting EXCEPT !.pc = "discover"]
    OBVIOUS
  <2>2. /\ r \in RunType /\ r.pc = "discover" /\ r.campaign = None
        /\ \A k \in Issues : r.item[k] # "done"
    BY <2>1, RestingType DEF RunType
  <2> QED
    BY <2>1, <2>2 DEF Lease
<1>3. \A v \in Crawlers : run'[v] = IF v = w THEN r ELSE run[v]
  BY <1>2, RunFacts
<1>4. phase'[Task] = "taken" /\ holder'[Task] = w /\ failures' = failures
  BY <1>1
<1>5. \A v \in Crawlers : ~AtWork(v)
  BY <1>1 DEF CampaignInv, RunShape
<1>6. UNCHANGED <<campaign, item, got, overruled, died>>
  BY <1>1 DEF storeVars, historyVars
<1>7. CampaignTypeOK'
  BY <1>1, <1>2, <1>6, RunFacts DEF CampaignInv, CampaignTypeOK, RunType
<1>8. RunShape'
  BY <1>1, <1>2, <1>3, <1>4, <1>5 DEF CampaignInv, RunShape, AtWork, vars
<1>9. campaign # "failed" /\ (failures[Task] = 0 => campaign # "completed")
  BY <1>1 DEF CampaignInv, FailedTogether, CampaignClosed
<1>10. FirstRun'
  BY <1>1, <1>2, <1>3, <1>4, <1>5, <1>6, <1>9 DEF CampaignInv, FirstRun, AtWork
<1>11. StoredSoFar' /\ DoneIsStored'
  BY <1>1, <1>2, <1>6, DraftStep DEF Done
<1>12. CampaignClosed' /\ FailedTogether'
  BY <1>4, <1>6, <1>9 DEF CampaignClosed, FailedTogether
<1> QED
  BY <1>7, <1>8, <1>10, <1>11, <1>12 DEF CampaignInv

(* Steps of a crawler at work that leave task and tables as they are.      *)
LEMMA AtWorkStep ==
  ASSUME CampaignInv, NEW w \in Crawlers, AtWork(w), NEW r \in RunType,
         run' = [run EXCEPT ![w] = r], r.pc \in {"issues", "ingest"},
         failures[Task] = 0 /\ r.campaign = "completed" =>
            r.pc = "issues" /\ r.rest = {} /\ \A k \in Issues : r.item[k] \notin Active,
         \A v \in Crawlers \ {w} : call'[v] = call[v],
         IF r.pc = "ingest"
         THEN /\ r.issue \in Issues /\ call'[w].key = r.issue /\ r.given # <<>>
              /\ r.item[r.issue] = "downloading"
         ELSE call'[w] = Idle,
         got' \in [Issues -> SUBSET Files],
         UNCHANGED <<taskVars, source, storeVars, overruled, died, disturbances>>
  PROVE  /\ CampaignTypeOK' /\ RunShape' /\ FirstRun'
         /\ CampaignClosed' /\ FailedTogether'
<1>1. \A v \in Crawlers : run'[v] = IF v = w THEN r ELSE run[v]
  BY RunFacts
<1>2. UNCHANGED <<phase, failures, holder, campaign, item>>
  BY DEF taskVars, storeVars
<1>3. \A v \in Crawlers : AtWork(v) => v = w
  BY OneAtWork
<1>4. phase[Task] = "taken" /\ holder[Task] = w
  BY DEF CampaignInv, RunShape
<1>5. CampaignTypeOK'
  BY <1>2, RunFacts DEF CampaignInv, CampaignTypeOK, RunType
<1>6. RunShape'
  BY <1>1, <1>2, <1>3, <1>4 DEF CampaignInv, RunShape, AtWork
<1>7. FirstRun'
  BY <1>1, <1>2, <1>3 DEF CampaignInv, FirstRun, AtWork
<1>8. CampaignClosed' /\ FailedTogether'
  BY <1>2, <1>4 DEF CampaignInv, CampaignClosed, FailedTogether, NoneActive
<1> QED
  BY <1>5, <1>6, <1>7, <1>8

(* The draft of a crawler that has read the list.                          *)
LEMMA DiscoverDraft ==
  ASSUME CampaignInv, NEW w \in Crawlers, Discover(w)
  PROVE  \E r \in RunType, listed \in SUBSET Issues, changed \in SUBSET Issues :
           LET items == Inventory(listed, changed)
               started == IF campaign = "pending" THEN "running" ELSE campaign
               status == Refreshed(started, items)
           IN  /\ run' = [run EXCEPT ![w] = r]
               /\ r.pc = "issues" /\ r.rest = listed /\ r.item = items
               /\ \A k \in changed : Ingested(k)
               /\ r.campaign = IF status = campaign THEN None ELSE status
<1>1. AtWork(w)
  BY DEF Discover, AtWork
<1>2. PICK listed \in SUBSET Issues : \E changed \in SUBSET {k \in listed : Ingested(k)} :
        LET items == Inventory(listed, changed)
            started == IF campaign = "pending" THEN "running" ELSE campaign
            status == Refreshed(started, items)
        IN  run' = [run EXCEPT ![w] = [run[w] EXCEPT !.pc = "issues",
                        !.rest = listed, !.item = items,
                        !.campaign = IF status = campaign THEN None ELSE status]]
  BY DEF Discover
<1>3. PICK changed \in SUBSET {k \in listed : Ingested(k)} :
        LET items == Inventory(listed, changed)
            started == IF campaign = "pending" THEN "running" ELSE campaign
            status == Refreshed(started, items)
        IN  run' = [run EXCEPT ![w] = [run[w] EXCEPT !.pc = "issues",
                        !.rest = listed, !.item = items,
                        !.campaign = IF status = campaign THEN None ELSE status]]
  BY <1>2
<1> DEFINE items == Inventory(listed, changed)
           started == IF campaign = "pending" THEN "running" ELSE campaign
           status == Refreshed(started, items)
           draft == IF status = campaign THEN None ELSE status
<1>4. run[w] \in RunType /\ items \in [Issues -> ItemStatuses]
  BY RunFacts DEF Inventory, ItemStatuses, Active
<1>5. draft \in {"running", "completed", None}
  BY RunFacts, SeenFacts, <1>1 DEF Refreshed, CampaignStatuses
<1>6. PICK r : r = [run[w] EXCEPT !.pc = "issues", !.rest = listed, !.item = items,
                                  !.campaign = draft]
  OBVIOUS
<1>7. run' = [run EXCEPT ![w] = r]
  BY <1>3, <1>6
<1>8. /\ r \in RunType /\ r.pc = "issues" /\ r.rest = listed /\ r.item = items
      /\ r.campaign = draft
  <2> HIDE DEF items, draft
  <2> QED
    BY <1>4, <1>5, <1>6 DEF RunType
<1>9. \A k \in changed : Ingested(k)
  OBVIOUS
<1>10. changed \in SUBSET Issues
  OBVIOUS
<1> QED
  BY <1>7, <1>8, <1>9, <1>10

(* In the first run a list that is read leaves something open, unless it   *)
(* is empty.                                                               *)
LEMMA DiscoverInv ==
  ASSUME CampaignInv, NEW w \in Crawlers, Discover(w)
  PROVE  CampaignInv'
<1>1. /\ run[w].pc = "discover" /\ AtWork(w)
      /\ UNCHANGED <<vars, taskVars, source, storeVars, historyVars, disturbances>>
  BY DEF Discover, AtWork
<1>2. PICK r \in RunType, L \in SUBSET Issues, C \in SUBSET Issues :
        /\ run' = [run EXCEPT ![w] = r]
        /\ r.pc = "issues" /\ r.rest = L /\ r.item = Inventory(L, C)
        /\ \A k \in C : Ingested(k)
        /\ r.campaign = "completed" => Refreshed(IF campaign = "pending" THEN "running"
                                                 ELSE campaign, r.item) = "completed"
  BY DiscoverDraft, CrawlerAssumption
<1>5. ASSUME failures[Task] = 0, r.campaign = "completed"
      PROVE  L = {} /\ \A k \in Issues : r.item[k] \notin Active
  <2>1. campaign # "completed"
    BY <1>1, <1>5, SeenFacts
  <2>2. \A k \in Issues : r.item[k] \notin Active
    BY <1>2, <1>5, <2>1 DEF Refreshed
  <2>3. \A k \in Issues : item[k] \notin Active
    BY <1>2, <2>2 DEF Active, Inventory, Ingested
  <2>4. \A k \in Issues : item[k] = "none"
    BY <1>1, <1>5, <2>3 DEF CampaignInv, FirstRun, RunShape
  <2>5. L = {}
    BY <1>2, <2>2, <2>4 DEF Active, Inventory
  <2> QED
    BY <2>2, <2>5
<1>6. call'[w] = Idle /\ \A v \in Crawlers : call'[v] = call[v]
  BY <1>1 DEF vars, CampaignInv, RunShape
<1>7. \A k \in Issues : (r.item[k] = "done" => Done(k)) /\ (item'[k] = "done" => Done(k))
  BY <1>1, <1>2 DEF Done, storeVars, Inventory
<1>8. got' \in [Issues -> SUBSET Files] /\ UNCHANGED <<got, overruled, died>>
  BY <1>1, RunFacts DEF historyVars
<1>9. CampaignTypeOK' /\ RunShape' /\ FirstRun' /\ CampaignClosed' /\ FailedTogether'
  BY <1>1, <1>2, <1>5, <1>6, <1>8, AtWorkStep
<1>10. StoredSoFar' /\ DoneIsStored'
  BY <1>1, <1>2, <1>7, <1>8, DraftStep
<1> QED
  BY <1>9, <1>10 DEF CampaignInv

LEMMA DuplicateInv ==
  ASSUME CampaignInv, NEW w \in Crawlers, NEW k \in Issues, Duplicate(w, k)
  PROVE  CampaignInv'
<1>1. /\ run[w].pc = "issues" /\ AtWork(w) /\ k \in run[w].rest
      /\ UNCHANGED <<vars, taskVars, source, storeVars, historyVars, disturbances>>
  BY DEF Duplicate, AtWork
<1>2. run[w] \in RunType
  BY RunFacts
<1>3. PICK items : items = [run[w].item EXCEPT ![k] = "duplicate"]
  OBVIOUS
<1>4. items \in [Issues -> ItemStatuses]
  BY <1>2, <1>3 DEF RunType, ItemStatuses
<1>5. PICK r : r = [run[w] EXCEPT !.rest = run[w].rest \ {k}, !.item = items]
  OBVIOUS
<1>6. /\ r \in RunType /\ r.pc = "issues" /\ r.item = items
      /\ r.campaign = run[w].campaign /\ run' = [run EXCEPT ![w] = r]
  BY <1>1, <1>2, <1>3, <1>4, <1>5 DEF RunType, Duplicate
<1>7. ~(failures[Task] = 0 /\ r.campaign = "completed")
  BY <1>1, <1>6 DEF CampaignInv, FirstRun
<1>8. call'[w] = Idle /\ \A v \in Crawlers : call'[v] = call[v]
  BY <1>1 DEF vars, CampaignInv, RunShape
<1>9. \A j \in Issues : (r.item[j] = "done" => Done(j)) /\ (item'[j] = "done" => Done(j))
  BY <1>1, <1>2, <1>3, <1>6 DEF Done, storeVars, RunType
<1>10. got' \in [Issues -> SUBSET Files] /\ UNCHANGED <<got, overruled, died>>
  BY <1>1, RunFacts DEF historyVars
<1>11. CampaignTypeOK' /\ RunShape' /\ FirstRun' /\ CampaignClosed' /\ FailedTogether'
  BY <1>1, <1>6, <1>7, <1>8, <1>10, AtWorkStep
<1>12. StoredSoFar' /\ DoneIsStored'
  BY <1>1, <1>6, <1>9, <1>10, DraftStep
<1> QED
  BY <1>11, <1>12 DEF CampaignInv

LEMMA DownloadInv ==
  ASSUME IngestInv, CampaignInv, NEW w \in Crawlers, NEW k \in Issues, Download(w, k)
  PROVE  CampaignInv'
<1>1. /\ run[w].pc = "issues" /\ AtWork(w) /\ k \in run[w].rest
      /\ UNCHANGED <<taskVars, source, storeVars, historyVars, disturbances>>
      /\ UNCHANGED Rows
  BY DEF Download, AtWork, BeginIngest
<1>2. run[w] \in RunType /\ run \in [Crawlers -> RunType] /\ call \in [Clients -> CallType]
  BY RunFacts DEF IngestInv, TypeOK, CallType
<1>3. PICK items : items = [run[w].item EXCEPT ![k] = "downloading"]
  OBVIOUS
<1>4. items \in [Issues -> ItemStatuses] /\ items[k] = "downloading"
  BY <1>2, <1>3 DEF RunType, ItemStatuses, Active
<1>5. PICK given \in Attachments[k] :
        /\ BeginIngest(w, k, given, {})
        /\ run' = [run EXCEPT ![w] = [run[w] EXCEPT !.pc = "ingest", !.issue = k,
                      !.given = given, !.rest = run[w].rest \ {k}, !.item = items]]
  BY <1>3 DEF Download
<1>6. given \in Seq(Files) /\ given # <<>>
  BY AttachmentsAssumption
<1>7. PICK r : r = [run[w] EXCEPT !.pc = "ingest", !.issue = k, !.given = given,
                                  !.rest = run[w].rest \ {k}, !.item = items]
  OBVIOUS
<1>8. /\ r \in RunType /\ r.pc = "ingest" /\ r.item = items /\ r.issue = k
      /\ r.given = given /\ r.campaign = run[w].campaign /\ run' = [run EXCEPT ![w] = r]
  BY <1>1, <1>2, <1>4, <1>5, <1>6, <1>7 DEF RunType
<1>9. ~(failures[Task] = 0 /\ r.campaign = "completed")
  BY <1>1, <1>8 DEF CampaignInv, FirstRun
<1>10. PICK x : /\ x.key = k /\ x.todo = given /\ x.step = "lookup"
                /\ call' = [call EXCEPT ![w] = x]
  <2>1. PICK x : x = [Idle EXCEPT !.step = "lookup", !.key = k, !.todo = given, !.late = {}]
    OBVIOUS
  <2>2. x.key = k /\ x.todo = given /\ x.step = "lookup"
    BY <2>1 DEF Idle
  <2>3. call' = [call EXCEPT ![w] = x]
    BY <1>5, <2>1 DEF BeginIngest, Begin
  <2> QED
    BY <2>2, <2>3
<1>11. \A v \in Crawlers : /\ call'[v] = IF v = w THEN x ELSE call[v]
                           /\ run'[v] = IF v = w THEN r ELSE run[v]
  BY <1>2, <1>8, <1>10
<1>12. got' \in [Issues -> SUBSET Files] /\ UNCHANGED <<got, overruled, died>>
  BY <1>1, RunFacts DEF historyVars
<1>13. CampaignTypeOK' /\ RunShape' /\ FirstRun' /\ CampaignClosed' /\ FailedTogether'
  <2>1. /\ r.issue \in Issues /\ call'[w].key = r.issue /\ r.item[r.issue] = "downloading"
        /\ r.given # <<>> /\ \A v \in Crawlers \ {w} : call'[v] = call[v]
    BY <1>4, <1>6, <1>8, <1>10, <1>11
  <2> QED
    BY <1>1, <1>8, <1>9, <1>12, <2>1, AtWorkStep
<1>14. SoFar(given, x)'
  <2>1. given = SubSeq(given, 1, Len(given)) /\ 1 \in 1 .. Len(given) + 1
    BY <1>6
  <2> QED
    BY <1>10, <2>1 DEF SoFar
<1>15. StoredSoFar'
  <2>1. \A j \in Issues : \A f \in got'[j] : Stored(f)'
    BY <1>1, <1>12 DEF CampaignInv, StoredSoFar, Stored, Rows
  <2> SUFFICES ASSUME NEW v \in Crawlers, run'[v].pc = "ingest"
               PROVE  SoFar(run[v].given, call[v])'
    BY <2>1 DEF StoredSoFar
  <2>2. CASE v = w
    BY <1>8, <1>10, <1>11, <1>14, <2>2 DEF SoFar
  <2>3. CASE v # w
    BY <1>1, <1>11, <2>3, OneAtWork DEF AtWork
  <2> QED
    BY <2>2, <2>3
<1>16. \A j \in Issues : Done(j)' => Done(j)
  BY <1>1, <1>2, <1>3, <1>8, <1>11 DEF Done, storeVars, RunType
<1>17. DoneIsStored'
  BY <1>1, <1>12, <1>16 DEF CampaignInv, DoneIsStored, Stored, Rows
<1> QED
  BY <1>13, <1>15, <1>17 DEF CampaignInv

LEMMA EndItemInv ==
  ASSUME IngestInv, CampaignInv, NEW w \in Crawlers, EndItem(w)
  PROVE  CampaignInv'
<1>1. /\ run[w].pc = "ingest" /\ AtWork(w) /\ call[w].step \in {"ok", "refused"}
      /\ UNCHANGED <<taskVars, source, storeVars, overruled, died, disturbances>>
      /\ UNCHANGED Rows
      /\ call' = [call EXCEPT ![w] = Idle]
  BY DEF EndItem, AtWork, EndCall, Answer
<1>2. run[w] \in RunType /\ run \in [Crawlers -> RunType] /\ call \in [Clients -> CallType]
  BY RunFacts DEF IngestInv, TypeOK, CallType
<1>3. PICK k \in Issues, status \in {"done", "failed"} :
        k = run[w].issue /\ status = IF call[w].step = "ok" THEN "done" ELSE "failed"
  BY <1>1 DEF CampaignInv, RunShape
<1>4. PICK items : items = [run[w].item EXCEPT ![k] = status]
  OBVIOUS
<1>5. items \in [Issues -> ItemStatuses]
  BY <1>2, <1>3, <1>4 DEF RunType, ItemStatuses
<1>6. PICK r : r = [run[w] EXCEPT !.pc = "issues", !.issue = None, !.given = <<>>,
                                  !.item = items]
  OBVIOUS
<1>7. /\ r \in RunType /\ r.pc = "issues" /\ r.item = items
      /\ r.campaign = run[w].campaign
  <2>1. PICK none \in Seq(Files) : none = <<>>
    BY EmptySeq
  <2> QED
    BY <1>2, <1>5, <1>6, <2>1 DEF RunType
<1>8. run' = [run EXCEPT ![w] = r]
  BY <1>3, <1>4, <1>6 DEF EndItem
<1>9. ~(failures[Task] = 0 /\ r.campaign = "completed")
  BY <1>1, <1>7 DEF CampaignInv, FirstRun
<1>10. \A v \in Crawlers : /\ call'[v] = IF v = w THEN Idle ELSE call[v]
                           /\ run'[v] = IF v = w THEN r ELSE run[v]
  BY <1>1, <1>2, <1>8
<1>11. PICK given \in Seq(Files) :
         given = run[w].given /\ given # <<>> /\ SoFar(given, call[w])
  BY <1>1, <1>2 DEF RunType, CampaignInv, RunShape, StoredSoFar
<1>12. /\ got' = IF status = "done" THEN [got EXCEPT ![k] = FilesIn(given)] ELSE got
       /\ got \in [Issues -> SUBSET Files]
  BY <1>3, <1>11, RunFacts DEF EndItem
<1>13. FilesIn(given) \subseteq Files /\ FilesIn(given) # {}
  <2>1. 1 \in 1 .. Len(given) /\ \A i \in 1 .. Len(given) : given[i] \in Files
    BY <1>11
  <2> QED
    BY <2>1 DEF FilesIn
<1>14. status = "done" => \A f \in FilesIn(given) : Stored(f)
  BY <1>1, <1>3, <1>11 DEF SoFar, FilesIn
<1>15. got' \in [Issues -> SUBSET Files]
  BY <1>12, <1>13
<1>16. CampaignTypeOK' /\ RunShape' /\ FirstRun' /\ CampaignClosed' /\ FailedTogether'
  <2>1. call'[w] = Idle /\ \A v \in Crawlers \ {w} : call'[v] = call[v]
    BY <1>10
  <2> QED
    BY <1>1, <1>7, <1>8, <1>9, <1>15, <2>1, AtWorkStep
<1>17. \A j \in Issues : \A f \in got'[j] : Stored(f)
  BY <1>12, <1>14 DEF CampaignInv, StoredSoFar
<1>18. StoredSoFar'
  BY <1>1, <1>7, <1>10, <1>17, OneAtWork DEF StoredSoFar, AtWork, Stored, Rows
<1>19. DoneIsStored'
  <2> SUFFICES ASSUME NEW j \in Issues, Done(j)' PROVE got'[j] # {}
    BY <1>1, <1>17 DEF DoneIsStored, Stored, Rows
  <2>1. CASE Done(j)
    BY <1>12, <1>13, <2>1 DEF CampaignInv, DoneIsStored
  <2>2. CASE ~Done(j)
    <3>1. j = k /\ status = "done"
      BY <1>1, <1>2, <1>4, <1>7, <1>10, <2>2 DEF Done, storeVars, RunType
    <3> QED
      BY <1>12, <1>13, <3>1
  <2> QED
    BY <2>1, <2>2
<1> QED
  BY <1>16, <1>18, <1>19 DEF CampaignInv

(* Registering a file makes the draft what the tables say.                 *)
LEMMA RegisterInv ==
  ASSUME IngestInv, CampaignInv, NEW w \in Crawlers, Register(w)
  PROVE  CampaignInv'
<1>1. /\ call[w].step = "lookup" /\ UNCHANGED Rows
      /\ UNCHANGED <<taskVars, source, historyVars, disturbances>>
      /\ campaign' = Seen(w) /\ item' = run[w].item
  BY DEF Register, Lookup, CommitDraft
<1>2. /\ run[w].pc = "ingest" /\ AtWork(w) /\ call[w].key = run[w].issue
      /\ run[w].issue \in Issues /\ run[w].item[run[w].issue] = "downloading"
      /\ run[w].given # <<>>
  BY <1>1 DEF Register, CampaignInv, RunShape, AtWork
<1>3. run[w] \in RunType /\ call \in [Clients -> CallType]
  BY RunFacts DEF IngestInv, TypeOK, CallType
<1>4. phase[Task] = "taken" /\ \A v \in Crawlers : AtWork(v) => v = w
  BY <1>2, OneAtWork DEF CampaignInv, RunShape
<1>5. PICK x, y : /\ y = call[w] /\ y.step = "lookup"
                  /\ call' = [call EXCEPT ![w] = x] /\ x.key = y.key /\ x.todo = y.todo
                  /\ x.step \in {"attach", "create", "fold"}
  <2>1. CASE Goto(w, "attach") \/ Goto(w, "create")
    <3>1. PICK s \in {"attach", "create"} : call' = [call EXCEPT ![w] = [call[w] EXCEPT !.step = s]]
      BY <2>1 DEF Goto
    <3>2. PICK x : x = [call[w] EXCEPT !.step = s]
      OBVIOUS
    <3>3. x.key = call[w].key /\ x.todo = call[w].todo /\ x.step = s
      BY <1>3, <3>2 DEF CallType
    <3> QED
      BY <1>1, <3>1, <3>2, <3>3
  <2>2. CASE \E a \in Ids : call' = [call EXCEPT ![w] =
                [call[w] EXCEPT !.step = "fold", !.archive = a]]
    <3>1. PICK a \in Ids : call' = [call EXCEPT ![w] =
                  [call[w] EXCEPT !.step = "fold", !.archive = a]]
      BY <2>2
    <3>2. PICK x : x = [call[w] EXCEPT !.step = "fold", !.archive = a]
      OBVIOUS
    <3>3. x.key = call[w].key /\ x.todo = call[w].todo /\ x.step = "fold"
      BY <1>3, <3>2 DEF CallType
    <3> QED
      BY <1>1, <3>1, <3>2, <3>3
  <2> QED
    BY <2>1, <2>2 DEF Register, Lookup
<1>6. PICK r \in RunType :
        /\ run' = [run EXCEPT ![w] = r]
        /\ r.campaign = None /\ r.pc = "ingest" /\ r.issue = run[w].issue
        /\ r.given = run[w].given /\ r.item = run[w].item
  <2>1. PICK r : r = [run[w] EXCEPT !.campaign = None]
    OBVIOUS
  <2>2. /\ r \in RunType /\ r.campaign = None /\ r.pc = run[w].pc
        /\ r.issue = run[w].issue /\ r.given = run[w].given /\ r.item = run[w].item
    BY <1>3, <2>1 DEF RunType
  <2> QED
    BY <1>2, <2>1, <2>2 DEF Register
<1>7. \A v \in Crawlers : /\ call'[v] = IF v = w THEN x ELSE call[v]
                          /\ run'[v] = IF v = w THEN r ELSE run[v]
  BY <1>3, <1>5, <1>6, RunFacts
<1>8. /\ campaign' \in CampaignStatuses \ {"failed"}
      /\ failures[Task] = 0 => campaign' # "completed"
  BY <1>1, <1>2, SeenFacts
<1>9. CampaignTypeOK'
  BY <1>1, <1>3, <1>6, <1>8, RunFacts
     DEF CampaignInv, CampaignTypeOK, RunType, taskVars, historyVars
<1>10. RunShape'
  BY <1>1, <1>2, <1>5, <1>6, <1>7 DEF CampaignInv, RunShape, AtWork, taskVars
<1>11. FirstRun'
  <2>1. \E k \in Issues : item'[k] \in Active
    BY <1>1, <1>2 DEF Active
  <2>2. \A v \in Crawlers : AtWork(v)' => run'[v].campaign # "completed"
    BY <1>4, <1>6, <1>7, CrawlerAssumption DEF AtWork
  <2> QED
    BY <2>1, <2>2 DEF FirstRun
<1>12. StoredSoFar'
  <2>1. \A j \in Issues : \A f \in got'[j] : Stored(f)'
    BY <1>1 DEF CampaignInv, StoredSoFar, Stored, Rows, historyVars
  <2> SUFFICES ASSUME NEW v \in Crawlers, run'[v].pc = "ingest"
               PROVE  SoFar(run[v].given, call[v])'
    BY <2>1 DEF StoredSoFar
  <2>2. v = w
    BY <1>4, <1>7 DEF AtWork
  <2>3. PICK given : given = run[w].given /\ SoFar(given, y)
    BY <1>2, <1>5 DEF CampaignInv, StoredSoFar
  <2>4. SoFar(given, x)'
    BY <1>1, <1>5, <2>3 DEF SoFar, Stored, Rows
  <2>5. run'[v].given = given /\ call'[v] = x
    BY <1>6, <1>7, <2>2, <2>3
  <2> QED
    BY <2>4, <2>5 DEF SoFar
<1>13. \A k \in Issues : Done(k)' => Done(k)
  BY <1>1, <1>6, <1>7 DEF Done
<1>14. DoneIsStored'
  BY <1>1, <1>13 DEF CampaignInv, DoneIsStored, Stored, Rows, historyVars
<1>15. CampaignClosed' /\ FailedTogether'
  BY <1>1, <1>4, <1>8 DEF CampaignClosed, FailedTogether, taskVars
<1> QED
  BY <1>9, <1>10, <1>11, <1>12, <1>14, <1>15 DEF CampaignInv

(* A crawler that lets go of its run.                                      *)
LEMMA RestFacts ==
  ASSUME CampaignInv, NEW w \in Crawlers, Rest(w)
  PROVE  /\ run' \in [Crawlers -> RunType]
         /\ \A v \in Crawlers : run'[v] = IF v = w THEN Resting ELSE run[v]
         /\ ~AtWork(w)' /\ Resting.pc = "idle"
         /\ \A k \in Issues : Resting.item[k] # "done"
BY RunFacts, RestingType DEF Rest, AtWork

LEMMA FinishInv ==
  ASSUME CampaignInv, NEW w \in Crawlers, Finish(w)
  PROVE  CampaignInv'
<1>1. /\ run[w].pc = "issues" /\ AtWork(w) /\ Rest(w)
      /\ UNCHANGED <<vars, source, historyVars, disturbances>>
      /\ campaign' = Refreshed(Seen(w), run[w].item) /\ item' = run[w].item
  BY DEF Finish, AtWork
<1>2. phase'[Task] = "done" /\ holder'[Task] = None /\ failures' = failures
  BY RunFacts DEF Finish, Queue!Finish, CampaignInv, CampaignTypeOK
<1>3. /\ phase' \in [{Task} -> {"waiting", "taken", "done", "dead"}]
      /\ holder' \in [{Task} -> Crawlers \cup {None}]
      /\ failures' \in [{Task} -> 0 .. MaxAttempts]
  BY DEF Finish, Queue!Finish, CampaignInv, CampaignTypeOK
<1>4. run[w] \in RunType /\ \A v \in Crawlers : AtWork(v) => v = w
  BY <1>1, RunFacts, OneAtWork
<1>5. /\ campaign' \in CampaignStatuses \ {"failed"} /\ item' \in [Issues -> ItemStatuses]
      /\ UNCHANGED <<got, overruled, died>>
  BY <1>1, <1>4, SeenFacts DEF RunType, Refreshed, CampaignStatuses, historyVars
<1>6. CampaignTypeOK'
  BY <1>1, <1>3, <1>5, RestFacts DEF CampaignInv, CampaignTypeOK, RunType
<1>7. \A v \in Crawlers : run'[v] = Resting \/ (run'[v] = run[v] /\ ~AtWork(v))
  BY <1>1, <1>4, RestFacts
<1>8. phase[Task] = "taken"
  BY <1>1 DEF CampaignInv, RunShape
<1>9. RunShape'
  BY <1>1, <1>2, <1>7, <1>8, RestFacts DEF CampaignInv, RunShape, AtWork, vars
<1>10. \A v \in Crawlers : ~AtWork(v)'
  BY <1>1, <1>7, RestFacts DEF AtWork
<1>11. FirstRun'
  BY <1>2, <1>10 DEF FirstRun
<1>12. StoredSoFar' /\ DoneIsStored'
  BY <1>1, <1>5, DraftStep, RestingType DEF Rest, Done
<1>13. CampaignClosed'
  <2>1. (\A k \in Issues : item'[k] \notin Active) => campaign' = "completed"
    BY <1>1, SeenFacts DEF Refreshed
  <2>2. campaign' = "completed" /\ failures[Task] = 0 => \A k \in Issues : item'[k] \notin Active
    BY <1>1, SeenFacts DEF Refreshed
  <2> QED
    BY <1>2, <2>1, <2>2 DEF CampaignClosed, NoneActive
<1>14. FailedTogether'
  BY <1>2, <1>5 DEF FailedTogether
<1> QED
  BY <1>6, <1>9, <1>11, <1>12, <1>13, <1>14 DEF CampaignInv

LEMMA FailTaskInv ==
  ASSUME CampaignInv, NEW w \in Crawlers, AtWork(w), run[w].pc # "ingest", FailTask(w),
         campaign' \in CampaignStatuses \ {"failed"}, item' \in [Issues -> ItemStatuses],
         \A k \in Issues : item'[k] = "done" => Done(k)
  PROVE  CampaignInv'
<1>1. UNCHANGED <<vars, source, historyVars, disturbances>>
  BY DEF FailTask
<1>2. PICK r \in RunType :
        /\ run' = [run EXCEPT ![w] = r]
        /\ r.pc = IF failures[Task] + 1 = MaxAttempts THEN "bury" ELSE "retry"
        /\ \A k \in Issues : r.item[k] # "done"
  <2>1. PICK pc \in {"bury", "retry"} :
          pc = IF failures[Task] + 1 = MaxAttempts THEN "bury" ELSE "retry"
    OBVIOUS
  <2>2. PICK r : r = [Resting EXCEPT !.pc = pc]
    OBVIOUS
  <2>3. r \in RunType /\ r.pc = pc /\ \A k \in Issues : r.item[k] # "done"
    BY <2>2, RestingType DEF RunType
  <2> QED
    BY <2>1, <2>2, <2>3 DEF FailTask
<1>3. \A v \in Crawlers : run'[v] = IF v = w THEN r ELSE run[v]
  BY <1>2, RunFacts
<1>4. /\ phase' \in [{Task} -> {"waiting", "dead"}]
      /\ holder' \in [{Task} -> Crawlers \cup {None}]
      /\ failures' \in [{Task} -> 0 .. MaxAttempts] /\ failures'[Task] > 0
      /\ phase'[Task] = IF failures[Task] + 1 = MaxAttempts THEN "dead" ELSE "waiting"
  BY DEF FailTask, Queue!Fail, CampaignInv, CampaignTypeOK
<1>5. phase'[Task] \in {"waiting", "dead"} /\ phase[Task] = "taken"
  BY <1>4 DEF CampaignInv, RunShape
<1>6. run[w] \in RunType /\ \A v \in Crawlers : AtWork(v) => v = w
  BY <1>1, RunFacts, OneAtWork
<1>7. UNCHANGED <<got, overruled, died>>
  BY <1>1 DEF historyVars
<1>8. CampaignTypeOK'
  BY <1>1, <1>2, <1>4, <1>6, <1>7, RunFacts DEF CampaignInv, CampaignTypeOK, RunType
<1>9. \A v \in Crawlers : ~AtWork(v)'
  BY <1>2, <1>3, <1>6 DEF AtWork
<1>10. RunShape'
  <2>1. \A v \in Crawlers : run[v].pc # "bury"
    BY <1>5 DEF CampaignInv, RunShape
  <2> QED
    BY <1>1, <1>2, <1>3, <1>4, <1>9, <2>1 DEF CampaignInv, RunShape, AtWork, vars
<1>11. FirstRun'
  BY <1>4, <1>9 DEF FirstRun
<1>12. StoredSoFar' /\ DoneIsStored'
  BY <1>1, <1>2, <1>7, DraftStep DEF Done
<1>13. CampaignClosed'
  BY <1>4, <1>5 DEF CampaignClosed
<1>14. FailedTogether'
  BY <1>2, <1>3, <1>4 DEF FailedTogether
<1> QED
  BY <1>8, <1>10, <1>11, <1>12, <1>13, <1>14 DEF CampaignInv

LEMMA FailsInv ==
  ASSUME CampaignInv, NEW w \in Crawlers, ListFails(w) \/ RunFails(w)
  PROVE  CampaignInv'
<1>1. AtWork(w) /\ run[w].pc # "ingest" /\ FailTask(w)
  BY DEF ListFails, RunFails, AtWork
<1>2. /\ campaign' \in {campaign, Seen(w)} /\ item' \in {item, run[w].item}
  BY DEF ListFails, RunFails, CommitDraft, storeVars
<1>3. /\ campaign' \in CampaignStatuses \ {"failed"} /\ item' \in [Issues -> ItemStatuses]
      /\ \A k \in Issues : item'[k] = "done" => Done(k)
  BY <1>1, <1>2, SeenFacts, RunFacts DEF RunType, Done
<1> QED
  BY <1>1, <1>3, FailTaskInv

(* What a crawler whose run has failed does to its campaign.               *)
LEMMA AfterwardsInv ==
  ASSUME CampaignInv, NEW w \in Crawlers, MarkFailed(w) \/ ReadCampaign(w) \/ MarkRunning(w)
  PROVE  CampaignInv'
<1>1. /\ run[w].pc \in {"bury", "retry", "mark"}
      /\ UNCHANGED <<vars, taskVars, source, item, got, died, disturbances>>
  BY DEF MarkFailed, ReadCampaign, MarkRunning, storeVars, historyVars
<1>2. PICK r \in RunType :
        /\ run' = [run EXCEPT ![w] = r]
        /\ r.pc = "idle" \/ (r.pc = "mark" /\ run[w].pc = "retry")
        /\ \A k \in Issues : r.item[k] # "done"
  <2>1. CASE ReadCampaign(w)
    <3>1. PICK pc \in {"mark", "idle"} : pc = IF campaign = "pending" THEN "mark" ELSE "idle"
      OBVIOUS
    <3>2. PICK r : r = [Resting EXCEPT !.pc = pc]
      OBVIOUS
    <3>3. r \in RunType /\ r.pc = pc /\ \A k \in Issues : r.item[k] # "done"
      BY <3>2, RestingType DEF RunType
    <3> QED
      BY <2>1, <3>1, <3>2, <3>3 DEF ReadCampaign
  <2>2. CASE Rest(w)
    BY <2>2, RestingType DEF Rest
  <2> QED
    BY <2>1, <2>2 DEF MarkFailed, MarkRunning
<1>3. \A v \in Crawlers : run'[v] = IF v = w THEN r ELSE run[v]
  BY <1>2, RunFacts
<1>4. UNCHANGED <<phase, failures, holder>>
  BY <1>1 DEF taskVars
<1>5. \/ run[w].pc = "bury" /\ campaign' = "failed"
      \/ campaign' = campaign /\ run[w].pc = "retry"
      \/ /\ run[w].pc = "mark" /\ campaign' = "running"
         /\ campaign \in {"completed", "failed"} => overruled'
  BY DEF MarkFailed, ReadCampaign, MarkRunning, storeVars
<1>6. overruled => overruled'
  BY Zenon DEF MarkFailed, ReadCampaign, MarkRunning, historyVars
<1>6a. overruled' \in BOOLEAN
  BY Zenon DEF MarkFailed, ReadCampaign, MarkRunning, historyVars, CampaignInv, CampaignTypeOK
<1>6b. campaign' \in CampaignStatuses
  BY <1>5, RunFacts DEF CampaignStatuses
<1>7. CampaignTypeOK'
  BY <1>1, <1>2, <1>4, <1>6a, <1>6b, RunFacts DEF CampaignInv, CampaignTypeOK, RunType
<1>8. \A v \in Crawlers : AtWork(v)' => AtWork(v) /\ v # w /\ run'[v] = run[v]
  BY <1>2, <1>3 DEF AtWork
<1>9. RunShape'
  BY <1>1, <1>2, <1>3, <1>4, <1>8 DEF CampaignInv, RunShape, AtWork, vars
<1>10. FirstRun'
  BY <1>1, <1>4, <1>8 DEF CampaignInv, FirstRun
<1>11. StoredSoFar' /\ DoneIsStored'
  BY <1>1, <1>2, DraftStep DEF Done
<1>12. run[w].pc = "bury" => phase[Task] = "dead"
  BY DEF CampaignInv, RunShape
<1>13. CampaignClosed'
  <2>1. ASSUME phase[Task] = "done", NoneActive PROVE campaign' = "completed" \/ overruled'
    <3>1. campaign = "completed" \/ overruled
      BY <2>1 DEF CampaignInv, CampaignClosed
    <3> QED
      BY <1>5, <1>6, <1>12, <2>1, <3>1
  <2>2. ASSUME campaign' = "completed", failures[Task] = 0
        PROVE  phase[Task] = "done" /\ NoneActive
    BY <1>5, <2>2 DEF CampaignInv, CampaignClosed
  <2> QED
    BY <1>1, <1>4, <2>1, <2>2 DEF CampaignClosed, NoneActive
<1>14. FailedTogether'
  <2>1. campaign' = "failed" => phase[Task] = "dead"
    BY <1>5, <1>12 DEF CampaignInv, FailedTogether
  <2>2. ASSUME phase[Task] = "dead"
        PROVE  \/ campaign' = "failed" \/ died \/ overruled'
               \/ \E v \in Crawlers : run'[v].pc = "bury"
    <3>1. \/ campaign = "failed" \/ died \/ overruled
          \/ \E v \in Crawlers : run[v].pc = "bury"
      BY <2>2 DEF CampaignInv, FailedTogether
    <3>2. CASE \E v \in Crawlers : run[v].pc = "bury"
      BY <1>3, <1>5, <3>2
    <3> QED
      BY <1>1, <1>5, <1>6, <3>1, <3>2
  <2> QED
    BY <1>1, <1>4, <2>1, <2>2 DEF FailedTogether
<1> QED
  BY <1>7, <1>9, <1>10, <1>11, <1>13, <1>14 DEF CampaignInv

LEMMA LoseSessionInv ==
  ASSUME IngestInv, CampaignInv, NEW w \in Crawlers, BreakDown(w) \/ Crash(w)
  PROVE  CampaignInv'
<1>1. /\ Rest(w) /\ Queue!Abandon(w) /\ call' = [call EXCEPT ![w] = Idle]
      /\ UNCHANGED <<Rows, source, campaign, item, got, overruled>>
      /\ disturbances' \in 0 .. MaxDisturbances
      /\ died' = TRUE \/ (died' = died /\ run[w].pc = "ingest")
  BY DEF BreakDown, Crash, Disturb, LoseSession, storeVars, CampaignInv, CampaignTypeOK
<1>2. /\ phase' = phase /\ failures' = failures
      /\ holder' = [t \in {Task} |-> IF holder[t] = w THEN None ELSE holder[t]]
  BY <1>1 DEF Queue!Abandon
<1>3. \A v \in Crawlers : call'[v] = IF v = w THEN Idle ELSE call[v]
  BY <1>1 DEF IngestInv, TypeOK
<1>4. CampaignTypeOK'
  BY <1>1, <1>2, RestFacts DEF CampaignInv, CampaignTypeOK, RunType
<1>5. RunShape'
  BY <1>1, <1>2, <1>3, RestFacts DEF CampaignInv, RunShape, AtWork
<1>6. FirstRun'
  BY <1>1, <1>2, RestFacts DEF CampaignInv, FirstRun, AtWork
<1>7. StoredSoFar'
  <2>1. \A j \in Issues : \A f \in got'[j] : Stored(f)'
    BY <1>1 DEF CampaignInv, StoredSoFar, Stored, Rows
  <2> SUFFICES ASSUME NEW v \in Crawlers, run'[v].pc = "ingest"
               PROVE  SoFar(run[v].given, call[v])'
    BY <2>1 DEF StoredSoFar
  <2>2. run'[v] = run[v] /\ call'[v] = call[v]
    BY <1>1, <1>3, RestFacts
  <2>3. SoFar(run[v].given, call[v])
    BY <2>2 DEF CampaignInv, StoredSoFar
  <2> QED
    BY <1>1, <2>2, <2>3 DEF SoFar, Stored, Rows
<1>8. \A k \in Issues : Done(k)' => Done(k)
  BY <1>1, RestFacts DEF Done
<1>9. DoneIsStored'
  BY <1>1, <1>8 DEF CampaignInv, DoneIsStored, Stored, Rows
<1>10. CampaignClosed'
  BY <1>1, <1>2 DEF CampaignInv, CampaignClosed, NoneActive
<1>11. FailedTogether'
  <2>1. phase[Task] = "dead" /\ run[w].pc = "ingest" =>
           \/ campaign = "failed" \/ died \/ overruled
           \/ \E v \in Crawlers \ {w} : run[v].pc = "bury"
    BY DEF CampaignInv, FailedTogether
  <2> QED
    BY <1>1, <1>2, <2>1, RestFacts DEF CampaignInv, FailedTogether
<1> QED
  BY <1>4, <1>5, <1>6, <1>7, <1>9, <1>10, <1>11 DEF CampaignInv

-----------------------------------------------------------------------------
(* The theorems.                                                           *)

LEMMA NextCampaignInv ==
  IngestInv /\ CampaignInv /\ [CampaignNext]_campaignVars => CampaignInv'
<1> SUFFICES ASSUME IngestInv, CampaignInv, [CampaignNext]_campaignVars PROVE CampaignInv'
  OBVIOUS
<1>1. ASSUME NEW w \in Crawlers, CrawlerStep(w) PROVE CampaignInv'
  BY <1>1, LeaseInv, RegisterInv, IngestSteps, EndItemInv, FinishInv, AfterwardsInv,
     LoseSessionInv, DiscoverInv, DuplicateInv, DownloadInv DEF CrawlerStep
<1>2. ASSUME NEW w \in Crawlers,
             DownloadFails(w) \/ ListFails(w) \/ RunFails(w) \/ Crash(w)
      PROVE  CampaignInv'
  BY <1>2, IngestSteps, FailsInv, LoseSessionInv
<1>3. ASSUME NEW c \in Clients \ Crawlers, WebStep(c) \/ FetchJob(c) PROVE CampaignInv'
  BY <1>3, WebSteps
<1>4. CASE UNCHANGED campaignVars
  <2>1. /\ disturbances' \in 0 .. MaxDisturbances
        /\ source' \in {"active", "manual_recovery"} /\ UNCHANGED vars
    BY <1>4 DEF campaignVars, CampaignInv, CampaignTypeOK
  <2> QED
    BY <1>4, <2>1, OthersStep DEF campaignVars, taskVars, storeVars, historyVars, vars
<1> QED
  BY <1>1, <1>2, <1>3, <1>4, RequestStep, SourceStep DEF CampaignNext

(* What crawler, task, campaign, items and archives have to do with each   *)
(* other, whoever steps next.                                              *)
THEOREM CampaignInvariant == CampaignSpec => []CampaignInv
<1>1. CampaignInit => CampaignInv
  BY InitCampaignInv
<1> QED
  BY <1>1, NextCampaignInv, CampaignIngestInvariant, PTL DEF CampaignSpec

(* An issue that is recorded as done has stored what the adapter had       *)
(* downloaded of it.                                                       *)
THEOREM DoneItemsAreStored == CampaignSpec => []DoneIsStored
<1>1. CampaignInv => DoneIsStored
  BY DEF CampaignInv
<1> QED
  BY <1>1, CampaignInvariant, PTL

(* A task that ends with no open item completes its campaign, and nothing  *)
(* else does before a run has failed.                                      *)
THEOREM CampaignIsClosed == CampaignSpec => []CampaignClosed
<1>1. CampaignInv => CampaignClosed
  BY DEF CampaignInv
<1> QED
  BY <1>1, CampaignInvariant, PTL

(* A campaign fails with its task unless a crawler dies between the writes.*)
THEOREM CampaignFailsWithTask == CampaignSpec => []FailedTogether
<1>1. CampaignInv => FailedTogether
  BY DEF CampaignInv
<1> QED
  BY <1>1, CampaignInvariant, PTL

-----------------------------------------------------------------------------
(* What was committed stands.                                              *)

(* The draft of a crawler goes on from what is committed.                  *)
Drafting == {"issues", "ingest"}
Follows(x, status, items) ==
    /\ status = "completed" => x.campaign # "running"
    /\ \A k \in Issues : items[k] # "none" => x.item[k] # "none"
DraftFollows == \A w \in Crawlers : run[w].pc \in Drafting => Follows(run[w], campaign, item)

Stands ==
    /\ campaign \in {"completed", "failed"} =>
          \/ campaign' \in {campaign, "failed"}
          \/ campaign' = "running" /\ \E w \in Waiting : Waiting' = Waiting \ {w}
    /\ \A k \in Issues : item[k] # "none" => item'[k] # "none"

(* A transaction that commits nothing about the campaign.                  *)
LEMMA DraftMoves ==
  ASSUME CampaignInv, DraftFollows, UNCHANGED storeVars, NEW w \in Crawlers, NEW r,
         run' = [run EXCEPT ![w] = r],
         r.pc \in Drafting => Follows(r, campaign, item)
  PROVE  DraftFollows' /\ Stands
<1>1. \A v \in Crawlers : run'[v] = IF v = w THEN r ELSE run[v]
  BY RunFacts
<1> QED
  BY <1>1 DEF DraftFollows, Stands, storeVars, Follows

(* A crawler at work on an issue goes on with its draft.                   *)
LEMMA ItemMoves ==
  ASSUME CampaignInv, DraftFollows, UNCHANGED storeVars, NEW w \in Crawlers, NEW r,
         run' = [run EXCEPT ![w] = r], run[w].pc \in Drafting,
         \A k \in Issues : run[w].item[k] # "none" => r.item[k] # "none",
         r.campaign = run[w].campaign
  PROVE  DraftFollows' /\ Stands
<1>1. Follows(r, campaign, item)
  BY DEF DraftFollows, Follows
<1> QED
  BY <1>1, DraftMoves

(* A transaction that commits a draft.                                     *)
LEMMA DraftCommitted ==
  ASSUME CampaignInv, DraftFollows, NEW w \in Crawlers, run[w].pc \in Drafting,
         campaign' \in {Seen(w), "completed"}, item' = run[w].item,
         NEW r, run' = [run EXCEPT ![w] = r], r.campaign = None,
         r.pc \in Drafting => r.item = run[w].item
  PROVE  DraftFollows' /\ Stands
<1>1. \A v \in Crawlers : run'[v] = IF v = w THEN r ELSE run[v]
  BY RunFacts
<1>2. \A v \in Crawlers \ {w} : run[v].pc \notin Drafting
  BY OneAtWork DEF AtWork, Drafting
<1>3. DraftFollows'
  BY <1>1, <1>2, CrawlerAssumption DEF DraftFollows, Follows
<1>4. campaign # "failed"
  BY SeenFacts DEF AtWork, Drafting
<1>5. campaign = "completed" => campaign' = "completed"
  BY RunFacts DEF DraftFollows, Follows, Seen, RunType
<1>6. Stands
  BY <1>4, <1>5 DEF DraftFollows, Follows, Stands
<1> QED
  BY <1>3, <1>6

LEMMA DiscoverFollows ==
  ASSUME CampaignInv, DraftFollows, NEW w \in Crawlers, Discover(w)
  PROVE  DraftFollows' /\ Stands
<1>1. UNCHANGED storeVars
  BY DEF Discover
<1>2. PICK r \in RunType, L \in SUBSET Issues, C \in SUBSET Issues :
        LET items == Inventory(L, C)
            started == IF campaign = "pending" THEN "running" ELSE campaign
            status == Refreshed(started, items)
        IN  /\ run' = [run EXCEPT ![w] = r]
            /\ r.pc = "issues" /\ r.rest = L /\ r.item = items
            /\ \A k \in C : Ingested(k)
            /\ r.campaign = IF status = campaign THEN None ELSE status
  BY DiscoverDraft
<1>3. campaign = "completed" => r.campaign # "running"
  BY <1>2, CrawlerAssumption DEF Refreshed
<1>4. \A k \in Issues : item[k] # "none" => r.item[k] # "none"
  BY <1>2 DEF Inventory
<1> QED
  BY <1>1, <1>2, <1>3, <1>4, DraftMoves DEF Follows

LEMMA OutcomeStep ==
  ASSUME IngestInv, CampaignInv, DraftFollows, [CampaignNext]_campaignVars
  PROVE  DraftFollows' /\ Stands
<1>1. CASE UNCHANGED <<run, campaign, item>>
  BY <1>1 DEF DraftFollows, Follows, Stands
<1>2. ASSUME NEW w \in Crawlers, Lease(w) PROVE DraftFollows' /\ Stands
  <2>1. UNCHANGED storeVars
    BY <1>2 DEF Lease
  <2>2. PICK r : r = [Resting EXCEPT !.pc = "discover"]
    OBVIOUS
  <2>3. run' = [run EXCEPT ![w] = r] /\ r.pc = "discover"
    BY <1>2, <2>2 DEF Lease, Resting
  <2> QED
    BY <2>1, <2>3, DraftMoves DEF Drafting
<1>3. ASSUME NEW w \in Crawlers, Register(w) PROVE DraftFollows' /\ Stands
  <2>1. run[w].pc \in Drafting /\ campaign' = Seen(w) /\ item' = run[w].item
    BY <1>3 DEF Register, CommitDraft, Drafting
  <2>2. PICK r : r = [run[w] EXCEPT !.campaign = None]
    OBVIOUS
  <2>3. run' = [run EXCEPT ![w] = r] /\ r.campaign = None /\ r.item = run[w].item
    BY <1>3, <2>2, RunFacts DEF Register, RunType
  <2> QED
    BY <2>1, <2>3, DraftCommitted
<1>4. ASSUME NEW w \in Crawlers, Finish(w) \/ RunFails(w) PROVE DraftFollows' /\ Stands
  <2>1. /\ run[w].pc \in Drafting /\ campaign' \in {Seen(w), "completed"}
        /\ item' = run[w].item
    BY <1>4 DEF Finish, RunFails, CommitDraft, Drafting, Refreshed
  <2>2. CASE Finish(w)
    BY <2>1, <2>2, DraftCommitted, RestingType DEF Finish, Rest, Drafting
  <2>3. CASE RunFails(w)
    <3>1. PICK pc \in {"bury", "retry"} :
            run' = [run EXCEPT ![w] = [Resting EXCEPT !.pc = pc]]
      BY <2>3 DEF RunFails, FailTask
    <3>2. PICK r : r = [Resting EXCEPT !.pc = pc]
      OBVIOUS
    <3>3. r.campaign = None /\ r.pc \notin Drafting
      BY <3>1, <3>2 DEF Resting, Drafting
    <3> QED
      BY <2>1, <3>1, <3>2, <3>3, DraftCommitted
  <2> QED
    BY <1>4, <2>2, <2>3
<1>5. ASSUME NEW w \in Crawlers, ListFails(w) \/ ReadCampaign(w) PROVE DraftFollows' /\ Stands
  <2>1. PICK pc \in {"idle", "bury", "retry", "mark"} :
          run' = [run EXCEPT ![w] = [Resting EXCEPT !.pc = pc]]
    BY <1>5 DEF ListFails, FailTask, ReadCampaign
  <2>2. PICK r : r = [Resting EXCEPT !.pc = pc]
    OBVIOUS
  <2>3. r.pc \notin Drafting
    BY <2>1, <2>2 DEF Resting, Drafting
  <2>4. UNCHANGED storeVars
    BY <1>5 DEF ListFails, ReadCampaign
  <2> QED
    BY <2>1, <2>2, <2>3, <2>4, DraftMoves
<1>6. ASSUME NEW w \in Crawlers, MarkFailed(w) \/ MarkRunning(w) PROVE DraftFollows' /\ Stands
  <2>1. /\ campaign' \in {"failed", "running"} /\ item' = item
        /\ run[w].pc \in {"bury", "mark"} /\ run' = [run EXCEPT ![w] = Resting]
        /\ campaign' = "running" => run[w].pc = "mark"
    BY <1>6 DEF MarkFailed, MarkRunning, Rest
  <2>2. \A v \in Crawlers : run'[v] = IF v = w THEN Resting ELSE run[v]
    BY <2>1, RunFacts
  <2>3. DraftFollows'
    BY <2>1, <2>2, RestingType DEF DraftFollows, Follows, Drafting
  <2>4. Waiting' = Waiting \ {w}
    BY <2>2, RestingType DEF Waiting
  <2>5. run[w].pc = "mark" => w \in Waiting
    BY DEF Waiting
  <2> QED
    BY <2>1, <2>3, <2>4, <2>5 DEF Stands
<1>7. ASSUME NEW w \in Crawlers, NEW k \in Issues, Duplicate(w, k) \/ Download(w, k)
      PROVE  DraftFollows' /\ Stands
  <2>1. run[w].pc \in Drafting /\ UNCHANGED storeVars
    BY <1>7 DEF Duplicate, Download, Drafting
  <2>2. CASE Duplicate(w, k)
    <3>1. PICK items : items = [run[w].item EXCEPT ![k] = "duplicate"]
      OBVIOUS
    <3>2. PICK r : r = [run[w] EXCEPT !.rest = run[w].rest \ {k}, !.item = items]
      OBVIOUS
    <3>3. run' = [run EXCEPT ![w] = r] /\ r.item = items /\ r.campaign = run[w].campaign
      BY <2>2, <3>1, <3>2, RunFacts DEF Duplicate, RunType
    <3>5. \A j \in Issues : run[w].item[j] # "none" => r.item[j] # "none"
      BY <3>1, <3>3, RunFacts DEF RunType
    <3> QED
      BY <2>1, <3>5, <3>3, ItemMoves
  <2>3. CASE Download(w, k)
    <3>1. PICK items : items = [run[w].item EXCEPT ![k] = "downloading"]
      OBVIOUS
    <3>2. PICK given \in Attachments[k] :
            run' = [run EXCEPT ![w] = [run[w] EXCEPT !.pc = "ingest", !.issue = k,
                      !.given = given, !.rest = run[w].rest \ {k}, !.item = items]]
      BY <2>3, <3>1 DEF Download
    <3>3. PICK r : r = [run[w] EXCEPT !.pc = "ingest", !.issue = k,
                      !.given = given, !.rest = run[w].rest \ {k}, !.item = items]
      OBVIOUS
    <3>4. run' = [run EXCEPT ![w] = r] /\ r.item = items /\ r.campaign = run[w].campaign
      BY <3>2, <3>3, RunFacts DEF RunType
    <3>5. \A j \in Issues : run[w].item[j] # "none" => r.item[j] # "none"
      BY <3>1, <3>4, RunFacts DEF RunType
    <3> QED
      BY <2>1, <3>5, <3>4, ItemMoves
  <2> QED
    BY <1>7, <2>2, <2>3
<1>8. ASSUME NEW w \in Crawlers, EndItem(w) PROVE DraftFollows' /\ Stands
  <2>1. run[w].pc \in Drafting /\ UNCHANGED storeVars
    BY <1>8 DEF EndItem, Drafting
  <2>2. PICK s \in {"done", "failed"} : s = IF call[w].step = "ok" THEN "done" ELSE "failed"
    OBVIOUS
  <2>3. PICK items : items = [run[w].item EXCEPT ![run[w].issue] = s]
    OBVIOUS
  <2>4. PICK r : r = [run[w] EXCEPT !.pc = "issues", !.issue = None, !.given = <<>>,
                                    !.item = items]
    OBVIOUS
  <2>5. run' = [run EXCEPT ![w] = r]
    BY <1>8, <2>2, <2>3, <2>4 DEF EndItem
  <2>6. r.item = items /\ r.campaign = run[w].campaign
    BY <2>4, RunFacts DEF RunType
  <2>7. \A j \in Issues : run[w].item[j] # "none" => r.item[j] # "none"
    BY <2>2, <2>3, <2>6, RunFacts DEF RunType
  <2> QED
    BY <2>1, <2>5, <2>6, <2>7, ItemMoves
<1>9. ASSUME NEW w \in Crawlers, BreakDown(w) \/ Crash(w) PROVE DraftFollows' /\ Stands
  <2>1. run' = [run EXCEPT ![w] = Resting] /\ UNCHANGED storeVars
    BY <1>9 DEF BreakDown, Crash, LoseSession, Rest
  <2> QED
    BY <2>1, DraftMoves, RestingType DEF Drafting
<1>10. ASSUME NEW w \in Crawlers, IngestStep(w) \/ DownloadFails(w)
       PROVE  UNCHANGED <<run, campaign, item>>
  BY <1>10 DEF IngestStep, DownloadFails, storeVars
<1>11. ASSUME NEW c \in Clients \ Crawlers, WebStep(c) \/ FetchJob(c)
       PROVE  UNCHANGED <<run, campaign, item>>
  BY <1>11 DEF WebStep, FetchJob, storeVars
<1>12. Request \/ StopSource \/ SetActive \/ UNCHANGED campaignVars
         => UNCHANGED <<run, campaign, item>>
  BY DEF Request, StopSource, SetActive, storeVars, campaignVars
<1>13. ASSUME NEW w \in Crawlers, Discover(w) PROVE DraftFollows' /\ Stands
  BY <1>13, DiscoverFollows
<1> QED
  BY <1>1, <1>2, <1>3, <1>4, <1>5, <1>6, <1>7, <1>8, <1>9, <1>10, <1>11, <1>12, <1>13
     DEF CampaignNext, CrawlerStep

(* However crawlers die, fail and take over from one another, a completed  *)
(* campaign does not run again, a failed one stays failed and no item that *)
(* was recorded is forgotten, but for the late write of a crawler that had *)
(* read the campaign as pending; nothing keeps the task of such a crawler  *)
(* from being taken meanwhile.                                             *)
THEOREM OutcomeIsFinal == CampaignSpec => OutcomeStands
<1>1. CampaignInit => DraftFollows
  BY RestingType DEF CampaignInit, DraftFollows, Drafting
<1>2. Stands => /\ campaign \in {"completed", "failed"} =>
                      \/ campaign' \in {campaign, "failed"}
                      \/ campaign' = "running" /\ \E w \in Waiting : Waiting' = Waiting \ {w}
                /\ \A k \in Issues : item[k] # "none" => item'[k] # "none"
  BY DEF Stands
<1> QED
  BY <1>1, <1>2, OutcomeStep, CampaignInvariant, CampaignIngestInvariant, PTL
     DEF CampaignSpec, OutcomeStands

(* The campaign's task goes through its attempts as TaskLedger says a task *)
(* does, and CrawlQueue implements: no crawler takes, ends or fails it     *)
(* but by a step of the queue.                                             *)
THEOREM CampaignUsesLedger == CampaignSpec => [][Queue!Next]_(Queue!vars)
<1>1. [CampaignNext]_campaignVars => [Queue!Next]_(Queue!vars)
  <2> SUFFICES ASSUME [CampaignNext]_campaignVars, ~UNCHANGED <<phase, failures, holder>>
               PROVE  Queue!Next
    BY DEF Queue!vars
  <2>1. PICK w \in Crawlers : \/ Lease(w) \/ Finish(w) \/ BreakDown(w)
                             \/ ListFails(w) \/ RunFails(w) \/ Crash(w)
    BY DEF CampaignNext, CrawlerStep, Register, IngestStep, EndItem, MarkFailed, ReadCampaign,
           MarkRunning, Discover, Duplicate, Download, DownloadFails, WebStep, FetchJob,
           Request, StopSource, SetActive, campaignVars, taskVars
  <2>2. CASE Lease(w)
    BY <2>2 DEF Lease, Queue!Next
  <2>3. CASE Finish(w) \/ ListFails(w) \/ RunFails(w)
    BY <2>3 DEF Finish, ListFails, RunFails, FailTask, Queue!Next
  <2>4. CASE BreakDown(w) \/ Crash(w)
    BY <2>4 DEF BreakDown, Crash, LoseSession, Queue!Next
  <2> QED
    BY <2>1, <2>2, <2>3, <2>4
<1> QED
  BY <1>1, PTL DEF CampaignSpec

=============================================================================
