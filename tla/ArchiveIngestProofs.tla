------------------------ MODULE ArchiveIngestProofs ------------------------
(***************************************************************************)
(* Proofs about ArchiveIngest for every number of archives, keys, files    *)
(* and sessions: its inductive invariant, that an archive with files shows *)
(* a primary one, and that the archives implement Catalog.                 *)
(***************************************************************************)
EXTENDS ArchiveIngest, SequenceTheorems, TLAPS

USE KeyAssumption, FileAssumption

-----------------------------------------------------------------------------
(* Calls.                                                                  *)

CallType ==
    [step : Steps, key : Keys \cup {None}, todo : Seq(Files), late : SUBSET Files,
     archive : Ids \cup {None}, up : SUBSET Files, down : SUBSET Files,
     file : Files \cup {None}]

CallOK(x) == ShapeOK(x) /\ LateOK(x) /\ RolesOK(x)

LEMMA IdleCall == Idle \in CallType /\ CallOK(Idle)
BY DEF Idle, CallType, Steps, CallOK, ShapeOK, LateOK, RolesOK

LEMMA InitIngestInv == Init => IngestInv
<1> SUFFICES ASSUME Init PROVE IngestInv
  OBVIOUS
<1>1. TypeOK
  BY IdleCall DEF Init, TypeOK, CallType
<1>2. PendingAfter /\ HasLead
  BY DEF Init, PendingAfter, HasLead
<1>3. CallsOK
  BY IdleCall DEF Init, CallsOK, CallOK
<1> QED
  BY <1>1, <1>2, <1>3 DEF IngestInv

(* A step of one session that writes no row.                               *)
LEMMA OneCall ==
  ASSUME IngestInv, NEW c \in Clients, NEW new \in CallType, CallOK(new),
         call' = [call EXCEPT ![c] = new], UNCHANGED Rows
  PROVE  IngestInv'
<1>1. TypeOK'
  BY DEF IngestInv, TypeOK, CallType, Rows
<1>2. PendingAfter' /\ HasLead'
  BY DEF IngestInv, PendingAfter, HasLead, Rows
<1>3. CallsOK'
  <2> SUFFICES ASSUME NEW d \in Clients
               PROVE  ShapeOK(call[d])' /\ LateOK(call[d])' /\ RolesOK(call[d])'
    BY DEF CallsOK
  <2>1. call'[d] = IF d = c THEN new ELSE call[d]
    BY DEF IngestInv, TypeOK
  <2>2. CASE d = c
    BY <2>1, <2>2 DEF CallOK, ShapeOK, LateOK, RolesOK, Exists, Rows
  <2>3. CASE d # c
    <3>1. ShapeOK(call[d]) /\ LateOK(call[d]) /\ RolesOK(call[d])
      BY DEF IngestInv, CallsOK
    <3> QED
      BY <2>1, <2>3, <3>1 DEF ShapeOK, LateOK, RolesOK, Exists, Rows
  <2> QED
    BY <2>2, <2>3
<1> QED
  BY <1>1, <1>2, <1>3 DEF IngestInv

(* Steps of other sessions and of the callers leave a call in order if no  *)
(* file is lost, no table demoted, and no archive deleted under a link.    *)
LEMMA OtherCalls ==
  ASSUME IngestInv, NEW D \in SUBSET Clients, \A d \in D : call'[d] = call[d],
         \A a \in Ids : files[a] \subseteq files'[a],
         \A a \in Ids : primary[a] \cap Excel \subseteq primary'[a],
         \A d \in D : \A a \in Ids : Inserting(d, a) => archive'[a].phase = "live"
  PROVE  \A d \in D : ShapeOK(call[d])' /\ LateOK(call[d])' /\ RolesOK(call[d])'
<1> SUFFICES ASSUME NEW d \in D
             PROVE  ShapeOK(call[d])' /\ LateOK(call[d])' /\ RolesOK(call[d])'
  OBVIOUS
<1>1. ShapeOK(call[d]) /\ LateOK(call[d]) /\ RolesOK(call[d]) /\ call'[d] = call[d]
  BY DEF IngestInv, CallsOK
<1>2. ShapeOK(call[d])'
  BY <1>1 DEF ShapeOK, Exists, Inserting
<1>3. LateOK(call[d])'
  BY <1>1 DEF LateOK, ShapeOK
<1>4. RolesOK(call[d])'
  BY <1>1 DEF RolesOK, ShapeOK
<1> QED
  BY <1>2, <1>3, <1>4

(* A step of session c that writes rows.                                   *)
LEMMA RowStep ==
  ASSUME IngestInv, NEW c \in Clients, NEW new \in CallType,
         call' = [call EXCEPT ![c] = new], CallOK(new)',
         archive' \in [Ids -> [phase : {"unborn", "live", "gone"}, key : Keys \cup {None},
                               is_withdrawn : BOOLEAN]],
         files' \in [Ids -> SUBSET Files], primary' \in [Ids -> SUBSET Files],
         pending' \in [Ids -> SUBSET Files], PendingAfter', HasLead',
         \A a \in Ids : files[a] \subseteq files'[a],
         \A a \in Ids : primary[a] \cap Excel \subseteq primary'[a],
         \A a \in Ids : Exists(a) => archive'[a].phase = "live"
  PROVE  IngestInv'
<1>1. TypeOK'
  BY DEF IngestInv, TypeOK, CallType
<1>2. \A d \in Clients : call'[d] = IF d = c THEN new ELSE call[d]
  BY DEF IngestInv, TypeOK
<1>3. \A d \in Clients \ {c} : ShapeOK(call[d])' /\ LateOK(call[d])' /\ RolesOK(call[d])'
  <2>1. \A d \in Clients : \A a \in Ids : Inserting(d, a) => Exists(a)
    BY DEF IngestInv, CallsOK, ShapeOK, Inserting
  <2> QED
    BY <1>2, <2>1, OtherCalls
<1>4. ShapeOK(call[c])' /\ LateOK(call[c])' /\ RolesOK(call[c])'
  BY <1>2 DEF CallOK
<1> QED
  BY <1>1, <1>3, <1>4 DEF IngestInv, CallsOK

-----------------------------------------------------------------------------
(* Steps that write no row.                                                *)

LEMMA BeginIngestInv ==
  ASSUME IngestInv, NEW c \in Clients, NEW k \in Keys, NEW todo \in Seq(Files) \ {<<>>},
         NEW late \in SUBSET Files, \A l \in late : k \notin Folding /\ Head(todo) < l,
         BeginIngest(c, k, todo, late)
  PROVE  IngestInv'
<1> DEFINE new == [Idle EXCEPT !.step = "lookup", !.key = k, !.todo = todo, !.late = late]
<1>1. new \in CallType
  BY DEF Idle, CallType, Steps
<1>2. CallOK(new)
  BY DEF Idle, CallOK, ShapeOK, LateOK, RolesOK
<1> QED
  BY <1>1, <1>2, OneCall DEF BeginIngest, Begin

(* A session that only moves on to another step of its call.               *)
LEMMA GotoInv ==
  ASSUME IngestInv, NEW c \in Clients, UNCHANGED Rows,
         NEW s \in {"attach", "create", "refused", "broken"}, Goto(c, s),
         s \in {"attach", "create"} => call[c].key \in Keys /\ call[c].todo # <<>>,
         s = "attach" => call[c].archive \in Ids,
         s = "create" => call[c].archive = None
  PROVE  IngestInv'
<1> DEFINE new == [call[c] EXCEPT !.step = s]
<1>1. call[c] \in CallType /\ CallOK(call[c])
  BY DEF IngestInv, TypeOK, CallsOK, CallType, CallOK
<1>2. new \in CallType
  BY <1>1 DEF CallType, Steps
<1>3. CallOK(new)
  BY <1>1 DEF CallType, CallOK, ShapeOK, LateOK, RolesOK
<1> QED
  BY <1>2, <1>3, OneCall DEF Goto

LEMMA LookupInv ==
  ASSUME IngestInv, NEW c \in Clients, Lookup(c)
  PROVE  IngestInv'
<1>1. call[c] \in CallType /\ CallOK(call[c])
  BY DEF IngestInv, TypeOK, CallsOK, CallType, CallOK
<1>2. call[c].key \in Keys /\ call[c].todo # <<>> /\ UNCHANGED Rows
  BY <1>1 DEF Lookup, CallOK, ShapeOK
<1>3. CASE Goto(c, "attach") /\ call[c].archive # None
  BY <1>1, <1>2, <1>3, GotoInv DEF CallType
<1>4. CASE Goto(c, "create") /\ call[c].archive = None
  BY <1>2, <1>4, GotoInv
<1>5. CASE /\ call[c].key \in Folding
           /\ \E a \in Ids : call' = [call EXCEPT ![c] =
                 [call[c] EXCEPT !.step = "fold", !.archive = a]]
  <2>1. PICK a \in Ids : call' = [call EXCEPT ![c] =
           [call[c] EXCEPT !.step = "fold", !.archive = a]]
    BY <1>5
  <2> DEFINE new == [call[c] EXCEPT !.step = "fold", !.archive = a]
  <2>2. new \in CallType
    BY <1>1 DEF CallType, Steps
  <2>3. CallOK(new)
    BY <1>1, <1>2, <1>5 DEF CallType, CallOK, ShapeOK, LateOK, RolesOK
  <2> QED
    BY <1>2, <2>1, <2>2, <2>3, OneCall
<1> QED
  BY <1>3, <1>4, <1>5 DEF Lookup

LEMMA EndCallInv ==
  ASSUME IngestInv, NEW c \in Clients, Answer(c), UNCHANGED Rows
  PROVE  IngestInv'
BY IdleCall, OneCall DEF Answer

(* What Advance makes of the call of an ingest.                            *)
LEMMA AdvanceCall ==
  ASSUME NEW x \in CallType, x.key \in Keys, x.todo # <<>>
  PROVE  /\ Advance(x) \in CallType
         /\ Advance(x).step \in {"lookup", "late", "ok"}
         /\ Advance(x).key = x.key /\ Advance(x).late = x.late
         /\ Advance(x).step = "lookup" => Advance(x).todo # <<>>
         /\ Advance(x).step = "late" => Advance(x).todo = <<>> /\ x.late # {}
         /\ Advance(x).archive = IF x.key \in Folding THEN None ELSE x.archive
<1>1. Tail(x.todo) \in Seq(Files)
  BY DEF CallType
<1> QED
  BY <1>1 DEF Advance, CallType, Steps

LEMMA FoldInv ==
  ASSUME IngestInv, NEW c \in Clients, Fold(c)
  PROVE  IngestInv'
<1>1. call[c] \in CallType /\ CallOK(call[c])
  BY DEF IngestInv, TypeOK, CallsOK, CallType, CallOK
<1>2. /\ call[c].key \in Keys \cap Folding /\ call[c].todo # <<>>
      /\ call[c].archive \in Ids /\ UNCHANGED Rows
  BY <1>1 DEF Fold, CallOK, ShapeOK
<1>3. CASE Goto(c, "broken") \/ Goto(c, "attach")
  BY <1>2, <1>3, GotoInv
<1>4. CASE call' = [call EXCEPT ![c] = Advance(call[c])]
  <2>1. CallOK(Advance(call[c]))
    BY <1>1, <1>2, AdvanceCall DEF CallOK, ShapeOK, LateOK, RolesOK
  <2> QED
    BY <1>1, <1>2, <1>4, <2>1, AdvanceCall, OneCall
<1> QED
  BY <1>3, <1>4 DEF Fold

(* The roles that a transaction computes from what it sees.                *)
LEMMA LeadFacts ==
  ASSUME NEW S \in SUBSET Files
  PROVE  /\ Lead(S) \subseteq S
         /\ S \cap Excel # {} => Lead(S) = S \cap Excel
         /\ S \cap Excel = {} => \A f \in S \ Lead(S) : \E g \in S : g < f
<1>1. First(S) \subseteq S
  BY DEF First
<1>2. ASSUME NEW f \in S, f \notin First(S)
      PROVE  \E g \in S : g < f
  <2>1. PICK g \in S : ~(f <= g)
    BY <1>2 DEF First
  <2> QED
    BY <2>1
<1>3. Lead(S) = IF S \cap Excel # {} THEN S \cap Excel ELSE First(S)
  BY DEF Lead
<1> QED
  BY <1>1, <1>2, <1>3

LEMMA InsertLinkInv ==
  ASSUME IngestInv, NEW c \in Clients, NEW a \in Ids, NEW f \in Files, NEW base \in CallType,
         Exists(a), f \notin files[a], UNCHANGED Rows, InsertLink(c, a, f, base),
         base.key # None => base.todo # <<>> /\ f = Head(base.todo),
         \A l \in base.late :
            /\ base.key \notin Folding
            /\ (\E g \in files[a] : g < l) \/ (base.todo # <<>> /\ Head(base.todo) < l)
  PROVE  IngestInv'
<1> DEFINE seen == files[a] \cup {f}
           up == Lead(seen) \ primary[a]
           down == primary[a] \ Lead(seen)
           new == [base EXCEPT !.step = "commit", !.archive = a, !.file = f,
                               !.up = up, !.down = down]
<1>1. /\ files[a] \subseteq Files /\ primary[a] \subseteq files[a]
      /\ seen \in SUBSET Files
  BY DEF IngestInv, TypeOK, HasLead
<1>2. /\ Lead(seen) \subseteq seen
      /\ seen \cap Excel # {} => Lead(seen) = seen \cap Excel
      /\ seen \cap Excel = {} => \A g \in seen \ Lead(seen) : \E h \in seen : h < g
  BY <1>1, LeadFacts
<1>3. new \in CallType
  BY <1>1, <1>2 DEF CallType, Steps
<1>4. ShapeOK(new) /\ LateOK(new)
  BY DEF ShapeOK, LateOK, CallType
<1>5. RolesOK(new)
  <2> HIDE DEF up, down
  <2>1. /\ new.step = "commit" /\ new.archive = a /\ new.file = f
        /\ new.up = up /\ new.down = down
    BY DEF CallType
  <2>2. up \subseteq seen /\ down \subseteq files[a] /\ up \cap down = {}
    BY <1>1, <1>2 DEF up, down
  <2>3. down \cap Excel = {}
    BY <1>1, <1>2 DEF down
  <2>4. CASE seen \cap Excel # {}
    <3>1. \E e \in Excel : e \in up \/ e \in primary[a]
      BY <1>2, <2>4 DEF up
    <3> QED
      BY <2>1, <2>2, <2>3, <3>1 DEF RolesOK
  <2>5. CASE seen \cap Excel = {}
    <3>1. \A d \in down : \E g \in seen : g < d
      BY <1>1, <1>2, <2>5 DEF down
    <3>2. f \in up \/ \E g \in files[a] : g < f
      <4>1. CASE f \in Lead(seen)
        BY <1>1, <4>1 DEF up
      <4>2. CASE f \notin Lead(seen)
        <5>1. PICK h \in seen : h < f
          BY <1>2, <2>5, <4>2
        <5> QED
          BY <1>1, <5>1
      <4> QED
        BY <4>1, <4>2
    <3> QED
      BY <2>1, <2>2, <2>3, <3>1, <3>2 DEF RolesOK
  <2> QED
    BY <2>4, <2>5
<1> QED
  BY <1>3, <1>4, <1>5, OneCall DEF InsertLink, CallOK

LEMMA AttachInv ==
  ASSUME IngestInv, NEW c \in Clients, Attach(c)
  PROVE  IngestInv'
<1>1. call[c] \in CallType /\ CallOK(call[c])
  BY DEF IngestInv, TypeOK, CallsOK, CallType, CallOK
<1> DEFINE a == call[c].archive
           f == Head(call[c].todo)
<1>2. call[c].todo # <<>> /\ a \in Ids /\ f \in Files /\ UNCHANGED Rows
  BY <1>1 DEF Attach, CallOK, ShapeOK, CallType
<1>3. CASE Exists(a) /\ f \notin files[a] /\ InsertLink(c, a, f, call[c])
  BY <1>1, <1>2, <1>3, InsertLinkInv DEF CallOK, LateOK
<1>4. CASE Goto(c, "broken")
  BY <1>2, <1>4, GotoInv
<1> QED
  BY <1>3, <1>4 DEF Attach

LEMMA AttachByHandInv ==
  ASSUME IngestInv, NEW c \in Clients, NEW a \in Ids, NEW f \in Files, AttachByHand(c, a, f)
  PROVE  IngestInv'
<1>1. Idle.key = None /\ Idle.late = {}
  BY DEF Idle
<1> QED
  BY <1>1, IdleCall, InsertLinkInv DEF AttachByHand

LEMMA BeginFetchInv ==
  ASSUME IngestInv, NEW c \in Clients, NEW a \in Ids, NEW f \in Files, BeginFetch(c, a, f)
  PROVE  IngestInv'
<1> DEFINE new == [Idle EXCEPT !.step = "fetch", !.archive = a, !.file = f]
<1>1. new \in CallType
  BY IdleCall DEF CallType, Steps
<1>2. \E g \in files[a] : g < f
  BY DEF BeginFetch, IngestInv, PendingAfter
<1>3. CallOK(new)
  BY <1>2 DEF Idle, CallOK, ShapeOK, LateOK, RolesOK
<1> QED
  BY <1>1, <1>3, OneCall DEF BeginFetch, Begin

LEMMA BeginRenameInv ==
  ASSUME IngestInv, NEW c \in Clients, NEW a \in Ids, NEW k \in Keys, BeginRename(c, a, k)
  PROVE  IngestInv'
<1> DEFINE new == [Idle EXCEPT !.step = "rename", !.archive = a, !.key = k]
<1>1. new \in CallType
  BY IdleCall DEF CallType, Steps
<1>2. CallOK(new)
  BY DEF Idle, CallOK, ShapeOK, LateOK, RolesOK
<1> QED
  BY <1>1, <1>2, OneCall DEF BeginRename, Begin

-----------------------------------------------------------------------------
(* Steps that write rows.                                                  *)

RowType ==
    [phase : {"unborn", "live", "gone"}, key : Keys \cup {None}, is_withdrawn : BOOLEAN]

(* A new row, under the next id.                                           *)
LEMMA NewRow ==
  ASSUME IngestInv, NEW a \in Ids, NEW k \in Keys, NextId(a), NewArchive(a, k)
  PROVE  /\ archive' \in [Ids -> RowType]
         /\ \A b \in Ids : Exists(b) => archive'[b].phase = "live"
<1>1. archive \in [Ids -> RowType]
  BY DEF IngestInv, TypeOK, RowType
<1>2. PICK row \in RowType : row = [phase |-> "live", key |-> k, is_withdrawn |-> FALSE]
  BY DEF RowType
<1>3. archive' = [archive EXCEPT ![a] = row]
  BY <1>2 DEF NewArchive
<1>4. row.phase = "live"
  BY <1>2
<1> QED
  BY <1>1, <1>3, <1>4 DEF Exists

LEMMA CreateInv ==
  ASSUME IngestInv, NEW c \in Clients, Create(c)
  PROVE  IngestInv'
<1>1. call[c] \in CallType /\ CallOK(call[c])
  BY DEF IngestInv, TypeOK, CallsOK, CallType, CallOK
<1>2. /\ call[c].key \in Keys /\ call[c].todo # <<>> /\ call[c].archive = None
      /\ UNCHANGED <<files, primary, pending>>
  BY <1>1 DEF Create, CallOK, ShapeOK
<1>3. CASE (Goto(c, "refused") \/ Goto(c, "broken")) /\ UNCHANGED archive
  BY <1>2, <1>3, GotoInv DEF Rows
<1>4. CASE \E a \in Ids :
             /\ NextId(a)
             /\ NewArchive(a, call[c].key)
             /\ call' = [call EXCEPT ![c] = [call[c] EXCEPT !.step = "attach", !.archive = a]]
  <2>1. PICK a \in Ids :
             /\ NextId(a)
             /\ NewArchive(a, call[c].key)
             /\ call' = [call EXCEPT ![c] = [call[c] EXCEPT !.step = "attach", !.archive = a]]
    BY <1>4
  <2>2. PICK new \in CallType : new = [call[c] EXCEPT !.step = "attach", !.archive = a]
    BY <1>1 DEF CallType, Steps
  <2>3. CallOK(new)'
    BY <1>1, <1>2, <2>2 DEF CallType, CallOK, ShapeOK, LateOK, RolesOK, Ids
  <2>4. /\ archive' \in [Ids -> RowType]
        /\ \A b \in Ids : Exists(b) => archive'[b].phase = "live"
    BY <1>2, <2>1, NewRow
  <2>5. PendingAfter' /\ HasLead'
    BY <1>2 DEF IngestInv, PendingAfter, HasLead
  <2>6. /\ files' \in [Ids -> SUBSET Files] /\ primary' \in [Ids -> SUBSET Files]
        /\ pending' \in [Ids -> SUBSET Files]
    BY <1>2 DEF IngestInv, TypeOK
  <2> QED
    BY <1>2, <2>1, <2>2, <2>3, <2>4, <2>5, <2>6, RowStep DEF RowType
<1> QED
  BY <1>3, <1>4 DEF Create

(* A file is committed with the roles that were computed before it.        *)
LEMMA LeadKept ==
  ASSUME IngestInv, NEW c \in Clients, CommitAttach(c)
  PROVE  HasLead'
<1> DEFINE a == call[c].archive
           f == call[c].file
           all == files[a] \cup {f}
           up == call[c].up
           down == call[c].down
<1>1. /\ call[c].step = "commit" /\ a \in Ids /\ f \in Files /\ RolesOK(call[c])
      /\ files \in [Ids -> SUBSET Files] /\ primary \in [Ids -> SUBSET Files]
  BY DEF CommitAttach, IngestInv, TypeOK, CallsOK, ShapeOK
<1>2. /\ up \subseteq all /\ down \subseteq files[a] /\ up \cap down = {} /\ down \cap Excel = {}
      /\ \/ \E e \in Excel : e \in up \/ e \in primary[a]
         \/ /\ \A d \in down : \E g \in all : g < d
            /\ f \in up \/ \E g \in files[a] : g < f
  BY <1>1 DEF RolesOK
<1> SUFFICES ASSUME NEW b \in Ids
             PROVE  /\ primary'[b] \subseteq files'[b]
                    /\ files'[b] # {} =>
                         \E h \in primary'[b] : h \in Excel \/ \A g \in files'[b] : h <= g
  BY DEF HasLead
<1>3. /\ primary[b] \subseteq files[b]
      /\ files[b] # {} => \E h \in primary[b] : h \in Excel \/ \A g \in files[b] : h <= g
  BY DEF IngestInv, HasLead
<1>4. CASE b # a
  BY <1>1, <1>3, <1>4 DEF CommitAttach
<1>5. CASE b = a
  <2>1. files'[a] = all /\ primary'[a] = (primary[a] \cup up) \ down
    BY <1>1 DEF CommitAttach
  <2>2. primary[a] \subseteq files[a] /\ all \subseteq Files
    BY <1>1, <1>3, <1>5
  <2> HIDE DEF up, down, a, f
  <2>0. primary'[a] \subseteq files'[a]
    BY <1>2, <2>1, <2>2
  <2> HIDE DEF all
  <2>3. CASE \E e \in Excel : e \in up \/ e \in primary[a]
    <3>1. \E e \in Excel : e \in primary'[a]
      BY <1>2, <2>1, <2>3
    <3> QED
      BY <1>5, <2>0, <3>1
  <2>4. CASE /\ \A d \in down : \E g \in all : g < d
             /\ f \in up \/ \E g \in files[a] : g < f
    <3>1. f \in Nat /\ files[a] \subseteq Nat /\ all = files[a] \cup {f}
      BY <1>1, <2>2 DEF all, a, f
    <3>2. ASSUME \A g \in files[a] : f < g \/ f = g
          PROVE  f \in primary'[a] /\ \A g \in all : f <= g
      <4>1. f \in up
        BY <2>4, <3>1, <3>2
      <4> QED
        BY <1>2, <2>1, <3>1, <3>2, <4>1
    <3>3. ASSUME NEW x \in files[a], x < f
          PROVE  \E h \in primary'[a] : h \in Excel \/ \A g \in all : h <= g
      <4>1. PICK h \in primary[a] : h \in Excel \/ \A g \in files[a] : h <= g
        BY <1>3, <1>5
      <4>2. CASE h \in Excel
        BY <1>2, <2>1, <4>1, <4>2
      <4>3. CASE \A g \in files[a] : h <= g
        <5>1. h \in Nat /\ \A g \in all : h <= g
          BY <2>2, <3>1, <3>3, <4>3
        <5>2. h \notin down
          BY <2>4, <3>1, <5>1
        <5> QED
          BY <2>1, <5>1, <5>2
      <4> QED
        BY <4>1, <4>2, <4>3
    <3>4. \E h \in primary'[a] : h \in Excel \/ \A g \in all : h <= g
      <4>1. CASE \E x \in files[a] : x < f
        BY <3>3, <4>1
      <4>2. CASE \A x \in files[a] : ~(x < f)
        BY <3>1, <3>2, <4>2
      <4> QED
        BY <4>1, <4>2
    <3> QED
      BY <1>5, <2>0, <2>1, <3>4
  <2> QED
    BY <1>2, <2>3, <2>4
<1> QED
  BY <1>4, <1>5

LEMMA CommitAttachInv ==
  ASSUME IngestInv, NEW c \in Clients, CommitAttach(c)
  PROVE  IngestInv'
<1>1. /\ call[c] \in CallType /\ CallOK(call[c])
      /\ files \in [Ids -> SUBSET Files] /\ primary \in [Ids -> SUBSET Files]
  BY DEF IngestInv, TypeOK, CallsOK, CallType, CallOK
<1> DEFINE a == call[c].archive
           f == call[c].file
<1>2. a \in Ids /\ f \in Files /\ (call[c].key # None => call[c].todo # <<>> /\ f = Head(call[c].todo))
  BY <1>1 DEF CommitAttach, CallOK, ShapeOK
<1>3. files' = [files EXCEPT ![a] = files[a] \cup {f}]
  BY DEF CommitAttach
<1>4. files' \in [Ids -> SUBSET Files] /\ \A b \in Ids : files[b] \subseteq files'[b]
  BY <1>1, <1>2, <1>3
<1>5. /\ primary' \in [Ids -> SUBSET Files]
      /\ \A b \in Ids : primary[b] \cap Excel \subseteq primary'[b]
  <2>1. primary' = [primary EXCEPT ![a] = (primary[a] \cup call[c].up) \ call[c].down]
    BY DEF CommitAttach
  <2>2. call[c].down \cap Excel = {} /\ call[c].up \subseteq Files
    BY <1>1 DEF CommitAttach, CallOK, RolesOK, CallType
  <2> QED
    BY <1>1, <1>2, <2>1, <2>2
<1>6. PendingAfter'
  BY <1>4 DEF CommitAttach, IngestInv, PendingAfter
<1>7. PICK new \in CallType : new = Advance(call[c]) /\ CallOK(new)'
  <2>1. CASE call[c].key = None
    <3>1. Advance(call[c]) = Idle
      BY <2>1 DEF Advance
    <3> QED
      BY <3>1, IdleCall DEF Idle, CallOK, ShapeOK, LateOK, RolesOK
  <2>2. CASE call[c].key # None
    <3>1. call[c].key \in Keys /\ call[c].todo # <<>> /\ f = Head(call[c].todo)
      BY <1>1, <1>2, <2>2 DEF CallType
    <3>2. PICK new \in CallType :
            /\ new = Advance(call[c])
            /\ new.step \in {"lookup", "late", "ok"}
            /\ new.key = call[c].key /\ new.late = call[c].late
            /\ new.step = "lookup" => new.todo # <<>>
            /\ new.step = "late" => new.todo = <<>> /\ call[c].late # {}
            /\ new.archive = IF call[c].key \in Folding THEN None ELSE a
      BY <1>1, <3>1, AdvanceCall
    <3>3. \A l \in call[c].late : call[c].key \notin Folding /\ \E g \in files'[a] : g < l
      BY <1>1, <1>2, <1>3, <3>1 DEF CallOK, LateOK
    <3>4. ShapeOK(new)' /\ LateOK(new)' /\ RolesOK(new)'
      BY <1>2, <3>1, <3>2, <3>3 DEF ShapeOK, LateOK, RolesOK
    <3> QED
      BY <3>2, <3>4 DEF CallOK
  <2> QED
    BY <2>1, <2>2
<1>8. /\ call' = [call EXCEPT ![c] = new] /\ pending' = pending /\ archive' = archive
  BY <1>7 DEF CommitAttach
<1>9. /\ archive' \in [Ids -> [phase : {"unborn", "live", "gone"}, key : Keys \cup {None},
                               is_withdrawn : BOOLEAN]]
      /\ pending' \in [Ids -> SUBSET Files]
      /\ \A b \in Ids : Exists(b) => archive'[b].phase = "live"
  BY <1>8 DEF IngestInv, TypeOK, Exists
<1> QED
  BY <1>4, <1>5, <1>6, <1>7, <1>8, <1>9, LeadKept, RowStep

LEMMA AttachPendingInv ==
  ASSUME IngestInv, NEW c \in Clients, AttachPending(c)
  PROVE  IngestInv'
<1>1. call[c] \in CallType /\ CallOK(call[c])
  BY DEF IngestInv, TypeOK, CallsOK, CallType, CallOK
<1> DEFINE a == call[c].archive
<1>2. /\ a \in Ids /\ call[c].key \in Keys /\ call[c].todo = <<>> /\ call[c].step = "late"
      /\ UNCHANGED <<archive, files, primary>>
  BY <1>1 DEF AttachPending, CallOK, ShapeOK
<1>3. CASE Goto(c, "broken") /\ UNCHANGED pending
  BY <1>2, <1>3, GotoInv DEF Rows
<1>4. CASE \E f \in call[c].late :
        /\ pending' = [pending EXCEPT ![a] = pending[a] \cup {f}]
        /\ call' = [call EXCEPT ![c] = [call[c] EXCEPT
              !.late = call[c].late \ {f}, !.step = IF call[c].late = {f} THEN "ok" ELSE "late"]]
  <2>1. PICK f \in call[c].late :
        /\ pending' = [pending EXCEPT ![a] = pending[a] \cup {f}]
        /\ call' = [call EXCEPT ![c] = [call[c] EXCEPT
              !.late = call[c].late \ {f}, !.step = IF call[c].late = {f} THEN "ok" ELSE "late"]]
    BY <1>4
  <2>2. PICK new \in CallType : new = [call[c] EXCEPT
              !.late = call[c].late \ {f}, !.step = IF call[c].late = {f} THEN "ok" ELSE "late"]
    BY <1>1 DEF CallType, Steps
  <2>3. f \in Files /\ \E g \in files[a] : g < f
    BY <1>1, <1>2 DEF CallType, CallOK, LateOK
  <2>4. CallOK(new)'
    BY <1>1, <1>2, <2>2 DEF CallType, CallOK, ShapeOK, LateOK, RolesOK
  <2>5. pending' \in [Ids -> SUBSET Files] /\ PendingAfter'
    BY <1>2, <2>1, <2>3 DEF IngestInv, TypeOK, PendingAfter
  <2>6. HasLead'
    BY <1>2 DEF IngestInv, HasLead
  <2>7. /\ archive' \in [Ids -> [phase : {"unborn", "live", "gone"}, key : Keys \cup {None},
                                 is_withdrawn : BOOLEAN]]
        /\ files' \in [Ids -> SUBSET Files] /\ primary' \in [Ids -> SUBSET Files]
        /\ \A b \in Ids : Exists(b) => archive'[b].phase = "live"
    BY <1>2 DEF IngestInv, TypeOK, Exists
  <2> QED
    BY <1>2, <2>1, <2>2, <2>4, <2>5, <2>6, <2>7, RowStep
<1> QED
  BY <1>3, <1>4 DEF AttachPending

(* The file that a link waited for comes after another one, and needs no   *)
(* role.                                                                   *)
LEMMA CommitFetchInv ==
  ASSUME IngestInv, NEW c \in Clients, CommitFetch(c)
  PROVE  IngestInv'
<1> DEFINE a == call[c].archive
           f == call[c].file
<1>1. /\ a \in Ids /\ f \in Files /\ \E g \in files[a] : g < f
      /\ UNCHANGED <<archive, primary>>
      /\ files \in [Ids -> SUBSET Files] /\ pending \in [Ids -> SUBSET Files]
  BY DEF CommitFetch, IngestInv, TypeOK, CallsOK, ShapeOK, LateOK
<1>2. /\ files' = [files EXCEPT ![a] = files'[a]]
      /\ files'[a] = files[a] \/ files'[a] = files[a] \cup {f}
      /\ pending' = [pending EXCEPT ![a] = pending'[a]]
      /\ pending'[a] \subseteq pending[a]
  BY <1>1 DEF CommitFetch
<1>3. files' \in [Ids -> SUBSET Files] /\ \A b \in Ids : files[b] \subseteq files'[b]
  BY <1>1, <1>2
<1>4. pending' \in [Ids -> SUBSET Files] /\ \A b \in Ids : pending'[b] \subseteq pending[b]
  BY <1>1, <1>2
<1>5. PendingAfter'
  BY <1>3, <1>4 DEF IngestInv, PendingAfter
<1>6. HasLead'
  <2> SUFFICES ASSUME NEW b \in Ids
               PROVE  /\ primary'[b] \subseteq files'[b]
                      /\ files'[b] # {} =>
                           \E h \in primary'[b] : h \in Excel \/ \A g \in files'[b] : h <= g
    BY DEF HasLead
  <2>1. /\ primary[b] \subseteq files[b] /\ primary'[b] = primary[b]
        /\ files[b] # {} => \E h \in primary[b] : h \in Excel \/ \A g \in files[b] : h <= g
    BY <1>1 DEF IngestInv, HasLead
  <2>2. CASE files'[b] = files[b]
    BY <2>1, <2>2
  <2>3. CASE b = a /\ files'[b] = files[b] \cup {f}
    <3>1. PICK g \in files[b] : g < f
      BY <1>1, <2>3
    <3>2. PICK h \in primary[b] : h \in Excel \/ \A x \in files[b] : h <= x
      BY <2>1, <3>1
    <3>3. g \in Nat /\ h \in Nat /\ f \in Nat
      BY <1>1, <2>1, <3>1, <3>2
    <3>4. h \in Excel \/ \A x \in files'[b] : h <= x
      BY <2>3, <3>1, <3>2, <3>3
    <3> QED
      BY <1>3, <2>1, <3>2, <3>4
  <2> QED
    BY <1>1, <1>2, <2>2, <2>3
<1>7. call' = [call EXCEPT ![c] = Idle] /\ Idle \in CallType /\ CallOK(Idle)'
  <2>1. CallOK(Idle)'
    BY DEF Idle, CallOK, ShapeOK, LateOK, RolesOK
  <2> QED
    BY <2>1, IdleCall DEF CommitFetch, Answer
<1>8. /\ archive' \in [Ids -> [phase : {"unborn", "live", "gone"}, key : Keys \cup {None},
                               is_withdrawn : BOOLEAN]]
      /\ primary' \in [Ids -> SUBSET Files]
      /\ \A b \in Ids : primary[b] \cap Excel \subseteq primary'[b]
      /\ \A b \in Ids : Exists(b) => archive'[b].phase = "live"
  BY <1>1 DEF IngestInv, TypeOK, Exists
<1> QED
  BY <1>3, <1>4, <1>5, <1>6, <1>7, <1>8, RowStep

LEMMA CommitRenameInv ==
  ASSUME IngestInv, NEW c \in Clients, CommitRename(c)
  PROVE  IngestInv'
<1> DEFINE a == call[c].archive
           k == call[c].key
<1>1. a \in Ids /\ k \in Keys /\ archive \in [Ids -> RowType]
  BY DEF CommitRename, IngestInv, TypeOK, CallsOK, ShapeOK, RowType
<1>2. PICK row \in RowType : row = [archive[a] EXCEPT !.key = k]
  BY <1>1 DEF RowType
<1>3. row.phase = archive[a].phase
  BY <1>1, <1>2 DEF RowType
<1>4. archive' = archive \/ archive' = [archive EXCEPT ![a] = row]
  BY <1>2 DEF CommitRename
<1>5. archive' \in [Ids -> RowType] /\ \A b \in Ids : Exists(b) => archive'[b].phase = "live"
  BY <1>1, <1>3, <1>4 DEF Exists
<1>6. UNCHANGED <<files, primary, pending>>
  BY DEF CommitRename
<1>7. PendingAfter' /\ HasLead'
  BY <1>6 DEF IngestInv, PendingAfter, HasLead
<1>8. call' = [call EXCEPT ![c] = Idle] /\ Idle \in CallType /\ CallOK(Idle)'
  <2>1. CallOK(Idle)'
    BY DEF Idle, CallOK, ShapeOK, LateOK, RolesOK
  <2> QED
    BY <2>1, IdleCall DEF CommitRename, Answer
<1>9. /\ files' \in [Ids -> SUBSET Files] /\ primary' \in [Ids -> SUBSET Files]
      /\ pending' \in [Ids -> SUBSET Files]
  BY <1>6 DEF IngestInv, TypeOK
<1> QED
  BY <1>5, <1>6, <1>7, <1>8, <1>9, RowStep DEF RowType

(* A write of a caller that is over at once.                               *)
LEMMA AtOnceInv ==
  ASSUME IngestInv, AtOnce
  PROVE  IngestInv'
<1>1. UNCHANGED <<files, primary, call>>
  BY DEF AtOnce, CreateByHand, Withdraw, Delete
<1>2. archive \in [Ids -> RowType] /\ pending \in [Ids -> SUBSET Files]
  BY DEF IngestInv, TypeOK, RowType
<1>3. /\ archive' \in [Ids -> RowType] /\ pending' \in [Ids -> SUBSET Files]
      /\ \A a \in Ids : pending'[a] \subseteq pending[a]
      /\ \A d \in Clients : \A a \in Ids : Inserting(d, a) => archive'[a].phase = "live"
  <2> DEFINE Kept ==
        /\ archive' \in [Ids -> RowType] /\ pending' \in [Ids -> SUBSET Files]
        /\ \A a \in Ids : pending'[a] \subseteq pending[a]
        /\ \A d \in Clients : \A a \in Ids : Inserting(d, a) => archive'[a].phase = "live"
  <2>0. \A d \in Clients : \A a \in Ids : Inserting(d, a) => Exists(a)
    BY DEF IngestInv, CallsOK, ShapeOK, Inserting
  <2>1. ASSUME NEW k \in Keys, CreateByHand(k) PROVE Kept
    <3>1. PICK a \in Ids : NextId(a) /\ NewArchive(a, k)
      BY <2>1 DEF CreateByHand
    <3> QED
      BY <1>2, <2>0, <2>1, <3>1, NewRow DEF CreateByHand
  <2>2. ASSUME NEW a \in Ids, Withdraw(a) PROVE Kept
    <3>1. PICK row \in RowType : row = [archive[a] EXCEPT !.is_withdrawn = TRUE]
      BY <1>2 DEF RowType
    <3>2. row.phase = archive[a].phase /\ archive' = [archive EXCEPT ![a] = row]
      BY <1>2, <2>2, <3>1 DEF RowType, Withdraw
    <3> QED
      BY <1>2, <2>0, <2>2, <3>2 DEF Withdraw, Exists
  <2>3. ASSUME NEW a \in Ids, Delete(a) PROVE Kept
    <3>1. PICK row \in RowType : row = [archive[a] EXCEPT !.phase = "gone"]
      BY <1>2 DEF RowType
    <3>2. archive' = [archive EXCEPT ![a] = row]
      BY <2>3, <3>1 DEF Delete
    <3> QED
      BY <1>2, <2>0, <2>3, <3>2 DEF Delete, Exists
  <2> QED
    BY <2>1, <2>2, <2>3 DEF AtOnce
<1>4. TypeOK'
  BY <1>1, <1>3 DEF IngestInv, TypeOK, RowType
<1>5. PendingAfter' /\ HasLead'
  BY <1>1, <1>3 DEF IngestInv, PendingAfter, HasLead
<1>6. CallsOK'
  BY <1>1, <1>3, OtherCalls DEF CallsOK
<1> QED
  BY <1>4, <1>5, <1>6 DEF IngestInv

-----------------------------------------------------------------------------
(* The theorems.                                                           *)

LEMMA StartInv ==
  ASSUME IngestInv, NEW c \in Clients, Start(c)
  PROVE  IngestInv'
<1>1. ASSUME NEW k \in Keys, NEW todo \in Attachments[k], BeginIngest(c, k, todo, Late[k])
      PROVE  IngestInv'
  BY <1>1, AttachmentsAssumption, LateAssumption, BeginIngestInv
<1>2. ASSUME NEW k \in Keys, NEW f \in Files, BeginIngest(c, k, <<f>>, {})
      PROVE  IngestInv'
  <2>1. PICK todo : todo = <<f>>
    OBVIOUS
  <2>2. todo \in Seq(Files) \ {<<>>}
    BY <2>1
  <2>3. PICK late \in SUBSET Files : late = {}
    OBVIOUS
  <2>4. BeginIngest(c, k, todo, late)
    BY <1>2, <2>1, <2>3, Zenon
  <2> QED
    BY <2>2, <2>3, <2>4, BeginIngestInv
<1> QED
  BY <1>1, <1>2, AttachByHandInv, BeginRenameInv DEF Start

LEMMA NextIngestInv == IngestInv /\ [Next]_vars => IngestInv'
<1> SUFFICES ASSUME IngestInv, [Next]_vars PROVE IngestInv'
  OBVIOUS
<1>1. ASSUME NEW c \in Clients, Work(c) PROVE IngestInv'
  BY <1>1, LookupInv, CreateInv, FoldInv, AttachInv, CommitAttachInv, AttachPendingInv,
     CommitFetchInv, CommitRenameInv DEF Work
<1>2. ASSUME NEW c \in Clients, FetchLate(c) PROVE IngestInv'
  BY <1>2, BeginFetchInv DEF FetchLate
<1>3. ASSUME NEW c \in Clients, Refuse(c) PROVE IngestInv'
  BY <1>3, GotoInv DEF Refuse
<1>4. ASSUME NEW c \in Clients, EndCall(c) PROVE IngestInv'
  BY <1>4, EndCallInv DEF EndCall
<1>5. CASE UNCHANGED vars
  BY <1>5 DEF vars, IngestInv, TypeOK, PendingAfter, HasLead, CallsOK, ShapeOK, LateOK, RolesOK,
              Exists
<1> QED
  BY <1>1, <1>2, <1>3, <1>4, <1>5, StartInv, AtOnceInv DEF Next

(* Sessions interleave in any way, and what each of them has computed from *)
(* an earlier view stays good enough for what it will write.               *)
THEOREM IngestInvariant == Spec => []IngestInv
BY InitIngestInv, NextIngestInv, PTL DEF Spec

LEMMA LeadIsPrimary == IngestInv => HasPrimary
BY DEF IngestInv, HasLead, HasPrimary

(* An archive that has files shows one of them, for any number of          *)
(* sessions.                                                               *)
THEOREM PrimaryShown == Spec => []HasPrimary
BY IngestInvariant, LeadIsPrimary, PTL

-----------------------------------------------------------------------------
(* The refinement.                                                         *)

LEMMA CatalogInit == Init => Cat!Init
BY DEF Init, Cat!Init, PhaseOf

LEMMA CatalogExists ==
  ASSUME IngestInv, NEW a \in Ids
  PROVE  Exists(a) <=> Cat!Exists(a)
BY DEF IngestInv, TypeOK, Exists, Cat!Exists, PhaseOf

LEMMA CatalogFree ==
  ASSUME IngestInv, NEW k \in Keys, ~Taken(k)
  PROVE  Cat!Free(k)
BY CatalogExists DEF Cat!Free, Taken, HasKey

(* A new row adds an entry, under a key that no entry has.                 *)
LEMMA CatalogAdd ==
  ASSUME IngestInv, NEW a \in Ids, NEW k \in Keys, ~Taken(k), NextId(a), NewArchive(a, k),
         UNCHANGED files
  PROVE  Cat!Add(a, k)
<1>1. archive \in [Ids -> RowType]
  BY DEF IngestInv, TypeOK, RowType
<1>2. PICK row : row = [phase |-> "live", key |-> k, is_withdrawn |-> FALSE]
  OBVIOUS
<1>3. row.phase = "live" /\ row.key = k /\ row.is_withdrawn = FALSE
  BY <1>2
<1>4. archive' = [archive EXCEPT ![a] = row]
  BY <1>2 DEF NewArchive
<1> QED
  BY <1>1, <1>3, <1>4, CatalogFree DEF Cat!Add, PhaseOf, NextId

LEMMA CatalogWithdraw ==
  ASSUME IngestInv, NEW a \in Ids, Withdraw(a)
  PROVE  Cat!Withdraw(a)
<1>1. archive \in [Ids -> RowType]
  BY DEF IngestInv, TypeOK, RowType
<1>2. PICK row : row = [archive[a] EXCEPT !.is_withdrawn = TRUE]
  OBVIOUS
<1>3. /\ row.phase = archive[a].phase /\ row.key = archive[a].key /\ row.is_withdrawn = TRUE
      /\ archive' = [archive EXCEPT ![a] = row]
  BY <1>1, <1>2 DEF RowType, Withdraw
<1> QED
  BY <1>1, <1>3 DEF Cat!Withdraw, PhaseOf, Withdraw, Exists

LEMMA CatalogRemove ==
  ASSUME IngestInv, NEW a \in Ids, Delete(a)
  PROVE  Cat!Remove(a)
<1>1. archive \in [Ids -> RowType]
  BY DEF IngestInv, TypeOK, RowType
<1>2. PICK row : row = [archive[a] EXCEPT !.phase = "gone"]
  OBVIOUS
<1>3. /\ row.phase = "gone" /\ row.key = archive[a].key
      /\ archive' = [archive EXCEPT ![a] = row]
  BY <1>1, <1>2 DEF RowType, Delete
<1>4. Cat!Exists(a)
  BY CatalogExists DEF Delete
<1> QED
  BY <1>1, <1>3, <1>4 DEF Cat!Remove, PhaseOf, Delete

(* A rename takes a key that no other archive has, or changes nothing.     *)
LEMMA CatalogRename ==
  ASSUME IngestInv, NEW c \in Clients, CommitRename(c)
  PROVE  Cat!Next \/ UNCHANGED Cat!vars
<1>0. PICK a \in Ids, k \in Keys : a = call[c].archive /\ k = call[c].key
  BY DEF CommitRename, IngestInv, CallsOK, ShapeOK
<1>1. archive \in [Ids -> RowType] /\ UNCHANGED files
  BY DEF CommitRename, IngestInv, TypeOK, RowType
<1>2. CASE archive' = archive
  BY <1>1, <1>2 DEF Cat!vars
<1>3. CASE /\ Exists(a) /\ \A b \in Ids : HasKey(b, k) => b = a
           /\ archive' = [archive EXCEPT ![a] = [archive[a] EXCEPT !.key = k]]
  <2>1. PICK row : row = [archive[a] EXCEPT !.key = k]
    OBVIOUS
  <2>2. /\ row.phase = archive[a].phase /\ row.is_withdrawn = archive[a].is_withdrawn
        /\ row.key = k /\ archive' = [archive EXCEPT ![a] = row]
    BY <1>1, <1>3, <2>1 DEF RowType
  <2>3. /\ [b \in Ids |-> PhaseOf(archive[b])]' = [b \in Ids |-> PhaseOf(archive[b])]
        /\ [b \in Ids |-> archive[b].key]' = [[b \in Ids |-> archive[b].key] EXCEPT ![a] = k]
    BY <1>1, <2>2 DEF PhaseOf
  <2>4. CASE archive[a].key = k
    BY <1>1, <2>3, <2>4 DEF Cat!vars
  <2>5. CASE archive[a].key # k
    <3>1. Cat!Free(k)
      BY <1>1, <1>3, <2>5, CatalogExists DEF Cat!Free, HasKey
    <3>2. Cat!Rename(a, k)
      BY <1>1, <1>3, <2>3, <3>1, CatalogExists DEF Cat!Rename
    <3> QED
      BY <3>2 DEF Cat!Next
  <2> QED
    BY <2>4, <2>5
<1> QED
  BY <1>0, <1>2, <1>3 DEF CommitRename

(* A link that gets its file, by attachment or by a late fetch.            *)
LEMMA CatalogHold ==
  ASSUME IngestInv, NEW a \in Ids, NEW f \in Files, Exists(a), UNCHANGED archive,
         files' = [files EXCEPT ![a] = files[a] \cup {f}]
  PROVE  Cat!Next
<1>1. Cat!Hold(a, f)
  BY CatalogExists DEF Cat!Hold
<1> QED
  BY <1>1 DEF Cat!Next

LEMMA CatalogStep == IngestInv /\ [Next]_vars => [Cat!Next]_Cat!vars
<1> SUFFICES ASSUME IngestInv, [Next]_vars PROVE Cat!Next \/ UNCHANGED Cat!vars
  OBVIOUS
<1>1. CASE UNCHANGED <<archive, files>>
  BY <1>1 DEF Cat!vars
<1>2. ASSUME NEW c \in Clients, Create(c) PROVE Cat!Next \/ UNCHANGED Cat!vars
  <2>1. call[c].key \in Keys /\ UNCHANGED files
    BY <1>2 DEF Create, IngestInv, CallsOK, ShapeOK
  <2>2. CASE UNCHANGED archive
    BY <1>1, <2>1, <2>2
  <2>3. CASE ~Taken(call[c].key) /\ \E a \in Ids : NextId(a) /\ NewArchive(a, call[c].key)
    <3>1. PICK a \in Ids : NextId(a) /\ NewArchive(a, call[c].key)
      BY <2>3
    <3> QED
      BY <2>1, <2>3, <3>1, CatalogAdd DEF Cat!Next
  <2> QED
    BY <1>2, <2>2, <2>3 DEF Create
<1>3. ASSUME NEW c \in Clients, CommitAttach(c) PROVE Cat!Next \/ UNCHANGED Cat!vars
  <2>1. /\ call[c].archive \in Ids /\ call[c].file \in Files /\ Exists(call[c].archive)
        /\ UNCHANGED archive
        /\ files' = [files EXCEPT ![call[c].archive] =
                        files[call[c].archive] \cup {call[c].file}]
    BY <1>3 DEF CommitAttach, IngestInv, CallsOK, ShapeOK
  <2> QED
    BY <2>1, CatalogHold
<1>4. ASSUME NEW c \in Clients, CommitFetch(c) PROVE Cat!Next \/ UNCHANGED Cat!vars
  <2>1. /\ call[c].archive \in Ids /\ call[c].file \in Files /\ UNCHANGED archive
        /\ files \in [Ids -> SUBSET Files]
    BY <1>4 DEF CommitFetch, IngestInv, TypeOK, CallsOK, ShapeOK
  <2>2. CASE files' = [files EXCEPT ![call[c].archive] = files[call[c].archive]]
    <3>1. UNCHANGED files
      BY <2>1, <2>2
    <3> QED
      BY <1>1, <2>1, <3>1
  <2>3. CASE /\ Exists(call[c].archive)
             /\ files' = [files EXCEPT ![call[c].archive] =
                             files[call[c].archive] \cup {call[c].file}]
    BY <2>1, <2>3, CatalogHold
  <2> QED
    BY <1>4, <2>2, <2>3 DEF CommitFetch
<1>5. ASSUME AtOnce PROVE Cat!Next \/ UNCHANGED Cat!vars
  <2>1. ASSUME NEW k \in Keys, CreateByHand(k) PROVE Cat!Next
    BY <2>1, CatalogAdd DEF CreateByHand, Cat!Next
  <2>2. ASSUME NEW a \in Ids, Withdraw(a) PROVE Cat!Next
    BY <2>2, CatalogWithdraw DEF Cat!Next
  <2>3. ASSUME NEW a \in Ids, Delete(a) PROVE Cat!Next
    BY <2>3, CatalogRemove DEF Cat!Next
  <2> QED
    BY <1>5, <2>1, <2>2, <2>3 DEF AtOnce
<1>6. ASSUME NEW c \in Clients,
             Start(c) \/ FetchLate(c) \/ Refuse(c) \/ EndCall(c) \/ Lookup(c) \/ Fold(c)
               \/ Attach(c) \/ AttachPending(c)
      PROVE  UNCHANGED <<archive, files>>
  BY <1>6 DEF Start, BeginIngest, AttachByHand, BeginRename, FetchLate, BeginFetch, Refuse,
              EndCall, Lookup, Fold, Attach, AttachPending, Rows
<1>7. CASE UNCHANGED vars
  BY <1>1, <1>7 DEF vars
<1> QED
  BY <1>1, <1>2, <1>3, <1>4, <1>5, <1>6, <1>7, CatalogRename DEF Next, Work

(* The archives keep the promises of Catalog in every interleaving: one    *)
(* archive per key, nothing lost but by deletion, nothing put into an      *)
(* archive that is gone.                                                   *)
THEOREM ArchiveImplementsCatalog == Spec => ImplementsCatalog
BY IngestInvariant, CatalogInit, CatalogStep, PTL DEF Spec, ImplementsCatalog, Cat!Spec

=============================================================================
