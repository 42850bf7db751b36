--------------------------- MODULE ArchiveIngest ---------------------------
(***************************************************************************)
(* The archives of the file asset service: rows of archive and             *)
(* archive_file that crawlers and callers of the web API create, fill,     *)
(* correct, withdraw and delete at the same time, each in a database       *)
(* session of its own.                                                     *)
(*                                                                         *)
(* One action is what a session does between two points at which another   *)
(* one can come in between: a commit, or a query whose answer it writes    *)
(* from later.  An archive is filled in several transactions, roles are    *)
(* computed from what the transaction saw, a new key is looked for before  *)
(* it is written.  Isolation is READ COMMITTED; the unique keys and        *)
(* foreign keys of models.py are the only guards between sessions.         *)
(*                                                                         *)
(* A file is the number that its place (sort_order, added_at) gives it     *)
(* among the files of an archive.  A key stands for tenant, domain and     *)
(* business key of a first version.  Status, titles and metadata, which no *)
(* other operation asks for, and the lineage, event and audit rows that    *)
(* are written along are left out.                                         *)
(***************************************************************************)
EXTENDS Naturals, Sequences

CONSTANTS
    MaxArchives,   \* bound: how many archives are ever created
    Keys,
    Folding,       \* the keys of cost_info, whose duplicates are folded
    Files,
    Excel,         \* the files with an .xls or .xlsx extension
    Attachments,   \* what may be got of each issue or notice: its files, in
                   \* their order, without those that come empty
    Late,          \* the files of a trading notice that are fetched off peak
    Clients,       \* sessions
    None

ASSUME KeyAssumption == Folding \subseteq Keys /\ None \notin Keys
ASSUME FileAssumption ==
    Files \subseteq Nat /\ Excel \subseteq Files /\ None \notin Nat /\ MaxArchives \in Nat
ASSUME AttachmentsAssumption ==
    /\ Attachments \in [Keys -> SUBSET (Seq(Files) \ {<<>>})]
    /\ Late \in [Keys -> SUBSET Files]
(* sort_order: the fetched attachments of a notice come before the others, *)
(* and only a trading notice has others.                                   *)
ASSUME LateAssumption ==
    /\ \A k \in Folding : Late[k] = {}
    /\ \A k \in Keys : \A todo \in Attachments[k], f \in Late[k] : Head(todo) < f

Ids == 1 .. MaxArchives

VARIABLES
    archive,   \* rows of archive
    files,     \* the files linked to each archive: rows of archive_file
    primary,   \* those whose is_primary is set
    pending,   \* the links of each archive that wait for their file
    call       \* what each session is doing

vars == <<archive, files, primary, pending, call>>

Steps == {"idle", "lookup", "create", "fold", "attach", "commit", "late", "rename", "fetch",
          "ok", "refused", "broken"}

TypeOK ==
    /\ archive \in [Ids -> [phase : {"unborn", "live", "gone"}, key : Keys \cup {None},
                            is_withdrawn : BOOLEAN]]
    /\ files \in [Ids -> SUBSET Files]
    /\ primary \in [Ids -> SUBSET Files]
    /\ pending \in [Ids -> SUBSET Files]
    /\ call \in [Clients -> [step : Steps, key : Keys \cup {None}, todo : Seq(Files),
                             late : SUBSET Files, archive : Ids \cup {None},
                             up : SUBSET Files, down : SUBSET Files,
                             file : Files \cup {None}]]

Idle == [step |-> "idle", key |-> None, todo |-> <<>>, late |-> {}, archive |-> None,
         up |-> {}, down |-> {}, file |-> None]

Init ==
    /\ archive = [a \in Ids |-> [phase |-> "unborn", key |-> None,
                                 is_withdrawn |-> FALSE]]
    /\ files = [a \in Ids |-> {}]
    /\ primary = [a \in Ids |-> {}]
    /\ pending = [a \in Ids |-> {}]
    /\ call = [c \in Clients |-> Idle]

Exists(a) == archive[a].phase = "live"
HasKey(a, k) == Exists(a) /\ archive[a].key = k
Taken(k) == \E a \in Ids : HasKey(a, k)

(* The outcome of an ingest matters to a crawler; other calls are over     *)
(* with their answer.                                                      *)
Answer(c) == call' = [call EXCEPT ![c] = Idle]
Goto(c, step) == call' = [call EXCEPT ![c] = [call[c] EXCEPT !.step = step]]
Begin(c, new) == call[c].step = "idle" /\ call' = [call EXCEPT ![c] = new]
Rows == <<archive, files, primary, pending>>

-----------------------------------------------------------------------------
(* Ingest of an issue, a notice or a single ingest event.                  *)

(* An issue of the price bulletin, a trading notice, or POST               *)
(* /api/archives/from-ingest-event with one file.                          *)
BeginIngest(c, k, todo, late) ==
    /\ Begin(c, [Idle EXCEPT !.step = "lookup", !.key = k, !.todo = todo, !.late = late])
    /\ UNCHANGED Rows

(* The file is registered and committed; then the archive is looked up by  *)
(* its key, withdrawn or not.  A trading notice that has its archive goes  *)
(* on by id.                                                               *)
Lookup(c) ==
    LET k == call[c].key
        known == call[c].archive # None
        fold == k \in Folding /\ Taken(k)
    IN  /\ call[c].step = "lookup"
        /\ IF known THEN Goto(c, "attach")
           ELSE IF ~fold THEN Goto(c, "create")
           ELSE \E a \in Ids : HasKey(a, k) /\
                call' = [call EXCEPT ![c] = [call[c] EXCEPT !.step = "fold", !.archive = a]]
        /\ UNCHANGED Rows

(* A download or the object store fails: an error of this item only.       *)
Refuse(c) ==
    /\ call[c].step = "lookup"
    /\ Goto(c, "refused")
    /\ UNCHANGED Rows

(* Named bound: ids are given out in order while there are any.            *)
NextId(a) == archive[a].phase = "unborn" /\ \A b \in Ids : archive[b].phase = "unborn" => a <= b

NewArchive(a, k) ==
    archive' = [archive EXCEPT ![a] = [phase |-> "live", key |-> k, is_withdrawn |-> FALSE]]

(* Mutant: nobody asks for the key a second time, and it is not unique.    *)
CreateUnchecked(c) ==
    /\ call[c].step = "create"
    /\ \E a \in Ids :
         /\ NextId(a)
         /\ NewArchive(a, call[c].key)
         /\ call' = [call EXCEPT ![c] = [call[c] EXCEPT !.step = "attach", !.archive = a]]
    /\ UNCHANGED <<files, primary, pending>>

(* create_archive asks once more, and the unique key decides what two      *)
(* sessions do at once: the one that finds the key is refused, the one     *)
(* that loses at the insert has a session that needs a rollback.  The      *)
(* archive is committed before it has a file.                              *)
Create(c) ==
    /\ call[c].step = "create"
    /\ \/ /\ Taken(call[c].key)
          /\ Goto(c, "refused") \/ Goto(c, "broken")
          /\ UNCHANGED archive
       \/ /\ ~Taken(call[c].key)
          /\ \E a \in Ids :
               /\ NextId(a)
               /\ NewArchive(a, call[c].key)
               /\ call' = [call EXCEPT ![c] = [call[c] EXCEPT !.step = "attach",
                                                              !.archive = a]]
    /\ UNCHANGED <<files, primary, pending>>

-----------------------------------------------------------------------------
(* attach_file                                                             *)

First(S) == {f \in S : \A g \in S : f <= g}

(* Mutant: positions are counted from one, so that no file is the first.   *)
LeadFromOne(S) == S \cap Excel

(* _apply_representation_roles: every Excel file, or else the first file.  *)
Lead(S) == IF S \cap Excel # {} THEN S \cap Excel ELSE First(S)

(* The row of the archive is there, or the foreign key stops the insert.   *)
(* The link is inserted, then the roles of all files the transaction can   *)
(* see are computed; the flags that differ from the loaded ones are        *)
(* written.  `file` is the one whose link is not committed yet.            *)
InsertLink(c, a, f, base) ==
    LET seen == files[a] \cup {f}
    IN  call' = [call EXCEPT ![c] =
            [base EXCEPT !.step = "commit", !.archive = a, !.file = f,
                         !.up = Lead(seen) \ primary[a],
                         !.down = primary[a] \ Lead(seen)]]

(* The unique key makes a second insert of a link wait for the first.      *)
Inserting(c, a) == call[c].step = "commit" /\ call[c].archive = a
LinkHeld(a, f) == \E c \in Clients : Inserting(c, a) /\ call[c].file = f

(* The next attachment: looked up by key again, or by the id (trading).    *)
Advance(old) ==
    IF old.key = None THEN Idle ELSE
    [old EXCEPT !.todo = Tail(old.todo), !.up = {}, !.down = {}, !.file = None,
                !.archive = IF old.key \in Folding THEN None ELSE old.archive,
                !.step = IF Tail(old.todo) # <<>> THEN "lookup"
                         ELSE IF old.late # {} THEN "late" ELSE "ok"]

(* An issue that has its archive leaves its lineage there and passes over  *)
(* a file that is linked already.                                          *)
Fold(c) ==
    LET a == call[c].archive
    IN  /\ call[c].step = "fold"
        /\ IF ~Exists(a) THEN Goto(c, "broken")
           ELSE IF Head(call[c].todo) \notin files[a] THEN Goto(c, "attach")
           ELSE call' = [call EXCEPT ![c] = Advance(call[c])]
        /\ UNCHANGED Rows

Attach(c) ==
    LET a == call[c].archive
        f == Head(call[c].todo)
    IN  /\ call[c].step = "attach"
        /\ ~LinkHeld(a, f)
        /\ IF Exists(a) /\ f \notin files[a]
           THEN InsertLink(c, a, f, call[c])
           ELSE Goto(c, "broken")
        /\ UNCHANGED Rows

(* POST /api/archives/{id}/files, up to its commit.                        *)
AttachByHand(c, a, f) ==
    /\ call[c].step = "idle"
    /\ Exists(a) /\ f \notin files[a] /\ ~LinkHeld(a, f)
    /\ InsertLink(c, a, f, Idle)
    /\ UNCHANGED Rows

CommitAttach(c) ==
    LET a == call[c].archive
        f == call[c].file
    IN  /\ call[c].step = "commit"
        /\ files' = [files EXCEPT ![a] = files[a] \cup {f}]
        /\ primary' = [primary EXCEPT ![a] = (primary[a] \cup call[c].up) \ call[c].down]
        /\ call' = [call EXCEPT ![c] = Advance(call[c])]
        /\ UNCHANGED <<archive, pending>>

(* attach_pending_file, for each attachment that is fetched off peak.      *)
AttachPending(c) ==
    LET a == call[c].archive
    IN  /\ call[c].step = "late"
        /\ \E f \in call[c].late :
             IF Exists(a)
             THEN /\ pending' = [pending EXCEPT ![a] = pending[a] \cup {f}]
                  /\ call' = [call EXCEPT ![c] = [call[c] EXCEPT
                        !.late = call[c].late \ {f},
                        !.step = IF call[c].late = {f} THEN "ok" ELSE "late"]]
             ELSE Goto(c, "broken") /\ UNCHANGED pending
        /\ UNCHANGED <<archive, files, primary>>

(* fetch_pending_trading_archive_file: the link is read, the file is       *)
(* downloaded and registered, ...                                          *)
BeginFetch(c, a, f) ==
    /\ f \in pending[a]
    /\ Begin(c, [Idle EXCEPT !.step = "fetch", !.archive = a, !.file = f])
    /\ UNCHANGED Rows

(* ... and the link gets its file.  Roles are not computed again.  A link  *)
(* that another fetch has filled is filled again, with the same file as    *)
(* long as the site has not changed it; one that is gone, or whose file    *)
(* was linked by hand, ends in an error.                                   *)
CommitFetch(c) ==
    LET a == call[c].archive
        f == call[c].file
        lost == ~Exists(a) \/ (f \in pending[a] /\ f \in files[a])
    IN  /\ call[c].step = "fetch"
        /\ ~LinkHeld(a, f)
        /\ files' = [files EXCEPT ![a] = IF lost THEN files[a] ELSE files[a] \cup {f}]
        /\ pending' = [pending EXCEPT ![a] = IF lost THEN pending[a] ELSE pending[a] \ {f}]
        /\ Answer(c)
        /\ UNCHANGED <<archive, primary>>

-----------------------------------------------------------------------------
(* The other writes of the web API.                                        *)

(* POST /api/archives                                                      *)
CreateByHand(k) ==
    /\ ~Taken(k)
    /\ \E a \in Ids : NextId(a) /\ NewArchive(a, k)
    /\ UNCHANGED <<files, primary, pending, call>>

(* patch_archive, of the key: it looks for the new key before it writes,   *)
(* ...                                                                     *)
BeginRename(c, a, k) ==
    /\ Exists(a)
    /\ ~Taken(k)
    /\ k \in Folding <=> archive[a].key \in Folding
    /\ Begin(c, [Idle EXCEPT !.step = "rename", !.archive = a, !.key = k])
    /\ UNCHANGED Rows

(* ... and writes the key, if the row is still there and the unique key    *)
(* does not belong to another one.                                         *)
CommitRename(c) ==
    LET a == call[c].archive
        k == call[c].key
    IN  /\ call[c].step = "rename"
        /\ archive' = IF Exists(a) /\ \A b \in Ids : HasKey(b, k) => b = a
                       THEN [archive EXCEPT ![a] = [archive[a] EXCEPT !.key = k]]
                       ELSE archive
        /\ Answer(c)
        /\ UNCHANGED <<files, primary, pending>>

(* Two withdrawals at once write the same; the second one is not told.     *)
Withdraw(a) ==
    /\ Exists(a) /\ ~archive[a].is_withdrawn
    /\ archive' = [archive EXCEPT ![a] = [archive[a] EXCEPT !.is_withdrawn = TRUE]]
    /\ UNCHANGED <<files, primary, pending, call>>

(* Mutant: the row is deleted under an uncommitted link.                   *)
DeleteAtOnce(a) ==
    /\ Exists(a)
    /\ archive' = [archive EXCEPT ![a] = [archive[a] EXCEPT !.phase = "gone"]]
    /\ pending' = [pending EXCEPT ![a] = {}]
    /\ UNCHANGED <<files, primary, call>>

(* delete_archive: the links go with the row; files[a] remembers what they *)
(* were.  An uncommitted link locks the row, and makes the delete fail     *)
(* once it is committed.                                                   *)
Delete(a) ==
    /\ Exists(a)
    /\ \A c \in Clients : ~Inserting(c, a)
    /\ archive' = [archive EXCEPT ![a] = [archive[a] EXCEPT !.phase = "gone"]]
    /\ pending' = [pending EXCEPT ![a] = {}]
    /\ UNCHANGED <<files, primary, call>>

-----------------------------------------------------------------------------
(* The session ends, with its call, with an error or with its process:     *)
(* what it has not committed is gone.                                      *)
EndCall(c) ==
    /\ call[c] # Idle
    /\ Answer(c)
    /\ UNCHANGED Rows

Work(c) ==
    \/ Lookup(c) \/ Create(c) \/ Fold(c) \/ Attach(c) \/ CommitAttach(c) \/ AttachPending(c)
    \/ CommitFetch(c) \/ CommitRename(c)
Start(c) ==
    \/ \E k \in Keys : \E todo \in Attachments[k] : BeginIngest(c, k, todo, Late[k])
    \/ \E k \in Keys, f \in Files : BeginIngest(c, k, <<f>>, {})
    \/ \E a \in Ids, f \in Files : AttachByHand(c, a, f)
    \/ \E a \in Ids, k \in Keys : BeginRename(c, a, k)
FetchLate(c) == \E a \in Ids, f \in Files : BeginFetch(c, a, f)
AtOnce == \/ \E k \in Keys : CreateByHand(k)
          \/ \E a \in Ids : Withdraw(a) \/ Delete(a)

Next ==
    \/ \E c \in Clients : Start(c) \/ FetchLate(c) \/ Work(c) \/ Refuse(c) \/ EndCall(c)
    \/ AtOnce

Spec == Init /\ [][Next]_vars

-----------------------------------------------------------------------------
(* An archive that has files shows one of them: no order in which sessions *)
(* add files and compute the roles from what each of them sees leaves an   *)
(* archive without a primary file.                                         *)
HasPrimary == \A a \in Ids : files[a] # {} => primary[a] \cap files[a] # {}

-----------------------------------------------------------------------------
(* The inductive invariant.                                                *)

(* What a session has fixed before each of its steps.                      *)
ShapeOK(x) ==
    /\ x.step \in {"fold", "attach", "commit", "late", "fetch", "rename"} => x.archive \in Ids
    /\ x.step = "create" => x.archive = None
    /\ x.step \in {"lookup", "create", "fold", "attach"} => x.key \in Keys /\ x.todo # <<>>
    /\ x.step = "fold" => x.key \in Folding
    /\ x.step \in {"late", "rename"} => x.key \in Keys
    /\ x.step = "late" => x.todo = <<>>
    /\ x.step \in {"commit", "fetch"} => x.file \in Files
    /\ x.step = "commit" =>
          /\ Exists(x.archive)
          /\ x.key # None => x.todo # <<>> /\ x.file = Head(x.todo)

(* A file that is fetched later never comes first: another one is before   *)
(* it, or is still to be attached before it.                               *)
LateOK(x) ==
    /\ \A l \in x.late :
          /\ x.key \notin Folding
          /\ \/ x.archive \in Ids /\ \E f \in files[x.archive] : f < l
             \/ x.todo # <<>> /\ Head(x.todo) < l
    /\ x.step = "fetch" => \E f \in files[x.archive] : f < x.file
PendingAfter ==
    \A a \in Ids : \A l \in pending[a] : \E f \in files[a] : f < l

(* The primary file that is not taken back: a table, or the first file.    *)
HasLead ==
    \A a \in Ids :
        /\ primary[a] \subseteq files[a]
        /\ files[a] # {} => \E f \in primary[a] : f \in Excel \/ \A g \in files[a] : f <= g

(* What a session writes at its commit, computed from an earlier view,     *)
(* keeps the archive such a file: it demotes no table, and either there is *)
(* a primary table by then, or it demotes only files that come after       *)
(* another one, and promotes its own file unless that one does.            *)
RolesOK(x) ==
    LET all == files[x.archive] \cup {x.file}
    IN  x.step = "commit" =>
        /\ x.up \subseteq all /\ x.down \subseteq files[x.archive]
        /\ x.up \cap x.down = {} /\ x.down \cap Excel = {}
        /\ \/ \E e \in Excel : e \in x.up \/ e \in primary[x.archive]
           \/ /\ \A d \in x.down : \E g \in all : g < d
              /\ x.file \in x.up \/ \E g \in files[x.archive] : g < x.file

CallsOK == \A c \in Clients : ShapeOK(call[c]) /\ LateOK(call[c]) /\ RolesOK(call[c])

IngestInv == TypeOK /\ PendingAfter /\ HasLead /\ CallsOK

-----------------------------------------------------------------------------
(* The archives implement Catalog: one archive per key, nothing put into a *)
(* deleted one, nothing lost but by deletion, whatever sessions do at once.*)
PhaseOf(row) ==
    IF row.phase # "live" THEN row.phase
    ELSE IF row.is_withdrawn THEN "withdrawn" ELSE "live"
Cat == INSTANCE Catalog WITH
    Entries <- Ids,
    NoKey <- None,
    phase <- [a \in Ids |-> PhaseOf(archive[a])],
    key <- [a \in Ids |-> archive[a].key],
    holds <- files
ImplementsCatalog == Cat!Spec

=============================================================================
