----------------------------- MODULE UploadSync -----------------------------
(***************************************************************************)
(* The upload source of one workspace: sources/sources.service.ts          *)
(* (saveUploads, syncSource, deleteDocument, deleteSource) over the        *)
(* `uploaded_files` table (connectors/uploaded-file.repository.ts), with   *)
(* the sync pass of SyncPass reading that table through                    *)
(* connectors/upload.connector.ts.                                         *)
(*                                                                         *)
(* The provider here is a table of the same database, so `remote` is its   *)
(* rows: a document is a file name, names are ordered, and `editedAt` is   *)
(* the column updatedAt.  Prisma fills updatedAt when it builds the        *)
(* statement, and other requests see the row when the transaction commits. *)
(***************************************************************************)
EXTENDS SyncPass, FiniteSetsExt

CONSTANTS
    Deleters,   \* the requests that can delete a document or the source
    PageSize,   \* files in one page of listDocuments
    MaxSources  \* bound on the source rows ever created

ASSUME FileNamesAssumption == Docs \subseteq Nat \ {0} /\ IsFiniteSet(Docs)
ASSUME PageSizeAssumption == PageSize \in Nat \ {0} /\ MaxSources \in Nat

VARIABLES
    upload,     \* the local state of each saveUploads request
    deletion,   \* the local state of each delete request
    sourceIds   \* how many source ids have been assigned

uploadVars == <<upload, deletion, sourceIds>>
allVars == <<clock, remote, source, row, rowIds, pass,
             upload, deletion, sourceIds>>

Upload == [phase: {"idle", "saving", "saved", "creating", "syncing"},
           files: SUBSET Docs, stamp: Nat, sourceId: Nat]

NoUpload == [phase |-> "idle", files |-> {}, stamp |-> 0, sourceId |-> 0]

Deletion == [phase: {"idle", "file", "row", "files", "source"},
             doc: SUBSET Docs, id: Nat]

NoDeletion == [phase |-> "idle", doc |-> {}, id |-> 0]

UploadTypeOK ==
    /\ TypeOK
    /\ upload \in [Passes -> Upload]
    /\ deletion \in [Deleters -> Deletion]
    /\ sourceIds \in Nat

UploadInit ==
    /\ Init
    /\ upload = [p \in Passes |-> NoUpload]
    /\ deletion = [x \in Deleters |-> NoDeletion]
    /\ sourceIds = 1

-----------------------------------------------------------------------------
(* saveUploads checks every name first; a bad one ends the request.        *)
(* saveUploadedFiles: the statements are built, with their updatedAt, and  *)
(* the transaction opens. *)
BeginUpload(p, files) ==
    /\ upload[p].phase = "idle" /\ ~Running(p)
    /\ files # {}
    /\ Tick
    /\ upload' = [upload EXCEPT ![p] = [NoUpload EXCEPT !.phase = "saving",
                                                        !.files = files,
                                                        !.stamp = clock']]
    /\ UNCHANGED <<remote, source, row, rowIds, pass, deletion, sourceIds>>

(* The transaction commits: every file of the request at once. *)
CommitUpload(p) ==
    /\ upload[p].phase = "saving"
    /\ Tick
    /\ remote' = [d \in Docs |->
                    IF d \notin upload[p].files THEN remote[d]
                    ELSE [exists |-> TRUE, version |-> clock',
                          editedAt |-> upload[p].stamp,
                          since |-> IF remote[d].exists
                                    THEN remote[d].since ELSE clock']]
    /\ upload' = [upload EXCEPT ![p] = [upload[p] EXCEPT !.phase = "saved"]]
    /\ UNCHANGED <<source, row, rowIds, pass, deletion, sourceIds>>

(* saveUploadSource reads the source and creates it in a second statement. *)
FindUploadSource(p) ==
    /\ upload[p].phase = "saved"
    /\ upload' = [upload EXCEPT ![p] =
                    [upload[p] EXCEPT
                       !.phase = IF source.id = 0 THEN "creating" ELSE "syncing",
                       !.sourceId = source.id]]
    /\ UNCHANGED <<clock, remote, source, row, rowIds, pass, deletion, sourceIds>>

(* The partial unique index rejects the second of two concurrent creates.  *)
CreateUploadSource(p) ==
    /\ upload[p].phase = "creating"
    /\ source.id = 0
    /\ sourceIds < MaxSources
    /\ source' = [id |-> sourceIds + 1, lastSyncedAt |-> 0]
    /\ sourceIds' = sourceIds + 1
    /\ upload' = [upload EXCEPT ![p] = [upload[p] EXCEPT !.phase = "syncing",
                                                  !.sourceId = sourceIds + 1]]
    /\ UNCHANGED <<clock, remote, row, rowIds, pass, deletion>>

(* saveUploads hands over to sync(). *)
SyncUpload(p) ==
    /\ upload[p].phase = "syncing"
    /\ source.id = upload[p].sourceId
    /\ StartPass(p)
    /\ upload' = [upload EXCEPT ![p] = NoUpload]
    /\ UNCHANGED <<deletion, sourceIds>>

(* A statement throws, or the process stops, before the pass begins. *)
FailUpload(p) ==
    /\ upload[p].phase # "idle"
    /\ upload' = [upload EXCEPT ![p] = NoUpload]
    /\ UNCHANGED <<clock, remote, source, row, rowIds, pass, deletion, sourceIds>>

(* syncSource: the same pass without an upload. *)
SyncSource(p) ==
    /\ upload[p].phase = "idle"
    /\ StartPass(p)
    /\ UNCHANGED uploadVars

-----------------------------------------------------------------------------
(* Mutant: the cursor includes the name it holds. *)
FilesFrom(cursor) == {d \in Docs : remote[d].exists /\ d >= cursor}

(* listUploadedFiles: the files whose name is after the cursor. *)
FilesAfter(cursor) == {d \in Docs : remote[d].exists /\ d > cursor}

FirstFiles(n, files) ==
    {d \in files : Cardinality({e \in files : e < d}) < n}

(* Mutant: the cursor is the extra row, which no page then returns. *)
ListSkippingPage(p) ==
    LET found == FirstFiles(PageSize + 1, FilesAfter(pass[p].page))
        page == FirstFiles(PageSize, found)
        more == Cardinality(found) > PageSize
    IN  /\ ListPage(p, page, IF more THEN Max(found) ELSE pass[p].page, more)
        /\ UNCHANGED uploadVars

(* UploadConnector.listDocuments: a page in name order.  One more row than *)
(* a page tells whether another page follows.                              *)
ListUploadPage(p) ==
    LET found == FirstFiles(PageSize + 1, FilesAfter(pass[p].page))
        page == FirstFiles(PageSize, found)
        more == Cardinality(found) > PageSize
    IN  /\ ListPage(p, page, IF more THEN Max(page) ELSE pass[p].page, more)
        /\ UNCHANGED uploadVars

SyncStep(p) == PassStep(p) /\ UNCHANGED uploadVars

-----------------------------------------------------------------------------
(* deleteDocument: find the row, delete the file by name, delete the row   *)
(* by id. *)
BeginDeleteDocument(x, d) ==
    /\ deletion[x].phase = "idle"
    /\ row[d].id # 0
    /\ deletion' = [deletion EXCEPT ![x] = [phase |-> "file", doc |-> {d},
                                            id |-> row[d].id]]
    /\ UNCHANGED <<clock, remote, source, row, rowIds, pass, upload, sourceIds>>

(* deleteSource: find the source, delete every file, delete the source. *)
BeginDeleteSource(x) ==
    /\ deletion[x].phase = "idle"
    /\ source.id # 0
    /\ deletion' = [deletion EXCEPT ![x] = [phase |-> "files", doc |-> Docs,
                                            id |-> source.id]]
    /\ UNCHANGED <<clock, remote, source, row, rowIds, pass, upload, sourceIds>>

(* deleteUploadedFile and deleteUploadedFiles; an absent file is no error. *)
DeleteFiles(x) ==
    /\ deletion[x].phase \in {"file", "files"}
    /\ Tick
    /\ remote' = [d \in Docs |->
                    IF d \in deletion[x].doc /\ remote[d].exists
                    THEN [remote[d] EXCEPT !.exists = FALSE, !.since = clock']
                    ELSE remote[d]]
    /\ deletion' = [deletion EXCEPT ![x] =
                      [deletion[x] EXCEPT
                         !.phase = IF deletion[x].phase = "file"
                                   THEN "row" ELSE "source"]]
    /\ UNCHANGED <<source, row, rowIds, pass, upload, sourceIds>>

DeleteRow(x) ==
    /\ deletion[x].phase = "row"
    /\ row' = [d \in Docs |-> IF row[d].id = deletion[x].id
                              THEN NoRow ELSE row[d]]
    /\ deletion' = [deletion EXCEPT ![x] = NoDeletion]
    /\ UNCHANGED <<clock, remote, source, rowIds, pass, upload, sourceIds>>

DeleteUploadSource(x) ==
    /\ deletion[x].phase = "source"
    /\ IF source.id = deletion[x].id
       THEN DeleteSourceRow
       ELSE UNCHANGED <<source, row>>
    /\ deletion' = [deletion EXCEPT ![x] = NoDeletion]
    /\ UNCHANGED <<clock, remote, rowIds, pass, upload, sourceIds>>

(* The process stops between the file and the row, or a statement throws. *)
FailDeletion(x) ==
    /\ deletion[x].phase # "idle"
    /\ deletion' = [deletion EXCEPT ![x] = NoDeletion]
    /\ UNCHANGED <<clock, remote, source, row, rowIds, pass, upload, sourceIds>>

UploadNext ==
    \/ \E p \in Passes :
          \/ \E files \in SUBSET Docs : BeginUpload(p, files)
          \/ CommitUpload(p) \/ FindUploadSource(p) \/ CreateUploadSource(p)
          \/ SyncUpload(p) \/ FailUpload(p) \/ SyncSource(p)
          \/ ListUploadPage(p) \/ SyncStep(p)
    \/ \E x \in Deleters :
          \/ \E d \in Docs : BeginDeleteDocument(x, d)
          \/ BeginDeleteSource(x) \/ DeleteFiles(x) \/ DeleteRow(x)
          \/ DeleteUploadSource(x) \/ FailDeletion(x)

UploadSpec == UploadInit /\ [][UploadNext]_allVars

(* Every statement of a pass returns or throws, so a pass that can step    *)
(* does.  Nothing makes a request start, commit or be sent again.          *)
UploadFairness ==
    \A p \in Passes : WF_allVars(ListUploadPage(p) \/ SyncStep(p))

UploadFairSpec == UploadSpec /\ UploadFairness

-----------------------------------------------------------------------------
(* The walk by file name skips no file that was stored all through the     *)
(* pass, whatever is uploaded or deleted between two pages                 *)
(* (upload.connector.ts listDocuments).                                    *)
ListingMissesNoFile ==
    \A p \in Passes :
        pass[p].phase \in {"sweep", "check", "delete", "record"} =>
            \A d \in Docs :
                remote[d].exists /\ remote[d].since < pass[p].startedAt
                    => d \in pass[p].seen

(* A pass ends, although files keep arriving while it walks them: the      *)
(* cursor only moves up (sync.service.ts, the do-while over pages).        *)
PassEnds == \A p \in Passes : Running(p) ~> ~Running(p)
=============================================================================
