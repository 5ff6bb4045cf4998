------------------------------ MODULE SyncPass ------------------------------
(***************************************************************************)
(* The reconciliation of one source with the document index:               *)
(* sync/sync.service.ts, and the writes it makes through                   *)
(* documents/document.repository.ts and                                    *)
(* documents/source-sync.repository.ts.                                    *)
(*                                                                         *)
(* A pass is a chain of awaits in one HTTP request.  Nothing serialises    *)
(* two passes over the same source, so every step between two awaits is an *)
(* action here and any number of passes may interleave.  The database      *)
(* rows, the provider and the clock are shared.                            *)
(*                                                                         *)
(* Every instant is a natural number and 0 stands for null.  Two stamps    *)
(* taken one after the other differ: a pass talks to another process       *)
(* between the stamp it takes and the body it reads.                       *)
(***************************************************************************)
EXTENDS Integers, FiniteSets

CONSTANTS
    Docs,         \* the external ids the provider can ever assign
    Attachments,  \* those whose documentType is attachment
    Passes,       \* the requests that can run a pass
    ServesGone,   \* may fetchDocumentById answer for a document that is gone
    MaxClock,     \* bound on the number of stamped events
    MaxRows,      \* bound on the number of document rows ever created
    MaxPages      \* bound on the pages of one listing

ASSUME AttachmentsAssumption == Attachments \subseteq Docs
ASSUME ServesGoneAssumption == ServesGone \in BOOLEAN
ASSUME BoundsAssumption == /\ MaxClock \in Nat
                           /\ MaxRows \in Nat
                           /\ MaxPages \in Nat

VARIABLES
    clock,   \* the latest instant anything was stamped with
    remote,  \* what the provider holds
    source,  \* the row of `sources`; id 0 once it is deleted
    row,     \* the rows of `documents`, with the version their chunks hold
    rowIds,  \* how many row ids have been assigned
    pass     \* the local state of each running pass

vars == <<clock, remote, source, row, rowIds, pass>>

-----------------------------------------------------------------------------
(* `since` is when the document last appeared or disappeared. *)
RemoteDocument ==
    [exists: BOOLEAN, version: Nat, editedAt: Nat, since: Nat]

(* The body of a row is the version its chunks were cut from, 0 when it    *)
(* has no chunks.                                                          *)
Row == [id: Nat, lastSeenAt: Nat, lastIndexedAt: Nat, body: Nat]

NoRow == [id |-> 0, lastSeenAt |-> 0, lastIndexedAt |-> 0, body |-> 0]

DocumentRef == [doc: Docs, externalUpdatedAt: Nat]

StaleDocument == [id: Nat, doc: Docs]

Phases == {"idle", "list", "observe", "fetch", "reindex",
           "sweep", "check", "delete", "record"}

Pass ==
    [phase: Phases,
     sourceId: Nat,
     startedAt: Nat,
     page: Nat,                    \* the cursor
     more: BOOLEAN,                \* the listing returned a nextCursor
     todo: SUBSET DocumentRef,     \* the rest of the page in hand
     seen: SUBSET Docs,            \* every document the pass has observed
     current: SUBSET Docs,         \* the document being re-indexed, if any
     rowId: Nat,
     body: Nat,
     stale: SUBSET StaleDocument,  \* not yet asked about
     gone: SUBSET StaleDocument]   \* the provider reported them gone

Idle ==
    [phase |-> "idle", sourceId |-> 0, startedAt |-> 0, page |-> 0,
     more |-> FALSE, todo |-> {}, seen |-> {}, current |-> {}, rowId |-> 0,
     body |-> 0, stale |-> {}, gone |-> {}]

TypeOK ==
    /\ clock \in Nat
    /\ remote \in [Docs -> RemoteDocument]
    /\ source \in [id: Nat, lastSyncedAt: Nat]
    /\ row \in [Docs -> Row]
    /\ rowIds \in Nat
    /\ pass \in [Passes -> Pass]

Running(p) == pass[p].phase # "idle"

(* The source row the pass works for is still there: the foreign key of    *)
(* every row it writes.                                                    *)
SourceHeld(p) == source.id # 0 /\ source.id = pass[p].sourceId

(* Where the loops over documents and pages go once a document is done.    *)
NextStep(ps) == IF ps.todo # {} THEN "observe"
                ELSE IF ps.more THEN "list" ELSE "sweep"

-----------------------------------------------------------------------------
Init ==
    /\ clock = 1
    /\ remote = [d \in Docs |-> [exists |-> FALSE, version |-> 0,
                                 editedAt |-> 0, since |-> 0]]
    /\ source = [id |-> 1, lastSyncedAt |-> 0]
    /\ row = [d \in Docs |-> NoRow]
    /\ rowIds = 0
    /\ pass = [p \in Passes |-> Idle]

Tick == clock < MaxClock /\ clock' = clock + 1

(* sync(): take the start stamp and resolve the connector. *)
StartPass(p) ==
    /\ ~Running(p)
    /\ source.id # 0
    /\ Tick
    /\ pass' = [pass EXCEPT ![p] = [Idle EXCEPT !.phase = "list",
                                                !.sourceId = source.id,
                                                !.startedAt = clock']]
    /\ UNCHANGED <<remote, source, row, rowIds>>

(* One listDocuments call: `listed` is the page and `more` whether a cursor *)
(* came with it.                                                            *)
ListPage(p, listed, cursor, more) ==
    LET page == {[doc |-> d, externalUpdatedAt |-> remote[d].editedAt] :
                     d \in listed}
        next == [pass[p] EXCEPT !.todo = page, !.page = cursor, !.more = more]
    IN  /\ pass[p].phase = "list"
        /\ pass' = [pass EXCEPT ![p] = [next EXCEPT !.phase = NextStep(next)]]
        /\ UNCHANGED <<clock, remote, source, row, rowIds>>

(* A provider lists only documents it serves, in pages of its own making,  *)
(* and may leave one out or list it on two pages.                          *)
ListSomePage(p) ==
    \E listed \in SUBSET {d \in Docs : remote[d].exists}, more \in BOOLEAN :
        /\ more => pass[p].page + 1 < MaxPages
        /\ ListPage(p, listed, pass[p].page + 1, more)

(* upsertObservedDocument on the unique key (source, externalId). *)
Upserted(p, ref) ==
    IF row[ref.doc].id = 0
    THEN [NoRow EXCEPT !.id = rowIds + 1, !.lastSeenAt = pass[p].startedAt]
    ELSE [row[ref.doc] EXCEPT !.lastSeenAt = pass[p].startedAt]

(* Mutant: a document is indexed once and never again. *)
NeedsFirstIndex(r, ref) == ref.doc \notin Attachments /\ r.lastIndexedAt = 0

NeedsIndex(r, ref) ==
    /\ ref.doc \notin Attachments
    /\ r.lastIndexedAt = 0 \/ r.lastIndexedAt < ref.externalUpdatedAt

(* Upsert the metadata of one listed document and decide on a re-index. *)
ObserveDocument(p, ref) ==
    LET r == Upserted(p, ref)
        rest == [pass[p] EXCEPT !.todo = @ \ {ref}, !.seen = @ \cup {ref.doc}]
    IN  /\ pass[p].phase = "observe"
        /\ ref \in pass[p].todo
        /\ SourceHeld(p)
        /\ row[ref.doc].id = 0 => rowIds < MaxRows
        /\ row' = [row EXCEPT ![ref.doc] = r]
        /\ rowIds' = IF row[ref.doc].id = 0 THEN rowIds + 1 ELSE rowIds
        /\ pass' = [pass EXCEPT ![p] =
                      IF NeedsIndex(r, ref)
                      THEN [rest EXCEPT !.phase = "fetch",
                                        !.current = {ref.doc}, !.rowId = r.id]
                      ELSE [rest EXCEPT !.phase = NextStep(rest)]]
        /\ UNCHANGED <<clock, remote, source>>

(* fetchDocumentById; createChunks and embedChunks follow on local data. *)
FetchDocument(p, d) ==
    /\ pass[p].phase = "fetch"
    /\ pass[p].current = {d}
    /\ remote[d].exists \/ ServesGone
    /\ pass' = [pass EXCEPT ![p] = [@ EXCEPT !.phase = "reindex",
                                             !.body = remote[d].version]]
    /\ UNCHANGED <<clock, remote, source, row, rowIds>>

(* Replace the chunks and the index time of one row, and go on. *)
ReplaceChunks(p, d, stamp) ==
    LET done == [pass[p] EXCEPT !.current = {}, !.rowId = 0, !.body = 0]
    IN  /\ pass[p].phase = "reindex"
        /\ pass[p].current = {d}
        /\ row' = [row EXCEPT ![d] = [@ EXCEPT !.body = pass[p].body,
                                              !.lastIndexedAt = stamp]]
        /\ pass' = [pass EXCEPT ![p] = [done EXCEPT !.phase = NextStep(done)]]
        /\ UNCHANGED <<clock, remote, source, rowIds>>

(* Mutant: the index time is the time of the write. *)
ReindexStampedNow(p, d) ==
    row[d].id = pass[p].rowId /\ ReplaceChunks(p, d, clock)

(* Mutant: the row is found again by its external id, not its row id. *)
ReindexByExternalId(p, d) == ReplaceChunks(p, d, pass[p].startedAt)

(* The reindexDocument transaction.  It names the row by the id the upsert *)
(* returned, so it fails when that row is gone.                            *)
ReindexDocument(p, d) ==
    /\ row[d].id = pass[p].rowId
    /\ ReplaceChunks(p, d, pass[p].startedAt)

(* listStaleDocuments. *)
StaleDocuments(p) ==
    {[id |-> row[d].id, doc |-> d] :
        d \in {e \in Docs : /\ SourceHeld(p)
                            /\ row[e].id # 0
                            /\ row[e].lastSeenAt < pass[p].startedAt}}

ListStaleDocuments(p) ==
    /\ pass[p].phase = "sweep"
    /\ pass' = [pass EXCEPT ![p] =
                   [@ EXCEPT !.stale = StaleDocuments(p),
                             !.phase = IF StaleDocuments(p) = {}
                                       THEN "delete" ELSE "check"]]
    /\ UNCHANGED <<clock, remote, source, row, rowIds>>

(* The sweep goes on to the next stale document, with `gone` so far. *)
SweepOn(p, s, gone) ==
    /\ pass[p].phase = "check"
    /\ s \in pass[p].stale
    /\ pass' = [pass EXCEPT ![p] =
                   [pass[p] EXCEPT !.stale = @ \ {s},
                                   !.gone = gone,
                                   !.phase = IF pass[p].stale = {s}
                                             THEN "delete" ELSE "check"]]
    /\ UNCHANGED <<clock, remote, source, row, rowIds>>

(* Mutant: a document the listing left out counts as gone. *)
TrustTheListing(p, s) == SweepOn(p, s, pass[p].gone \cup {s})

(* One checkDocumentExists call of the sweep. *)
CheckDocumentExists(p, s) ==
    SweepOn(p, s, IF remote[s.doc].exists
                  THEN pass[p].gone ELSE pass[p].gone \cup {s})

(* deleteDocuments, by row id; the chunks go with the row. *)
Swept(p, d) == \E s \in pass[p].gone : s.id = row[d].id

DeleteDocuments(p) ==
    /\ pass[p].phase = "delete"
    /\ row' = [d \in Docs |-> IF Swept(p, d) THEN NoRow ELSE row[d]]
    /\ pass' = [pass EXCEPT ![p] = [@ EXCEPT !.phase = "record", !.gone = {}]]
    /\ UNCHANGED <<clock, remote, source, rowIds>>

(* Mutant: the stamp is written whatever the row holds. *)
RecordAlways(p) ==
    /\ pass[p].phase = "record"
    /\ SourceHeld(p)
    /\ source' = [source EXCEPT !.lastSyncedAt = pass[p].startedAt]
    /\ pass' = [pass EXCEPT ![p] = Idle]
    /\ UNCHANGED <<clock, remote, row, rowIds>>

(* recordSyncCompletion: an older start never replaces a newer one. *)
RecordSyncCompletion(p) ==
    /\ pass[p].phase = "record"
    /\ SourceHeld(p)
    /\ source' = IF \/ source.lastSyncedAt = 0
                    \/ source.lastSyncedAt < pass[p].startedAt
                 THEN [source EXCEPT !.lastSyncedAt = pass[p].startedAt]
                 ELSE source
    /\ pass' = [pass EXCEPT ![p] = Idle]
    /\ UNCHANGED <<clock, remote, row, rowIds>>

(* Any await of a pass can throw (the provider, the embedding service, a   *)
(* foreign key, a missing row) and the process can stop.  The rows already *)
(* written stay.                                                           *)
FailPass(p) ==
    /\ Running(p)
    /\ pass' = [pass EXCEPT ![p] = Idle]
    /\ UNCHANGED <<clock, remote, source, row, rowIds>>

PassStep(p) ==
    \/ \E ref \in pass[p].todo : ObserveDocument(p, ref)
    \/ \E d \in Docs : FetchDocument(p, d) \/ ReindexDocument(p, d)
    \/ ListStaleDocuments(p)
    \/ \E s \in pass[p].stale : CheckDocumentExists(p, s)
    \/ DeleteDocuments(p)
    \/ RecordSyncCompletion(p)
    \/ FailPass(p)

-----------------------------------------------------------------------------
(* The provider.  It stamps an edit at the instant the edit is visible. *)
EditRemote(d) ==
    /\ remote[d].exists
    /\ Tick
    /\ remote' = [remote EXCEPT ![d] = [@ EXCEPT !.version = clock',
                                                 !.editedAt = clock']]
    /\ UNCHANGED <<source, row, rowIds, pass>>

RemoveRemote(d) ==
    /\ remote[d].exists
    /\ Tick
    /\ remote' = [remote EXCEPT ![d] = [@ EXCEPT !.exists = FALSE,
                                                 !.since = clock']]
    /\ UNCHANGED <<source, row, rowIds, pass>>

(* A new document, or one restored from the trash with its old edit time. *)
AppearRemote(d) ==
    /\ ~remote[d].exists
    /\ Tick
    /\ remote' = [remote EXCEPT ![d] =
                     [remote[d] EXCEPT
                        !.exists = TRUE,
                        !.since = clock',
                        !.version = IF remote[d].version = 0
                                    THEN clock' ELSE @,
                        !.editedAt = IF remote[d].version = 0
                                     THEN clock' ELSE @]]
    /\ UNCHANGED <<source, row, rowIds, pass>>

(* deleteSource: the cascade takes the documents and their chunks. *)
DeleteSourceRow ==
    /\ source.id # 0
    /\ source' = [id |-> 0, lastSyncedAt |-> 0]
    /\ row' = [d \in Docs |-> NoRow]

DeleteSource ==
    /\ DeleteSourceRow
    /\ UNCHANGED <<clock, remote, rowIds, pass>>

Next ==
    \/ \E p \in Passes : StartPass(p) \/ ListSomePage(p) \/ PassStep(p)
    \/ \E d \in Docs : EditRemote(d) \/ RemoveRemote(d) \/ AppearRemote(d)
    \/ DeleteSource

Spec == Init /\ [][Next]_vars

-----------------------------------------------------------------------------
(* An index that no longer matches the provider shows it: the index time   *)
(* is earlier than the edit time, so the next pass repairs the document,   *)
(* however the passes overlapped (sync.service.ts decides on a re-index by *)
(* exactly this comparison, and stamps a re-index with the pass start).    *)
StaleIndexDetectable ==
    \A d \in Docs :
        row[d].body # 0 /\ row[d].body # remote[d].version
            => row[d].lastIndexedAt < remote[d].editedAt

(* No document outlives its source: a pass still in flight when the source *)
(* is deleted cannot bring a row back.                                     *)
NoOrphanRows == source.id = 0 => \A d \in Docs : row[d].id = 0

(* What is gone is not searched.  No row outlives its source.  And where a *)
(* document that is gone cannot be fetched any more (ServesGone is FALSE), *)
(* the last pass swept what was gone before it began: a document gone      *)
(* since before lastSyncedAt has no chunk left to search, although older   *)
(* passes may still be writing (sync.service.ts, the sweep before          *)
(* recordSyncCompletion).                                                  *)
SweptStaysUnsearchable ==
    /\ NoOrphanRows
    /\ \A d \in Docs :
           ~remote[d].exists /\ remote[d].since < source.lastSyncedAt
               => row[d].body = 0

(* lastSyncedAt never goes back, whichever of two passes finishes last. *)
LastSyncedAtAdvances ==
    [][source'.id = source.id => source.lastSyncedAt <= source'.lastSyncedAt]_vars

(* The sweep deletes no document that was served all through the pass,     *)
(* even when the listing left it out.                                      *)
SweepSparesLiveDocuments ==
    [][\A p \in Passes, d \in Docs :
          DeleteDocuments(p) /\ row[d].id # 0 /\ row'[d].id = 0
              => \/ ~remote[d].exists
                 \/ pass[p].startedAt < remote[d].since]_vars
=============================================================================
