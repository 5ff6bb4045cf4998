--------------------------- MODULE DatabasePools ---------------------------
(***************************************************************************)
(* One registered business database: database-connections/                 *)
(* database-connections.service.ts and database-connection.pool.ts.  Its   *)
(* row holds the credentials people correct; the process holds a pool of   *)
(* sessions built from the credentials that some query read.               *)
(*                                                                         *)
(* The unique index on the name lets one row exist at a time; a row        *)
(* created after a delete has a new id.  A step is what the code does      *)
(* between two awaits.                                                     *)
(***************************************************************************)
EXTENDS Naturals

CONSTANTS
    Queries,    \* the tool calls that can run executeSql
    Editors,    \* the requests that can create, correct, test or delete
    Creds,      \* host, port, database, user and password taken together
    None,       \* no credentials
    MaxRows     \* bound on the ids ever assigned

ASSUME NoneAssumption == None \notin Creds
ASSUME RowsAssumption == MaxRows \in Nat

VARIABLES
    row,        \* the row of `database_connections`, id 0 for none
    lastId,     \* how many ids have been assigned
    pool,       \* poolsByConnectionId: the credentials of each held pool
    accepted,   \* the credentials the business database accepts now
    opened,     \* the credentials that a check opened a connection with
    query,      \* the local state of each query
    edit,       \* the local state of each editor
    overtaken,  \* histories, which no step reads: the queries whose read no
                \* longer showed the row when the row's pool was closed ...
    late        \* ... and the ids whose pool such a query built afterwards

vars == <<row, lastId, pool, accepted, opened, query, edit, overtaken, late>>

histories == <<overtaken, late>>

Ids == 0..MaxRows

NoRow == [id |-> 0, creds |-> None, active |-> FALSE]

Row == [id: Ids \ {0}, creds: Creds, active: BOOLEAN]
          \cup [id: {0}, creds: {None}, active: BOOLEAN]

Query ==
    [phase: {"idle", "read", "connecting", "stamping"},
     id: Ids,
     creds: Creds \cup {None},   \* what it read; from connecting on, its pool's
     active: BOOLEAN,            \* the status it read
     ok: BOOLEAN]                \* the outcome it stamps

Edit ==
    [phase: {"idle", "checking", "writing", "closing", "testing", "stamping"},
     id: Ids,                    \* the row it found, 0 for none
     creds: Creds \cup {None},
     ok: BOOLEAN]

PoolsTypeOK ==
    /\ row \in Row
    /\ lastId \in Ids
    /\ pool \in [Ids -> Creds \cup {None}]
    /\ accepted \in SUBSET Creds
    /\ opened \in SUBSET Creds
    /\ query \in [Queries -> Query]
    /\ edit \in [Editors -> Edit]
    /\ overtaken \in SUBSET Queries
    /\ late \in SUBSET Ids
    /\ \A e \in Editors : edit[e].phase = "writing" => edit[e].creds \in Creds

NoQuery == [phase |-> "idle", id |-> 0, creds |-> None, active |-> FALSE,
            ok |-> FALSE]
NoEdit == [phase |-> "idle", id |-> 0, creds |-> None, ok |-> FALSE]
NoPools == [i \in Ids |-> None]

Init ==
    /\ row = NoRow
    /\ lastId = 0
    /\ pool = NoPools
    /\ accepted \in SUBSET Creds
    /\ opened = {}
    /\ query = [q \in Queries |-> NoQuery]
    /\ edit = [e \in Editors |-> NoEdit]
    /\ overtaken = {}
    /\ late = {}

-----------------------------------------------------------------------------
EndQuery(q) == query' = [query EXCEPT ![q] = NoQuery]
EndEdit(e) == edit' = [edit EXCEPT ![e] = NoEdit]

(* checkConnection: one connection opens with these credentials, or not.   *)
Check(creds, ok) ==
    /\ ok <=> creds \in accepted
    /\ opened' = IF ok THEN opened \cup {creds} ELSE opened

(* recordConnectionCheck: the update of a row that is gone throws.         *)
RecordCheck(id, ok) ==
    row' = IF row.id = id THEN [row EXCEPT !.active = ok] ELSE row

-----------------------------------------------------------------------------
(* createDatabaseConnection: read the name, check, insert or correct.      *)
Create(e, creds) ==
    /\ edit[e].phase = "idle"
    /\ edit' = [edit EXCEPT ![e] = [NoEdit EXCEPT !.phase = "checking",
                                                  !.id = row.id,
                                                  !.creds = creds]]
    /\ UNCHANGED <<row, lastId, pool, accepted, opened, query, histories>>

(* Mutant: the write does not wait for a check that succeeds.              *)
CheckIgnored(e, ok) ==
    /\ edit[e].phase = "checking"
    /\ Check(edit[e].creds, ok)
    /\ edit' = [edit EXCEPT ![e] = [edit[e] EXCEPT !.phase = "writing"]]
    /\ UNCHANGED <<row, lastId, pool, accepted, query, histories>>

(* A check that fails leaves the table untouched.                          *)
CheckNew(e, ok) ==
    /\ edit[e].phase = "checking"
    /\ Check(edit[e].creds, ok)
    /\ IF ok THEN edit' = [edit EXCEPT ![e] = [edit[e] EXCEPT !.phase = "writing"]]
             ELSE EndEdit(e)
    /\ UNCHANGED <<row, lastId, pool, accepted, query, histories>>

Insert(e) ==
    /\ edit[e].phase = "writing"
    /\ edit[e].id = 0
    /\ row.id = 0
    /\ lastId < MaxRows
    /\ lastId' = lastId + 1
    /\ row' = [id |-> lastId + 1, creds |-> edit[e].creds, active |-> TRUE]
    /\ EndEdit(e)
    /\ UNCHANGED <<pool, accepted, opened, query, histories>>

(* After its write e closes the pool of the row.                           *)
GoClose(e, id) ==
    edit' = [edit EXCEPT ![e] = [NoEdit EXCEPT !.phase = "closing",
                                               !.id = id]]

(* Mutant: a correction that leaves the held pool alone.                   *)
CorrectWithoutClose(e) ==
    /\ edit[e].phase = "writing"
    /\ edit[e].id # 0
    /\ row.id = edit[e].id
    /\ row' = [row EXCEPT !.creds = edit[e].creds, !.active = TRUE]
    /\ EndEdit(e)
    /\ UNCHANGED <<lastId, pool, accepted, opened, query, histories>>

Correct(e) ==
    /\ edit[e].phase = "writing"
    /\ edit[e].id # 0
    /\ row.id = edit[e].id
    /\ row' = [row EXCEPT !.creds = edit[e].creds, !.active = TRUE]
    /\ GoClose(e, edit[e].id)
    /\ UNCHANGED <<lastId, pool, accepted, opened, query, histories>>

(* Another request took the name (P2002) or deleted the row (P2025).       *)
LoseRow(e) ==
    /\ edit[e].phase = "writing"
    /\ row.id # edit[e].id
    /\ EndEdit(e)
    /\ UNCHANGED <<row, lastId, pool, accepted, opened, query, histories>>

(* deleteDatabaseConnection, and the last leave that deletes a workspace.  *)
Delete(e) ==
    /\ edit[e].phase = "idle"
    /\ row.id # 0
    /\ row' = NoRow
    /\ GoClose(e, row.id)
    /\ UNCHANGED <<lastId, pool, accepted, opened, query, histories>>

(* What q read of the row of id is not what the row holds now.             *)
Outdated(q, id) ==
    /\ query[q].phase = "read" /\ query[q].id = id
    /\ ~(row.id = id /\ row.creds = query[q].creds)

(* closePool: the pool leaves the map at once and ends later.  The write   *)
(* and the closing are two statements, and neither waits for a query that  *)
(* has read the row and not taken its pool yet.                            *)
ClosePool(e) ==
    /\ edit[e].phase = "closing"
    /\ pool' = [pool EXCEPT ![edit[e].id] = None]
    /\ overtaken' = overtaken \cup {q \in Queries : Outdated(q, edit[e].id)}
    /\ late' = late \ {edit[e].id}
    /\ EndEdit(e)
    /\ UNCHANGED <<row, lastId, accepted, opened, query>>

(* testDatabaseConnection: read the row, check, stamp the outcome.         *)
Test(e) ==
    /\ edit[e].phase = "idle"
    /\ row.id # 0
    /\ edit' = [edit EXCEPT ![e] = [NoEdit EXCEPT !.phase = "testing",
                                                  !.id = row.id,
                                                  !.creds = row.creds]]
    /\ UNCHANGED <<row, lastId, pool, accepted, opened, query, histories>>

CheckStored(e, ok) ==
    /\ edit[e].phase = "testing"
    /\ Check(edit[e].creds, ok)
    /\ edit' = [edit EXCEPT ![e] = [edit[e] EXCEPT !.phase = "stamping",
                                                   !.ok = ok]]
    /\ UNCHANGED <<row, lastId, pool, accepted, query, histories>>

StampTest(e) ==
    /\ edit[e].phase = "stamping"
    /\ RecordCheck(edit[e].id, edit[e].ok)
    /\ EndEdit(e)
    /\ UNCHANGED <<lastId, pool, accepted, opened, query, histories>>

-----------------------------------------------------------------------------
(* executeSql: readConnectionSettings reads the row ...                    *)
ReadSettings(q) ==
    /\ query[q].phase = "idle"
    /\ row.id # 0
    /\ query' = [query EXCEPT ![q] = [phase |-> "read", id |-> row.id,
                                      creds |-> row.creds,
                                      active |-> row.active, ok |-> FALSE]]
    /\ UNCHANGED <<row, lastId, pool, accepted, opened, edit, histories>>

(* The credentials of the pool that readPool returns to q.                 *)
PoolFor(q) ==
    IF pool[query[q].id] = None THEN query[q].creds ELSE pool[query[q].id]

(* ... readPool takes the held pool, or builds one from what was read ...  *)
ReadPool(q) ==
    /\ query[q].phase = "read"
    /\ pool' = [pool EXCEPT ![query[q].id] = PoolFor(q)]
    /\ query' = [query EXCEPT ![q] = [query[q] EXCEPT !.phase = "connecting",
                                                      !.creds = PoolFor(q)]]
    /\ late' = IF q \in overtaken /\ pool[query[q].id] = None
               THEN late \cup {query[q].id} ELSE late
    /\ overtaken' = overtaken \ {q}
    /\ UNCHANGED <<row, lastId, accepted, opened, edit>>

(* ... and the statement answers.  A session that the pool kept open still *)
(* works when a new login would be refused.  Only a success that follows a *)
(* stored error is stamped.                                                *)
Answer(q) ==
    /\ query[q].phase = "connecting"
    /\ query' = [query EXCEPT ![q] =
                    IF query[q].active THEN NoQuery
                    ELSE [query[q] EXCEPT !.phase = "stamping", !.ok = TRUE]]
    /\ UNCHANGED <<row, lastId, pool, accepted, opened, edit, histories>>

(* The statement fails after the connection opened: nothing is stamped.    *)
FailStatement(q) ==
    /\ query[q].phase = "connecting"
    /\ EndQuery(q)
    /\ UNCHANGED <<row, lastId, pool, accepted, opened, edit, histories>>

(* The connection does not open.                                           *)
FailConnection(q) ==
    /\ query[q].phase = "connecting"
    /\ query[q].creds \notin accepted
    /\ query' = [query EXCEPT ![q] = [query[q] EXCEPT !.phase = "stamping",
                                                      !.ok = FALSE]]
    /\ UNCHANGED <<row, lastId, pool, accepted, opened, edit, histories>>

StampQuery(q) ==
    /\ query[q].phase = "stamping"
    /\ RecordCheck(query[q].id, query[q].ok)
    /\ EndQuery(q)
    /\ UNCHANGED <<lastId, pool, accepted, opened, edit, histories>>

-----------------------------------------------------------------------------
(* The owner of the business database changes what it accepts.             *)
ChangeAccepted ==
    /\ accepted' \in SUBSET Creds
    /\ UNCHANGED <<row, lastId, pool, opened, query, edit, histories>>

(* The process stops, with or without onModuleDestroy, and another starts. *)
Restart ==
    /\ pool' = NoPools
    /\ query' = [q \in Queries |-> NoQuery]
    /\ edit' = [e \in Editors |-> NoEdit]
    /\ overtaken' = {}
    /\ late' = {}
    /\ UNCHANGED <<row, lastId, accepted, opened>>

EditorStep(e) ==
    \/ \E ok \in BOOLEAN : CheckNew(e, ok) \/ CheckStored(e, ok)
    \/ Insert(e) \/ Correct(e) \/ LoseRow(e) \/ ClosePool(e) \/ StampTest(e)

QueryStep(q) ==
    \/ ReadSettings(q) \/ ReadPool(q) \/ Answer(q)
    \/ FailStatement(q) \/ FailConnection(q) \/ StampQuery(q)

Next ==
    \/ \E e \in Editors : \/ \E creds \in Creds : Create(e, creds)
                          \/ Delete(e) \/ Test(e) \/ EditorStep(e)
    \/ \E q \in Queries : QueryStep(q)
    \/ ChangeAccepted
    \/ Restart

Spec == Init /\ [][Next]_vars

(* Every await returns.  Two assumptions are not the code's: questions     *)
(* keep coming and are not all wrong, so that of the queries whose pool    *)
(* logs in with credentials the database accepts one succeeds in the end;  *)
(* and restarts do not always interrupt the same step (hence strong        *)
(* fairness).  A query through a pool that is refused is owed nothing.     *)
Fairness ==
    /\ \A e \in Editors : WF_vars(EditorStep(e))
    /\ \A q \in Queries : /\ WF_vars(QueryStep(q))
                           /\ SF_vars(ReadPool(q))
                           /\ SF_vars(Answer(q) /\ query[q].creds \in accepted)
                           /\ SF_vars(StampQuery(q))

FairSpec == Spec /\ Fairness

-----------------------------------------------------------------------------
(* "The API stores no row that never connected" (service, line 72): the    *)
(* stored credentials once opened a connection, whoever else wrote, tested *)
(* or deleted while they were being checked.                               *)
StoredCredsConnected == row.id # 0 => row.creds \in opened

(* e is on its way to close the pool of id.                                *)
Closing(e, id) == edit[e].phase = "closing" /\ edit[e].id = id

(* "Close and drop the pool of one connection ... after the row changes or *)
(* after the row is deleted" (pool, line 151): a held pool logs in with    *)
(* the stored credentials, or a request that will close it is in flight.   *)
(* One pool escapes, and this says that no other does: the one built by a  *)
(* query that read the row before a write and takes its pool after the     *)
(* closing, whatever queries, corrections, deletions and re-creations of   *)
(* the row interleave with it.                                             *)
PoolFollowsRow ==
    \A i \in Ids :
        \/ pool[i] = None
        \/ row.id = i /\ pool[i] = row.creds
        \/ \E e \in Editors : Closing(e, i)
        \/ i \in late

(* While the database accepts what is stored and people keep asking, the   *)
(* row does not stay in error: unless a late query built the pool, no      *)
(* stale pool, lost stamp or skipped stamp keeps a working connection      *)
(* marked broken.                                                          *)
ErrorClears ==
    <>[](row.id # 0 /\ row.creds \in accepted /\ row.id \notin late)
        => []<>(row.active)
=============================================================================
