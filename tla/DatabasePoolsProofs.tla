------------------------ MODULE DatabasePoolsProofs ------------------------
(***************************************************************************)
(* What holds of the pools and the row of a business database for any      *)
(* number of queries, editors, credentials and re-created rows.            *)
(***************************************************************************)
EXTENDS DatabasePools, TLAPS

USE NoneAssumption, RowsAssumption DEF histories

-----------------------------------------------------------------------------
(* The inductive invariants.  Ids are fresh: no row, pool or query is of   *)
(* an id that has not been assigned.                                       *)
IdsAreFresh ==
    /\ row.id <= lastId
    /\ \A i \in Ids : pool[i] # None => i \in 1..lastId
    /\ \A q \in Queries : query[q].phase # "idle" => query[q].id \in 1..lastId

(* A read that the process has not handled shows the row as it stands, or  *)
(* a request will close its pool, or one did and the read was overtaken.   *)
ReadsAreCovered ==
    \A q \in Queries : query[q].phase = "read" =>
        \/ row.id = query[q].id /\ row.creds = query[q].creds
        \/ \E e \in Editors : Closing(e, query[q].id)
        \/ q \in overtaken

PoolInv == IdsAreFresh /\ ReadsAreCovered /\ PoolFollowsRow

(* What a request is about to write has opened a connection.               *)
WritesAreChecked ==
    \A e \in Editors : edit[e].phase = "writing" => edit[e].creds \in opened

CredsInv == StoredCredsConnected /\ WritesAreChecked

-----------------------------------------------------------------------------
LEMMA NoEditIsEdit == NoEdit \in Edit /\ NoEdit.phase = "idle"
BY DEF NoEdit, Edit, Ids

LEMMA NoQueryIsQuery == NoQuery \in Query
BY DEF NoQuery, Query, Ids

LEMMA RowTyped ==
    ASSUME row \in Row
    PROVE  /\ row.id \in Ids /\ row.active \in BOOLEAN
           /\ row.creds \in Creds \cup {None}
           /\ row.id # 0 => row.creds \in Creds
BY DEF Row, Ids

(* The part of PoolsTypeOK that is about the editors, and what one of them *)
(* may become.                                                             *)
EditsTyped ==
    /\ edit \in [Editors -> Edit]
    /\ \A e \in Editors : edit[e].phase = "writing" => edit[e].creds \in Creds

LEMMA EditTyped ==
    ASSUME EditsTyped, NEW e \in Editors, NEW x \in Edit,
           x.phase = "writing" => x.creds \in Creds,
           edit' = [edit EXCEPT ![e] = x]
    PROVE  EditsTyped'
BY DEF EditsTyped

LEMMA EndEditTyped ==
    ASSUME EditsTyped, NEW e \in Editors, EndEdit(e) PROVE EditsTyped'
BY EditTyped, NoEditIsEdit DEF EndEdit

LEMMA GoCloseTyped ==
    ASSUME EditsTyped, NEW e \in Editors, NEW id \in Ids, GoClose(e, id)
    PROVE  EditsTyped'
<1> DEFINE x == [NoEdit EXCEPT !.phase = "closing", !.id = id]
<1>1. x \in Edit /\ x.phase = "closing"
  BY DEF NoEdit, Edit
<1>2. edit' = [edit EXCEPT ![e] = x]
  BY DEF GoClose
<1> HIDE DEF x
<1>. QED BY <1>1, <1>2, EditTyped

LEMMA RecordCheckTyped ==
    ASSUME row \in Row, NEW id, NEW ok \in BOOLEAN, RecordCheck(id, ok)
    PROVE  row' \in Row /\ row'.id = row.id /\ row'.creds = row.creds
BY DEF RecordCheck, Row

LEMMA CheckTyped ==
    ASSUME accepted \in SUBSET Creds, opened \in SUBSET Creds, NEW creds,
           NEW ok \in BOOLEAN, Check(creds, ok)
    PROVE  opened \subseteq opened' /\ opened' \in SUBSET Creds
                                   /\ (ok => creds \in opened')
BY DEF Check

(* Every step keeps the variables in their types.                          *)
LEMMA TypeStep == PoolsTypeOK /\ [Next]_vars => PoolsTypeOK'
<1> SUFFICES ASSUME PoolsTypeOK, [Next]_vars PROVE PoolsTypeOK'
  OBVIOUS
<1> USE DEF PoolsTypeOK
<1>t. EditsTyped
  BY DEF EditsTyped
<1>r. /\ row.id \in Ids /\ row.creds \in Creds \cup {None}
      /\ row.active \in BOOLEAN
  BY RowTyped
<1>1. ASSUME NEW e \in Editors, NEW creds \in Creds, Create(e, creds)
      PROVE  PoolsTypeOK'
  <2> DEFINE x == [NoEdit EXCEPT !.phase = "checking", !.id = row.id,
                                 !.creds = creds]
  <2>1. x \in Edit /\ x.phase = "checking"
    BY <1>r DEF NoEdit, Edit
  <2>2. edit' = [edit EXCEPT ![e] = x]
    BY <1>1 DEF Create
  <2> HIDE DEF x
  <2>3. EditsTyped'
    BY <1>t, <2>1, <2>2, EditTyped
  <2>. QED BY <1>1, <2>3 DEF Create, EditsTyped
<1>2. ASSUME NEW e \in Editors, Delete(e) PROVE PoolsTypeOK'
  <2>1. row' \in Row
    BY <1>2 DEF Delete, NoRow, Row
  <2>2. EditsTyped'
    BY <1>2, <1>t, <1>r, GoCloseTyped DEF Delete
  <2>. QED BY <1>2, <2>1, <2>2 DEF Delete, EditsTyped
<1>3. ASSUME NEW e \in Editors, Test(e) PROVE PoolsTypeOK'
  <2> DEFINE x == [NoEdit EXCEPT !.phase = "testing", !.id = row.id,
                                 !.creds = row.creds]
  <2>1. x \in Edit /\ x.phase = "testing"
    BY <1>r DEF NoEdit, Edit
  <2>2. edit' = [edit EXCEPT ![e] = x]
    BY <1>3 DEF Test
  <2> HIDE DEF x
  <2>3. EditsTyped'
    BY <1>t, <2>1, <2>2, EditTyped
  <2>. QED BY <1>3, <2>3 DEF Test, EditsTyped
<1>4. ASSUME NEW e \in Editors, NEW ok \in BOOLEAN, CheckNew(e, ok)
      PROVE  PoolsTypeOK'
  <2>1. opened' \in SUBSET Creds
    BY <1>4, CheckTyped DEF CheckNew
  <2>2. CASE ok
    <3> DEFINE x == [edit[e] EXCEPT !.phase = "writing"]
    <3>1. x \in Edit /\ x.creds = edit[e].creds
      BY DEF Edit
    <3>2. edit[e].creds \in Creds
      BY <1>4, <2>2 DEF CheckNew, Check
    <3>3. edit' = [edit EXCEPT ![e] = x]
      BY <1>4, <2>2 DEF CheckNew
    <3> HIDE DEF x
    <3>4. EditsTyped'
      BY <1>t, <3>1, <3>2, <3>3, EditTyped
    <3>. QED BY <1>4, <2>1, <3>4 DEF CheckNew, EditsTyped
  <2>3. CASE ~ok
    <3>1. EditsTyped'
      BY <1>4, <1>t, <2>3, EndEditTyped DEF CheckNew
    <3>. QED BY <1>4, <2>1, <3>1 DEF CheckNew, EditsTyped
  <2>. QED BY <2>2, <2>3
<1>5. ASSUME NEW e \in Editors, NEW ok \in BOOLEAN, CheckStored(e, ok)
      PROVE  PoolsTypeOK'
  <2> DEFINE x == [edit[e] EXCEPT !.phase = "stamping", !.ok = ok]
  <2>1. opened' \in SUBSET Creds
    BY <1>5, CheckTyped DEF CheckStored
  <2>2. x \in Edit /\ x.phase = "stamping"
    BY DEF Edit
  <2>3. edit' = [edit EXCEPT ![e] = x]
    BY <1>5 DEF CheckStored
  <2> HIDE DEF x
  <2>4. EditsTyped'
    BY <1>t, <2>2, <2>3, EditTyped
  <2>. QED BY <1>5, <2>1, <2>4 DEF CheckStored, EditsTyped
<1>6. ASSUME NEW e \in Editors, Insert(e) PROVE PoolsTypeOK'
  <2>1. lastId' \in Ids /\ lastId' # 0
    BY <1>6 DEF Insert, Ids
  <2>2. row' \in Row
    BY <1>6, <2>1 DEF Insert, Row
  <2>3. EditsTyped'
    BY <1>6, <1>t, EndEditTyped DEF Insert
  <2>. QED BY <1>6, <2>1, <2>2, <2>3 DEF Insert, EditsTyped
<1>7. ASSUME NEW e \in Editors, Correct(e) PROVE PoolsTypeOK'
  <2>1. edit[e].creds \in Creds /\ edit[e].id \in Ids
    BY <1>7 DEF Correct, Edit
  <2>2. row' \in Row
    BY <1>7, <2>1 DEF Correct, Row
  <2>3. EditsTyped'
    BY <1>7, <1>t, <2>1, GoCloseTyped DEF Correct
  <2>. QED BY <1>7, <2>2, <2>3 DEF Correct, EditsTyped
<1>8. ASSUME NEW e \in Editors, LoseRow(e) PROVE PoolsTypeOK'
  BY <1>8, <1>t, EndEditTyped DEF LoseRow, EditsTyped
<1>9. ASSUME NEW e \in Editors, ClosePool(e) PROVE PoolsTypeOK'
  <2>1. EditsTyped'
    BY <1>9, <1>t, EndEditTyped DEF ClosePool
  <2>. QED BY <1>9, <2>1 DEF ClosePool, EditsTyped
<1>10. ASSUME NEW e \in Editors, StampTest(e) PROVE PoolsTypeOK'
  <2>1. edit[e].ok \in BOOLEAN
    BY DEF Edit
  <2>2. row' \in Row
    BY <1>10, <2>1, RecordCheckTyped DEF StampTest
  <2>3. EditsTyped'
    BY <1>10, <1>t, EndEditTyped DEF StampTest
  <2>. QED BY <1>10, <2>2, <2>3 DEF StampTest, EditsTyped
<1>11. ASSUME NEW q \in Queries, ReadSettings(q) PROVE PoolsTypeOK'
  BY <1>11, <1>r DEF ReadSettings, Query
<1>12. ASSUME NEW q \in Queries, ReadPool(q) PROVE PoolsTypeOK'
  <2>1. PoolFor(q) \in Creds \cup {None}
    BY DEF PoolFor, Query
  <2>2. query' \in [Queries -> Query]
    BY <1>12, <2>1 DEF ReadPool, Query
  <2>3. pool' \in [Ids -> Creds \cup {None}]
    BY <1>12, <2>1 DEF ReadPool
  <2>4. overtaken' \in SUBSET Queries /\ late' \in SUBSET Ids
    BY <1>12 DEF ReadPool, Query
  <2>. QED BY <1>12, <2>2, <2>3, <2>4 DEF ReadPool
<1>13. ASSUME NEW q \in Queries, Answer(q) PROVE PoolsTypeOK'
  BY <1>13, NoQueryIsQuery DEF Answer, Query
<1>14. ASSUME NEW q \in Queries, FailStatement(q) PROVE PoolsTypeOK'
  BY <1>14, NoQueryIsQuery DEF FailStatement, EndQuery
<1>15. ASSUME NEW q \in Queries, FailConnection(q) PROVE PoolsTypeOK'
  BY <1>15 DEF FailConnection, Query
<1>16. ASSUME NEW q \in Queries, StampQuery(q) PROVE PoolsTypeOK'
  <2>1. query[q].ok \in BOOLEAN
    BY DEF Query
  <2>2. row' \in Row
    BY <1>16, <2>1, RecordCheckTyped DEF StampQuery
  <2>. QED BY <1>16, <2>2, NoQueryIsQuery DEF StampQuery, EndQuery
<1>17. CASE ChangeAccepted
  BY <1>17 DEF ChangeAccepted
<1>18. CASE Restart
  BY <1>18, NoEditIsEdit, NoQueryIsQuery DEF Restart, NoPools
<1>19. CASE UNCHANGED vars
  BY <1>19 DEF vars
<1>. QED
  BY <1>1, <1>2, <1>3, <1>4, <1>5, <1>6, <1>7, <1>8, <1>9, <1>10, <1>11, <1>12,
     <1>13, <1>14, <1>15, <1>16, <1>17, <1>18, <1>19
  DEF Next, EditorStep, QueryStep

(* The row, the pools and the requests keep their types.                   *)
THEOREM PoolsTypeCorrect == Spec => []PoolsTypeOK
<1>1. Init => PoolsTypeOK
  BY NoEditIsEdit, NoQueryIsQuery
  DEF Init, PoolsTypeOK, NoRow, NoPools, Row, Ids
<1>. QED BY <1>1, TypeStep, PTL DEF Spec

-----------------------------------------------------------------------------
(* No step puts credentials in the row, or sets out to, that no check has  *)
(* opened a connection with.                                               *)
LEMMA CredsStep == PoolsTypeOK /\ CredsInv /\ [Next]_vars => CredsInv'
<1> SUFFICES ASSUME PoolsTypeOK, CredsInv, [Next]_vars PROVE CredsInv'
  OBVIOUS
<1> USE DEF CredsInv, StoredCredsConnected, WritesAreChecked
<1>t. /\ edit \in [Editors -> Edit]
      /\ accepted \in SUBSET Creds /\ opened \in SUBSET Creds
      /\ row \in Row /\ query \in [Queries -> Query]
  BY DEF PoolsTypeOK
<1>1. ASSUME NEW e \in Editors, NEW creds \in Creds, Create(e, creds)
      PROVE  CredsInv'
  BY <1>1, <1>t DEF Create, NoEdit
<1>2. ASSUME NEW e \in Editors, Delete(e) PROVE CredsInv'
  BY <1>2, <1>t DEF Delete, GoClose, NoEdit, NoRow
<1>3. ASSUME NEW e \in Editors, Test(e) PROVE CredsInv'
  BY <1>3, <1>t DEF Test, NoEdit
<1>4. ASSUME NEW e \in Editors, NEW ok \in BOOLEAN, CheckNew(e, ok)
      PROVE  CredsInv'
  <2>1. opened \subseteq opened' /\ (ok => edit[e].creds \in opened')
    BY <1>4, <1>t, CheckTyped DEF CheckNew
  <2>2. \A f \in Editors \ {e} : edit'[f] = edit[f]
    BY <1>4, <1>t DEF CheckNew, EndEdit
  <2>3. edit'[e].phase = "writing" => ok /\ edit'[e].creds = edit[e].creds
    BY <1>4, <1>t DEF CheckNew, EndEdit, NoEdit, Edit
  <2>4. row' = row
    BY <1>4 DEF CheckNew
  <2>. QED BY <2>1, <2>2, <2>3, <2>4
<1>5. ASSUME NEW e \in Editors, NEW ok \in BOOLEAN, CheckStored(e, ok)
      PROVE  CredsInv'
  <2>1. opened \subseteq opened'
    BY <1>5, <1>t, CheckTyped DEF CheckStored
  <2>2. \A f \in Editors : edit'[f].phase = "writing" => edit'[f] = edit[f]
    BY <1>5, <1>t DEF CheckStored, Edit
  <2>3. row' = row
    BY <1>5 DEF CheckStored
  <2>. QED BY <2>1, <2>2, <2>3
<1>6. ASSUME NEW e \in Editors, Insert(e) PROVE CredsInv'
  BY <1>6, <1>t DEF Insert, EndEdit, NoEdit
<1>7. ASSUME NEW e \in Editors, Correct(e) PROVE CredsInv'
  BY <1>7, <1>t DEF Correct, GoClose, NoEdit, Row
<1>8. ASSUME NEW e \in Editors, LoseRow(e) PROVE CredsInv'
  BY <1>8, <1>t DEF LoseRow, EndEdit, NoEdit
<1>9. ASSUME NEW e \in Editors, ClosePool(e) PROVE CredsInv'
  BY <1>9, <1>t DEF ClosePool, EndEdit, NoEdit
<1>10. ASSUME NEW e \in Editors, StampTest(e) PROVE CredsInv'
  <2>1. row'.id = row.id /\ row'.creds = row.creds
    BY <1>10, <1>t, RecordCheckTyped DEF StampTest, Edit
  <2>. QED BY <1>10, <1>t, <2>1 DEF StampTest, EndEdit, NoEdit
<1>11. ASSUME NEW q \in Queries, ReadPool(q) PROVE CredsInv'
  BY <1>11, <1>t DEF ReadPool, Edit
<1>12. ASSUME NEW q \in Queries, StampQuery(q) PROVE CredsInv'
  <2>1. row'.id = row.id /\ row'.creds = row.creds
    BY <1>12, <1>t, RecordCheckTyped DEF StampQuery, Query
  <2>. QED BY <1>12, <2>1 DEF StampQuery
<1>13. ASSUME NEW q \in Queries,
              ReadSettings(q) \/ Answer(q) \/ FailStatement(q) \/ FailConnection(q)
       PROVE  CredsInv'
  BY <1>13 DEF ReadSettings, Answer, FailStatement, FailConnection
<1>14. CASE ChangeAccepted
  BY <1>14 DEF ChangeAccepted
<1>15. CASE Restart
  BY <1>15 DEF Restart, NoEdit
<1>16. CASE UNCHANGED vars
  BY <1>16 DEF vars
<1>. QED
  BY <1>1, <1>2, <1>3, <1>4, <1>5, <1>6, <1>7, <1>8, <1>9, <1>10, <1>11, <1>12,
     <1>13, <1>14, <1>15, <1>16
  DEF Next, EditorStep, QueryStep

(* The stored credentials have always opened a connection.                 *)
THEOREM StoredCredsAlwaysConnected == Spec => []StoredCredsConnected
<1>1. Init => CredsInv
  BY DEF Init, CredsInv, StoredCredsConnected, WritesAreChecked, NoRow, NoEdit
<1>2. CredsInv => StoredCredsConnected
  BY DEF CredsInv
<1>. QED BY <1>1, <1>2, PoolsTypeCorrect, CredsStep, PTL DEF Spec

-----------------------------------------------------------------------------
(* What leaves the ids, the credentials of the row, the pools, the reads   *)
(* and the closings alone keeps the invariant of the pools.                *)
LEMMA QuietStep ==
    ASSUME PoolInv,
           row'.id = row.id, row'.creds = row.creds,
           lastId' = lastId, pool' = pool, overtaken' = overtaken, late' = late,
           \A q \in Queries : query'[q].phase # "idle" =>
               query[q].phase # "idle" /\ query'[q].id = query[q].id,
           \A q \in Queries : query'[q].phase = "read" => query'[q] = query[q],
           \A e \in Editors : edit[e].phase = "closing" => edit'[e] = edit[e]
    PROVE  PoolInv'
<1>1. IdsAreFresh'
  BY DEF PoolInv, IdsAreFresh
<1>2. ReadsAreCovered'
  BY DEF PoolInv, ReadsAreCovered, Closing
<1>3. PoolFollowsRow'
  BY DEF PoolInv, PoolFollowsRow, Closing
<1>. QED BY <1>1, <1>2, <1>3 DEF PoolInv

LEMMA InsertKeepsPools ==
    ASSUME PoolsTypeOK, PoolInv, NEW e \in Editors, Insert(e) PROVE PoolInv'
<1>1. \A f \in Editors : edit[f].phase = "closing" => edit'[f] = edit[f]
  BY DEF Insert, EndEdit, PoolsTypeOK
<1>2. row.id = 0 /\ row'.id = lastId' /\ lastId' = lastId + 1 /\ lastId \in Nat
  BY DEF Insert, PoolsTypeOK, Ids
<1>3. /\ pool' = pool /\ query' = query
      /\ overtaken' = overtaken /\ late' = late
  BY DEF Insert
<1>4. \A i \in 1..lastId : i # row.id /\ i \in 1..lastId'
  BY <1>2
<1>5. IdsAreFresh'
  BY <1>2, <1>3, <1>4 DEF PoolInv, IdsAreFresh
<1>6. ReadsAreCovered'
  BY <1>1, <1>3, <1>4 DEF PoolInv, IdsAreFresh, ReadsAreCovered, Closing
<1>7. PoolFollowsRow'
  BY <1>1, <1>3, <1>4 DEF PoolInv, IdsAreFresh, PoolFollowsRow, Closing
<1>. QED BY <1>5, <1>6, <1>7 DEF PoolInv

(* A correction and a delete change the row and go on to close its pool.   *)
LEMMA WriteKeepsPools ==
    ASSUME PoolsTypeOK, PoolInv, NEW e \in Editors, edit[e].phase # "closing",
           GoClose(e, row.id), row'.id \in {0, row.id},
           lastId' = lastId, pool' = pool, query' = query,
           overtaken' = overtaken, late' = late
    PROVE  PoolInv'
<1>1. \A f \in Editors : edit[f].phase = "closing" => edit'[f] = edit[f]
  BY DEF GoClose, PoolsTypeOK
<1>2. edit'[e].phase = "closing" /\ edit'[e].id = row.id
  <2>1. edit'[e] = [NoEdit EXCEPT !.phase = "closing", !.id = row.id]
    BY DEF GoClose, PoolsTypeOK
  <2>. QED BY <2>1 DEF NoEdit
<1>3. IdsAreFresh'
  BY DEF PoolInv, IdsAreFresh, PoolsTypeOK, Ids
<1>4. ReadsAreCovered'
  BY <1>1, <1>2 DEF PoolInv, ReadsAreCovered, Closing
<1>5. PoolFollowsRow'
  BY <1>1, <1>2 DEF PoolInv, PoolFollowsRow, Closing
<1>. QED BY <1>3, <1>4, <1>5 DEF PoolInv

(* When a pool is closed, the reads from before the write that are left to *)
(* build it again are overtaken.                                           *)
LEMMA ClosePoolKeepsPools ==
    ASSUME PoolsTypeOK, PoolInv, NEW e \in Editors, ClosePool(e) PROVE PoolInv'
<1>1. /\ overtaken \subseteq overtaken'
      /\ \A q \in Queries : Outdated(q, edit[e].id) => q \in overtaken'
      /\ late' = late \ {edit[e].id}
  BY DEF ClosePool
<1>2. \A f \in Editors : f # e => edit'[f] = edit[f]
  BY DEF ClosePool, EndEdit, PoolsTypeOK
<1>3. row' = row /\ lastId' = lastId /\ query' = query
  BY DEF ClosePool
<1>4. \A i \in Ids : pool'[i] = IF i = edit[e].id THEN None ELSE pool[i]
  BY DEF ClosePool, PoolsTypeOK
<1>5. IdsAreFresh'
  BY <1>3, <1>4 DEF PoolInv, IdsAreFresh
<1>6. ReadsAreCovered'
  BY <1>1, <1>2, <1>3 DEF PoolInv, ReadsAreCovered, Closing, Outdated
<1>7. PoolFollowsRow'
  BY <1>1, <1>2, <1>3, <1>4 DEF PoolInv, PoolFollowsRow, Closing
<1>. QED BY <1>5, <1>6, <1>7 DEF PoolInv

LEMMA ReadSettingsKeepsPools ==
    ASSUME PoolsTypeOK, PoolInv, NEW q \in Queries, ReadSettings(q) PROVE PoolInv'
<1>1. /\ query'[q].id = row.id /\ query'[q].creds = row.creds
      /\ \A p \in Queries : p # q => query'[p] = query[p]
  BY DEF ReadSettings, PoolsTypeOK
<1>2. row.id \in 1..lastId
  BY RowTyped DEF ReadSettings, PoolsTypeOK, Ids, PoolInv, IdsAreFresh
<1>3. UNCHANGED <<row, lastId, pool, edit, overtaken, late>>
  BY DEF ReadSettings
<1>4. IdsAreFresh'
  BY <1>1, <1>2, <1>3 DEF PoolInv, IdsAreFresh
<1>5. ReadsAreCovered'
  BY <1>1, <1>3 DEF PoolInv, ReadsAreCovered, Closing
<1>6. PoolFollowsRow'
  BY <1>3 DEF PoolInv, PoolFollowsRow, Closing
<1>. QED BY <1>4, <1>5, <1>6 DEF PoolInv

(* The pool that a query builds is the row's, or is about to be closed.    *)
LEMMA ReadPoolKeepsPools ==
    ASSUME PoolsTypeOK, PoolInv, NEW q \in Queries, ReadPool(q) PROVE PoolInv'
<1>1. /\ query[q].phase = "read" /\ query'[q].phase = "connecting"
      /\ query'[q].id = query[q].id /\ query[q].id \in Ids
      /\ \A p \in Queries : p # q => query'[p] = query[p]
  BY DEF ReadPool, PoolsTypeOK, Query
<1>2. /\ edit' = edit /\ overtaken' = overtaken \ {q} /\ late \subseteq late'
      /\ q \in overtaken /\ pool[query[q].id] = None
            => query[q].id \in late'
  BY DEF ReadPool
<1>3. row' = row /\ lastId' = lastId
  BY DEF ReadPool
<1>4. /\ \A i \in Ids : i # query[q].id => pool'[i] = pool[i]
      /\ pool'[query[q].id] = PoolFor(q)
  BY <1>1 DEF ReadPool, PoolsTypeOK
<1>5. IdsAreFresh'
  BY <1>1, <1>3, <1>4 DEF PoolInv, IdsAreFresh
<1>6. ReadsAreCovered'
  BY <1>1, <1>2, <1>3 DEF PoolInv, ReadsAreCovered, Closing
<1>7. PoolFollowsRow'
  BY <1>1, <1>2, <1>3, <1>4
  DEF PoolInv, ReadsAreCovered, PoolFollowsRow, Closing, PoolFor
<1>. QED BY <1>5, <1>6, <1>7 DEF PoolInv

LEMMA PoolStep == PoolsTypeOK /\ PoolInv /\ [Next]_vars => PoolInv'
<1> SUFFICES ASSUME PoolsTypeOK, PoolInv, [Next]_vars PROVE PoolInv'
  OBVIOUS
<1>t. /\ edit \in [Editors -> Edit] /\ query \in [Queries -> Query]
      /\ row \in Row
  BY DEF PoolsTypeOK
<1>1. ASSUME NEW e \in Editors, NEW creds \in Creds, Create(e, creds)
      PROVE  PoolInv'
  BY <1>1, <1>t, QuietStep DEF Create
<1>2. ASSUME NEW e \in Editors, Test(e) PROVE PoolInv'
  BY <1>2, <1>t, QuietStep DEF Test
<1>3. ASSUME NEW e \in Editors, NEW ok \in BOOLEAN, CheckNew(e, ok)
      PROVE  PoolInv'
  BY <1>3, <1>t, QuietStep DEF CheckNew, EndEdit
<1>4. ASSUME NEW e \in Editors, NEW ok \in BOOLEAN, CheckStored(e, ok)
      PROVE  PoolInv'
  BY <1>4, <1>t, QuietStep DEF CheckStored
<1>5. ASSUME NEW e \in Editors, LoseRow(e) PROVE PoolInv'
  BY <1>5, <1>t, QuietStep DEF LoseRow, EndEdit
<1>6. ASSUME NEW e \in Editors, StampTest(e) PROVE PoolInv'
  <2>1. row'.id = row.id /\ row'.creds = row.creds
    BY <1>6, <1>t, RecordCheckTyped DEF StampTest, Edit
  <2>. QED BY <1>6, <1>t, <2>1, QuietStep DEF StampTest, EndEdit
<1>7. ASSUME NEW q \in Queries, Answer(q) PROVE PoolInv'
  <2>1. \A p \in Queries : p # q => query'[p] = query[p]
    BY <1>7, <1>t DEF Answer
  <2>2. query[q].phase = "connecting"
    BY <1>7 DEF Answer
  <2>3. CASE query[q].active
    <3>1. query'[q].phase = "idle"
      BY <1>7, <1>t, <2>3 DEF Answer, NoQuery
    <3>. QED BY <1>7, <2>1, <2>2, <3>1, QuietStep DEF Answer
  <2>4. CASE ~query[q].active
    <3>1. query'[q].phase = "stamping" /\ query'[q].id = query[q].id
      BY <1>7, <1>t, <2>4 DEF Answer, Query
    <3>. QED BY <1>7, <2>1, <2>2, <3>1, QuietStep DEF Answer
  <2>. QED BY <2>3, <2>4
<1>8. ASSUME NEW q \in Queries, FailStatement(q) PROVE PoolInv'
  BY <1>8, <1>t, QuietStep DEF FailStatement, EndQuery, NoQuery
<1>9. ASSUME NEW q \in Queries, FailConnection(q) PROVE PoolInv'
  <2>1. /\ \A p \in Queries : p # q => query'[p] = query[p]
        /\ query[q].phase = "connecting"
        /\ query'[q].phase = "stamping" /\ query'[q].id = query[q].id
    BY <1>9, <1>t DEF FailConnection, Query
  <2>. QED BY <1>9, <2>1, QuietStep DEF FailConnection
<1>10. ASSUME NEW q \in Queries, StampQuery(q) PROVE PoolInv'
  <2>1. row'.id = row.id /\ row'.creds = row.creds
    BY <1>10, <1>t, RecordCheckTyped DEF StampQuery, Query
  <2>. QED BY <1>10, <1>t, <2>1, QuietStep DEF StampQuery, EndQuery, NoQuery
<1>11. ASSUME NEW e \in Editors, Correct(e) PROVE PoolInv'
  BY <1>11, <1>t, WriteKeepsPools DEF Correct, Row
<1>12. ASSUME NEW e \in Editors, Delete(e) PROVE PoolInv'
  BY <1>12, <1>t, WriteKeepsPools DEF Delete, NoRow
<1>13. CASE ChangeAccepted
  BY <1>13, QuietStep DEF ChangeAccepted
<1>14. CASE Restart
  BY <1>14, <1>t DEF Restart, NoPools, NoQuery, PoolInv, IdsAreFresh,
     ReadsAreCovered, PoolFollowsRow
<1>15. CASE UNCHANGED vars
  BY <1>15, QuietStep DEF vars
<1>. QED
  BY <1>1, <1>2, <1>3, <1>4, <1>5, <1>6, <1>7, <1>8, <1>9, <1>10, <1>11, <1>12,
     <1>13, <1>14, <1>15, InsertKeepsPools, ClosePoolKeepsPools,
     ReadSettingsKeepsPools, ReadPoolKeepsPools
  DEF Next, EditorStep, QueryStep

(* Every held pool logs in with the stored credentials or is about to be   *)
(* closed, but for the pool that a query built whose read the closing      *)
(* overtook: for any number of queries, corrections, deletions and         *)
(* re-creations of the row.                                                *)
THEOREM PoolsAlwaysFollowRow == Spec => []PoolFollowsRow
<1>1. Init => PoolInv
  BY DEF Init, NoRow, NoPools, NoQuery, PoolInv, IdsAreFresh, ReadsAreCovered,
     PoolFollowsRow
<1>2. PoolInv => PoolFollowsRow
  BY DEF PoolInv
<1>. QED BY <1>1, <1>2, PoolsTypeCorrect, PoolStep, PTL DEF Spec
=============================================================================
