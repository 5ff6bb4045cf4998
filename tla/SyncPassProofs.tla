--------------------------- MODULE SyncPassProofs ---------------------------
(***************************************************************************)
(* What holds of a sync pass, for every set of documents and passes and    *)
(* every bound: of its stamps and its index, of what its sweep leaves and  *)
(* spares, and of the walk over the uploaded files, for any number of      *)
(* files and every size of a page.  Only the last part, about UploadSync,  *)
(* takes documents to be numbers.                                          *)
(***************************************************************************)
EXTENDS MCSyncPass, UploadSync, FiniteSetTheorems, WellFoundedInduction,
        NaturalsInduction, TLAPS

-----------------------------------------------------------------------------
(* The inductive invariant behind StaleIndexDetectable.  No stamp lies in  *)
(* the future; and a body a pass has fetched and not yet written is the    *)
(* one the provider serves, or the provider has edited the document since  *)
(* the pass began.                                                         *)
StampsArePast ==
    /\ \A d \in Docs : /\ remote[d].editedAt <= clock
                       /\ row[d].lastIndexedAt <= clock
    /\ \A p \in Passes : pass[p].startedAt <= clock

HeldBodyIsDated ==
    \A p \in Passes, d \in Docs :
        pass[p].phase = "reindex" /\ pass[p].current = {d}
            => \/ pass[p].body = remote[d].version
               \/ pass[p].startedAt < remote[d].editedAt

IndexInv == /\ StampsArePast
            /\ HeldBodyIsDated
            /\ StaleIndexDetectable

-----------------------------------------------------------------------------
LEMMA IdleIsPass == Idle \in Pass
BY DEF Idle, Pass, Phases

LEMMA NoRowIsRow == NoRow \in Row
BY DEF NoRow, Row

(* The row an upsert leaves is a row, whatever was there. *)
LEMMA UpsertedIsRow ==
    ASSUME TypeOK, NEW p \in Passes, NEW ref \in DocumentRef
    PROVE  Upserted(p, ref) \in Row
<1>1. pass[p].startedAt \in Nat /\ ref.doc \in Docs /\ row[ref.doc] \in Row
  BY DEF TypeOK, DocumentRef, Pass
<1>2. CASE row[ref.doc].id = 0
  <2>1. rowIds + 1 \in Nat
    BY DEF TypeOK
  <2>2. ASSUME NEW r \in Row
        PROVE [r EXCEPT !.id = rowIds + 1, !.lastSeenAt = pass[p].startedAt]
                 \in Row
    BY <1>1, <2>1 DEF Row
  <2>. QED BY <1>2, <2>2, NoRowIsRow DEF Upserted
<1>3. CASE row[ref.doc].id # 0
  BY <1>1, <1>3 DEF Upserted, Row
<1>. QED BY <1>2, <1>3

(* What each kind of step makes of the pass that takes it. *)
LEMMA ListedPass ==
    ASSUME TypeOK, NEW p \in Passes, ListSomePage(p)
    PROVE  \E ps \in Pass : /\ pass' = [pass EXCEPT ![p] = ps]
                            /\ ps.phase # "reindex"
                            /\ ps.startedAt = pass[p].startedAt
                            /\ ps.stale = pass[p].stale
                            /\ ps.gone = pass[p].gone
<1>1. PICK listed \in SUBSET Docs, more \in BOOLEAN :
         ListPage(p, listed, pass[p].page + 1, more)
  BY DEF ListSomePage
<1> DEFINE refs == {[doc |-> d, externalUpdatedAt |-> remote[d].editedAt] :
                      d \in listed}
           next == [pass[p] EXCEPT !.todo = refs, !.page = pass[p].page + 1,
                                   !.more = more]
<1>2. refs \in SUBSET DocumentRef
  BY DEF TypeOK, DocumentRef, RemoteDocument
<1>3. pass[p] \in Pass /\ pass[p].page + 1 \in Nat
  BY DEF TypeOK, Pass
<1> HIDE DEF refs
<1>4. /\ next \in Pass
      /\ next.startedAt = pass[p].startedAt
      /\ next.stale = pass[p].stale
      /\ next.gone = pass[p].gone
  BY <1>2, <1>3 DEF Pass
<1>5. pass' = [pass EXCEPT ![p] = [next EXCEPT !.phase = NextStep(next)]]
  BY <1>1 DEF ListPage, refs
<1> HIDE DEF next
<1>6. NextStep(next) \in Phases /\ NextStep(next) # "reindex"
  BY DEF NextStep, Phases
<1>7. LET ps == [next EXCEPT !.phase = NextStep(next)]
      IN  /\ ps \in Pass
          /\ ps.phase = NextStep(next)
          /\ ps.startedAt = next.startedAt
          /\ ps.stale = next.stale
          /\ ps.gone = next.gone
  BY <1>4, <1>6 DEF Pass
<1>. QED BY <1>4, <1>5, <1>6, <1>7

LEMMA ObservedPass ==
    ASSUME TypeOK, NEW p \in Passes, NEW ref \in DocumentRef,
           ObserveDocument(p, ref)
    PROVE  \E ps \in Pass : /\ pass' = [pass EXCEPT ![p] = ps]
                            /\ ps.phase # "reindex"
                            /\ ps.startedAt = pass[p].startedAt
                            /\ ps.stale = pass[p].stale
                            /\ ps.gone = pass[p].gone
<1> DEFINE r == Upserted(p, ref)
           rest == [pass[p] EXCEPT !.todo = @ \ {ref},
                                   !.seen = @ \cup {ref.doc}]
           again == [rest EXCEPT !.phase = "fetch", !.current = {ref.doc},
                                 !.rowId = r.id]
           next == [rest EXCEPT !.phase = NextStep(rest)]
<1>1. ref.doc \in Docs /\ r.id \in Nat
  BY UpsertedIsRow DEF DocumentRef, Row
<1>2. /\ rest \in Pass
      /\ rest.startedAt = pass[p].startedAt
      /\ rest.stale = pass[p].stale
      /\ rest.gone = pass[p].gone
  BY <1>1 DEF TypeOK, Pass
<1>3. pass' = [pass EXCEPT ![p] = IF NeedsIndex(r, ref) THEN again ELSE next]
  BY DEF ObserveDocument
<1> HIDE DEF r, rest
<1>4. NextStep(rest) \in Phases /\ NextStep(rest) # "reindex"
  BY DEF NextStep, Phases
<1>5. /\ again \in Pass
      /\ again.phase = "fetch"
      /\ again.startedAt = rest.startedAt
      /\ again.stale = rest.stale
      /\ again.gone = rest.gone
  BY <1>1, <1>2 DEF Pass, Phases
<1>6. /\ next \in Pass
      /\ next.phase = NextStep(rest)
      /\ next.startedAt = rest.startedAt
      /\ next.stale = rest.stale
      /\ next.gone = rest.gone
  BY <1>2, <1>4 DEF Pass
<1> HIDE DEF again, next
<1>. QED BY <1>2, <1>3, <1>4, <1>5, <1>6

LEMMA ReindexedPass ==
    ASSUME TypeOK, NEW p \in Passes, NEW d \in Docs, ReindexDocument(p, d)
    PROVE  \E ps \in Pass : /\ pass' = [pass EXCEPT ![p] = ps]
                            /\ ps.phase # "reindex"
                            /\ ps.startedAt = pass[p].startedAt
                            /\ ps.stale = pass[p].stale
                            /\ ps.gone = pass[p].gone
<1> DEFINE done == [pass[p] EXCEPT !.current = {}, !.rowId = 0, !.body = 0]
<1>1. /\ done \in Pass
      /\ done.startedAt = pass[p].startedAt
      /\ done.stale = pass[p].stale
      /\ done.gone = pass[p].gone
  BY DEF TypeOK, Pass
<1>2. pass' = [pass EXCEPT ![p] = [done EXCEPT !.phase = NextStep(done)]]
  BY DEF ReindexDocument, ReplaceChunks
<1> HIDE DEF done
<1>3. NextStep(done) \in Phases /\ NextStep(done) # "reindex"
  BY DEF NextStep, Phases
<1>4. LET ps == [done EXCEPT !.phase = NextStep(done)]
      IN  /\ ps \in Pass
          /\ ps.phase = NextStep(done)
          /\ ps.startedAt = done.startedAt
          /\ ps.stale = done.stale
          /\ ps.gone = done.gone
  BY <1>1, <1>3 DEF Pass
<1>. QED BY <1>1, <1>2, <1>3, <1>4

LEMMA StartedPass ==
    ASSUME TypeOK, NEW p \in Passes, StartPass(p)
    PROVE  \E ps \in Pass : /\ pass' = [pass EXCEPT ![p] = ps]
                            /\ ps.phase # "reindex"
                            /\ ps.startedAt = clock'
                            /\ ps.stale = {} /\ ps.gone = {}
<1>1. clock' \in Nat /\ source.id \in Nat
  BY DEF TypeOK, StartPass, Tick
<1> DEFINE next(ps) == [ps EXCEPT !.phase = "list", !.sourceId = source.id,
                                  !.startedAt = clock']
<1>2. \A ps \in Pass : /\ next(ps) \in Pass
                       /\ next(ps).phase = "list"
                       /\ next(ps).startedAt = clock'
                       /\ next(ps).stale = ps.stale
                       /\ next(ps).gone = ps.gone
  BY <1>1 DEF Pass, Phases
<1>3. pass' = [pass EXCEPT ![p] = next(Idle)]
  BY DEF StartPass
<1>4. Idle.stale = {} /\ Idle.gone = {}
  BY DEF Idle
<1> HIDE DEF next
<1>. QED BY <1>2, <1>3, <1>4, IdleIsPass

LEMMA SweepingPass ==
    ASSUME TypeOK, NEW p \in Passes, ListStaleDocuments(p)
    PROVE  \E ps \in Pass : /\ pass' = [pass EXCEPT ![p] = ps]
                            /\ ps.phase # "reindex"
                            /\ ps.startedAt = pass[p].startedAt
                            /\ ps.stale = StaleDocuments(p)
                            /\ ps.gone = pass[p].gone
<1>1. StaleDocuments(p) \in SUBSET StaleDocument
  BY DEF TypeOK, StaleDocuments, StaleDocument, Row
<1> DEFINE next(ph) == [pass[p] EXCEPT !.stale = StaleDocuments(p),
                                       !.phase = ph]
<1>2. \A ph \in {"delete", "check"} :
         /\ next(ph) \in Pass
         /\ next(ph).phase = ph
         /\ next(ph).startedAt = pass[p].startedAt
         /\ next(ph).stale = StaleDocuments(p)
         /\ next(ph).gone = pass[p].gone
  BY <1>1 DEF TypeOK, Pass, Phases
<1>3. \E ph \in {"delete", "check"} : pass' = [pass EXCEPT ![p] = next(ph)]
  BY DEF ListStaleDocuments
<1> HIDE DEF next
<1>. QED BY <1>2, <1>3

LEMMA CheckingPass ==
    ASSUME TypeOK, NEW p \in Passes, NEW s \in pass[p].stale,
           CheckDocumentExists(p, s)
    PROVE  \E ps \in Pass : /\ pass' = [pass EXCEPT ![p] = ps]
                            /\ ps.phase # "reindex"
                            /\ ps.startedAt = pass[p].startedAt
                            /\ ps.stale = pass[p].stale \ {s}
                            /\ ps.gone = IF remote[s.doc].exists
                                         THEN pass[p].gone
                                         ELSE pass[p].gone \cup {s}
<1> DEFINE g == IF remote[s.doc].exists THEN pass[p].gone
                                        ELSE pass[p].gone \cup {s}
           next(ph) == [pass[p] EXCEPT !.stale = @ \ {s}, !.gone = g,
                                       !.phase = ph]
<1>1. g \in SUBSET StaleDocument
  BY DEF TypeOK, Pass
<1>2. pass[p].stale \ {s} \in SUBSET StaleDocument
  BY DEF TypeOK, Pass
<1>3. \E ph \in {"delete", "check"} : pass' = [pass EXCEPT ![p] = next(ph)]
  BY DEF CheckDocumentExists, SweepOn
<1> HIDE DEF g
<1>4. \A ph \in {"delete", "check"} :
         /\ next(ph) \in Pass
         /\ next(ph).phase = ph
         /\ next(ph).startedAt = pass[p].startedAt
         /\ next(ph).stale = pass[p].stale \ {s}
         /\ next(ph).gone = g
  BY <1>1, <1>2 DEF TypeOK, Pass, Phases
<1> HIDE DEF next
<1>5. PICK ph \in {"delete", "check"} : pass' = [pass EXCEPT ![p] = next(ph)]
  BY <1>3
<1>6. g = IF remote[s.doc].exists THEN pass[p].gone
                                  ELSE pass[p].gone \cup {s}
  BY DEF g
<1>. QED BY <1>4, <1>5, <1>6

LEMMA DeletingPass ==
    ASSUME TypeOK, NEW p \in Passes, DeleteDocuments(p)
    PROVE  \E ps \in Pass : /\ pass' = [pass EXCEPT ![p] = ps]
                            /\ ps.phase # "reindex"
                            /\ ps.startedAt = pass[p].startedAt
                            /\ ps.stale = pass[p].stale
                            /\ ps.gone = {}
<1> DEFINE ps == [pass[p] EXCEPT !.phase = "record", !.gone = {}]
<1>1. /\ ps \in Pass
      /\ ps.phase = "record"
      /\ ps.startedAt = pass[p].startedAt
      /\ ps.stale = pass[p].stale
      /\ ps.gone = {}
  BY DEF TypeOK, Pass, Phases
<1>2. pass' = [pass EXCEPT ![p] = ps]
  BY DEF DeleteDocuments
<1> HIDE DEF ps
<1>. QED BY <1>1, <1>2

LEMMA TypeStep == TypeOK /\ [Next]_vars => TypeOK'
<1> SUFFICES ASSUME TypeOK, [Next]_vars PROVE TypeOK'
  OBVIOUS
<1> USE IdleIsPass DEF TypeOK
<1>1. ASSUME NEW p \in Passes, StartPass(p) PROVE TypeOK'
  <2>1. PICK ps \in Pass : pass' = [pass EXCEPT ![p] = ps]
    BY <1>1, StartedPass
  <2>. QED BY <1>1, <2>1 DEF StartPass, Tick
<1>2. ASSUME NEW p \in Passes, ListSomePage(p) PROVE TypeOK'
  BY <1>2, ListedPass DEF ListSomePage, ListPage
<1>3. ASSUME NEW p \in Passes, NEW ref \in pass[p].todo,
             ObserveDocument(p, ref)
      PROVE TypeOK'
  <2>1. ref \in DocumentRef /\ ref.doc \in Docs
    BY DEF Pass, DocumentRef
  <2>2. /\ row' = [row EXCEPT ![ref.doc] = Upserted(p, ref)]
        /\ rowIds' \in Nat /\ UNCHANGED <<clock, remote, source>>
    BY <1>3 DEF ObserveDocument
  <2>. QED BY <1>3, <2>1, <2>2, UpsertedIsRow, ObservedPass
<1>4. ASSUME NEW p \in Passes, NEW d \in Docs, FetchDocument(p, d)
      PROVE TypeOK'
  <2>1. remote[d].version \in Nat
    BY DEF RemoteDocument
  <2>2. [pass[p] EXCEPT !.phase = "reindex", !.body = remote[d].version]
           \in Pass
    BY <2>1 DEF Pass, Phases
  <2>. QED BY <1>4, <2>2 DEF FetchDocument
<1>5. ASSUME NEW p \in Passes, NEW d \in Docs, ReindexDocument(p, d)
      PROVE TypeOK'
  <2>1. pass[p].body \in Nat /\ pass[p].startedAt \in Nat
    BY DEF Pass
  <2>2. [row[d] EXCEPT !.body = pass[p].body,
                       !.lastIndexedAt = pass[p].startedAt] \in Row
    BY <2>1 DEF Row
  <2>3. row' \in [Docs -> Row]
    BY <1>5, <2>2 DEF ReindexDocument, ReplaceChunks
  <2>. QED BY <1>5, <2>3, ReindexedPass DEF ReindexDocument, ReplaceChunks
<1>6. ASSUME NEW p \in Passes, ListStaleDocuments(p) PROVE TypeOK'
  BY <1>6, SweepingPass DEF ListStaleDocuments
<1>7. ASSUME NEW p \in Passes, NEW s \in pass[p].stale,
             CheckDocumentExists(p, s)
      PROVE TypeOK'
  <2>1. PICK ps \in Pass : pass' = [pass EXCEPT ![p] = ps]
    BY <1>7, CheckingPass
  <2>. QED BY <1>7, <2>1 DEF CheckDocumentExists, SweepOn
<1>8. ASSUME NEW p \in Passes, DeleteDocuments(p) PROVE TypeOK'
  BY <1>8, DeletingPass, NoRowIsRow DEF DeleteDocuments
<1>9. ASSUME NEW p \in Passes, RecordSyncCompletion(p) PROVE TypeOK'
  BY <1>9 DEF RecordSyncCompletion, Pass
<1>10. ASSUME NEW p \in Passes, FailPass(p) PROVE TypeOK'
  BY <1>10 DEF FailPass
<1>11. ASSUME NEW d \in Docs,
              EditRemote(d) \/ RemoveRemote(d) \/ AppearRemote(d)
       PROVE TypeOK'
  <2>1. clock' \in Nat
    BY <1>11 DEF EditRemote, RemoveRemote, AppearRemote, Tick
  <2>2. /\ [remote[d] EXCEPT !.version = clock', !.editedAt = clock']
              \in RemoteDocument
        /\ [remote[d] EXCEPT !.exists = FALSE, !.since = clock']
              \in RemoteDocument
        /\ [remote[d] EXCEPT !.exists = TRUE, !.since = clock',
              !.version = IF remote[d].version = 0 THEN clock' ELSE @,
              !.editedAt = IF remote[d].version = 0 THEN clock' ELSE @]
              \in RemoteDocument
    BY <2>1 DEF RemoteDocument
  <2>3. remote' \in [Docs -> RemoteDocument]
    <3>1. CASE EditRemote(d) BY <3>1, <2>2 DEF EditRemote
    <3>2. CASE RemoveRemote(d) BY <3>2, <2>2 DEF RemoveRemote
    <3>3. CASE AppearRemote(d) BY <3>3, <2>2 DEF AppearRemote
    <3>. QED BY <1>11, <3>1, <3>2, <3>3
  <2>. QED BY <1>11, <2>1, <2>3 DEF EditRemote, RemoveRemote, AppearRemote
<1>12. CASE DeleteSource
  BY <1>12 DEF DeleteSource, DeleteSourceRow, Row, NoRow
<1>13. CASE UNCHANGED vars
  BY <1>13 DEF vars
<1>. QED
  BY <1>1, <1>2, <1>3, <1>4, <1>5, <1>6, <1>7, <1>8, <1>9, <1>10, <1>11,
     <1>12, <1>13 DEF Next, PassStep

(* Every variable keeps its type (the shape of the rows and of the local   *)
(* state of a pass), which the prover needs before it can do arithmetic on *)
(* the stamps.                                                             *)
THEOREM TypeCorrect == Spec => []TypeOK
<1>1. Init => TypeOK
  BY IdleIsPass, AttachmentsAssumption
     DEF Init, TypeOK, RemoteDocument, Row, NoRow
<1>2. TypeOK /\ [Next]_vars => TypeOK'
  BY TypeStep
<1>. QED BY <1>1, <1>2, PTL DEF Spec

-----------------------------------------------------------------------------
(* An upsert keeps what the chunks hold and when they were indexed, or     *)
(* starts a row that has none.                                             *)
LEMMA UpsertedKeepsIndex ==
    ASSUME TypeOK, NEW p \in Passes, NEW ref \in DocumentRef
    PROVE  LET u == Upserted(p, ref)
           IN  \/ u.body = 0 /\ u.lastIndexedAt = 0
               \/ /\ u.body = row[ref.doc].body
                  /\ u.lastIndexedAt = row[ref.doc].lastIndexedAt
<1>1. ref.doc \in Docs /\ row[ref.doc] \in Row
  BY DEF TypeOK, DocumentRef
<1>2. CASE row[ref.doc].id = 0
  <2>1. ASSUME NEW r \in Row
        PROVE LET u == [r EXCEPT !.id = rowIds + 1,
                                 !.lastSeenAt = pass[p].startedAt]
              IN  u.body = r.body /\ u.lastIndexedAt = r.lastIndexedAt
    BY DEF Row
  <2>2. NoRow.body = 0 /\ NoRow.lastIndexedAt = 0
    BY DEF NoRow
  <2>. QED BY <1>2, <2>1, <2>2, NoRowIsRow DEF Upserted
<1>3. CASE row[ref.doc].id # 0
  BY <1>1, <1>3 DEF Upserted, Row
<1>. QED BY <1>2, <1>3

(* Most steps write neither chunks nor the provider: they move a pass      *)
(* along without leaving it a body, create or delete whole rows, or let    *)
(* time pass.  None of these can break the index invariant.                *)
LEMMA QuietStep ==
    ASSUME TypeOK, TypeOK', IndexInv,
           clock <= clock', remote' = remote,
           \A d \in Docs : \/ /\ row'[d].body = row[d].body
                              /\ row'[d].lastIndexedAt = row[d].lastIndexedAt
                           \/ row'[d].body = 0 /\ row'[d].lastIndexedAt = 0,
           \A p \in Passes : pass'[p] = pass[p] \/
                             (/\ pass'[p].phase # "reindex"
                              /\ pass'[p].startedAt <= clock')
    PROVE  IndexInv'
<1> USE DEF IndexInv
<1>1. /\ clock \in Nat /\ clock' \in Nat
      /\ \A d \in Docs : /\ row[d].lastIndexedAt \in Nat
                         /\ remote[d].editedAt \in Nat
      /\ \A p \in Passes : pass[p].startedAt \in Nat
  BY DEF TypeOK, Row, RemoteDocument, Pass
<1>3. StampsArePast'
  BY <1>1 DEF StampsArePast
<1>4. HeldBodyIsDated'
  BY DEF HeldBodyIsDated
<1>5. StaleIndexDetectable'
  BY <1>1 DEF StaleIndexDetectable
<1>. QED BY <1>3, <1>4, <1>5

(* IndexInv is inductive. The two steps that matter are an edit, which     *)
(* stamps the document later than anything written so far, and a re-index, *)
(* which dates the body by the start of the pass that fetched it.          *)
LEMMA IndexInvStep ==
    ASSUME TypeOK, TypeOK', IndexInv, [Next]_vars PROVE IndexInv'
<1> USE DEF TypeOK
<1>1. \A p \in Passes : pass[p].startedAt <= clock
  BY DEF IndexInv, StampsArePast
<1>2. ASSUME NEW p \in Passes, StartPass(p) PROVE IndexInv'
  <2>1. PICK ps \in Pass : /\ pass' = [pass EXCEPT ![p] = ps]
                           /\ ps.phase # "reindex"
                           /\ ps.startedAt = clock'
    BY <1>2, StartedPass
  <2>2. \A q \in Passes : pass'[q] = pass[q] \/ pass'[q] = ps
    BY <2>1
  <2>3. clock' = clock + 1 /\ UNCHANGED <<remote, row>>
    BY <1>2 DEF StartPass, Tick
  <2>. QED BY <2>1, <2>2, <2>3, QuietStep
<1>3. ASSUME NEW p \in Passes, ListSomePage(p) PROVE IndexInv'
  <2>1. PICK ps \in Pass : /\ pass' = [pass EXCEPT ![p] = ps]
                           /\ ps.phase # "reindex"
                           /\ ps.startedAt = pass[p].startedAt
    BY <1>3, ListedPass
  <2>2. \A q \in Passes : pass'[q] = pass[q] \/ pass'[q] = ps
    BY <2>1
  <2>3. UNCHANGED <<clock, remote, row>>
    BY <1>3 DEF ListSomePage, ListPage
  <2>. QED BY <1>1, <2>1, <2>2, <2>3, QuietStep
<1>4. ASSUME NEW p \in Passes, NEW ref \in pass[p].todo,
             ObserveDocument(p, ref)
      PROVE IndexInv'
  <2>1. ref \in DocumentRef /\ ref.doc \in Docs
    BY DEF Pass, DocumentRef
  <2>2. /\ row' = [row EXCEPT ![ref.doc] = Upserted(p, ref)]
        /\ UNCHANGED <<clock, remote, source>>
    BY <1>4 DEF ObserveDocument
  <2>. QED
    BY <1>1, <1>4, <2>1, <2>2, UpsertedKeepsIndex, ObservedPass, QuietStep
       DEF IndexInv
<1>5. ASSUME NEW p \in Passes, NEW d \in Docs, FetchDocument(p, d)
      PROVE IndexInv'
  <2>1. /\ pass'[p].body = remote[d].version
        /\ pass'[p].current = {d}
        /\ pass'[p].startedAt = pass[p].startedAt
        /\ \A q \in Passes : q # p => pass'[q] = pass[q]
    BY <1>5 DEF FetchDocument, Pass
  <2>. QED
    BY <1>5, <2>1 DEF FetchDocument, IndexInv, StampsArePast,
                      HeldBodyIsDated, StaleIndexDetectable
<1>6. ASSUME NEW p \in Passes, NEW d \in Docs, ReindexDocument(p, d)
      PROVE IndexInv'
  <2>1. PICK ps \in Pass : /\ pass' = [pass EXCEPT ![p] = ps]
                           /\ ps.phase # "reindex"
                           /\ ps.startedAt = pass[p].startedAt
    BY <1>6, ReindexedPass
  <2>2. \A q \in Passes : pass'[q] = pass[q] \/ pass'[q] = ps
    BY <2>1
  <2>3. /\ pass[p].phase = "reindex" /\ pass[p].current = {d}
        /\ row[d].id = pass[p].rowId
        /\ UNCHANGED <<clock, remote>>
    BY <1>6 DEF ReindexDocument, ReplaceChunks
  <2>4. /\ row'[d].id = row[d].id
        /\ row'[d].body = pass[p].body
        /\ row'[d].lastIndexedAt = pass[p].startedAt
        /\ \A e \in Docs : e # d => row'[e] = row[e]
    BY <1>6 DEF ReindexDocument, ReplaceChunks, Row
  <2>5. \/ pass[p].body = remote[d].version
        \/ pass[p].startedAt < remote[d].editedAt
    BY <2>3 DEF IndexInv, HeldBodyIsDated
  <2>. QED
    BY <1>1, <2>1, <2>2, <2>3, <2>4, <2>5
       DEF IndexInv, StampsArePast, HeldBodyIsDated, StaleIndexDetectable
<1>7. ASSUME NEW p \in Passes, ListStaleDocuments(p) PROVE IndexInv'
  <2>1. PICK ps \in Pass : /\ pass' = [pass EXCEPT ![p] = ps]
                           /\ ps.phase # "reindex"
                           /\ ps.startedAt = pass[p].startedAt
    BY <1>7, SweepingPass
  <2>2. \A q \in Passes : pass'[q] = pass[q] \/ pass'[q] = ps
    BY <2>1
  <2>3. UNCHANGED <<clock, remote, row>>
    BY <1>7 DEF ListStaleDocuments
  <2>. QED BY <1>1, <2>1, <2>2, <2>3, QuietStep
<1>8. ASSUME NEW p \in Passes, NEW s \in pass[p].stale,
             CheckDocumentExists(p, s)
      PROVE IndexInv'
  <2>1. PICK ps \in Pass : /\ pass' = [pass EXCEPT ![p] = ps]
                           /\ ps.phase # "reindex"
                           /\ ps.startedAt = pass[p].startedAt
    BY <1>8, CheckingPass
  <2>2. \A q \in Passes : pass'[q] = pass[q] \/ pass'[q] = ps
    BY <2>1
  <2>3. UNCHANGED <<clock, remote, row>>
    BY <1>8 DEF CheckDocumentExists, SweepOn
  <2>. QED BY <1>1, <2>1, <2>2, <2>3, QuietStep
<1>9. ASSUME NEW p \in Passes, DeleteDocuments(p) PROVE IndexInv'
  <2>1. PICK ps \in Pass : /\ pass' = [pass EXCEPT ![p] = ps]
                           /\ ps.phase # "reindex"
                           /\ ps.startedAt = pass[p].startedAt
    BY <1>9, DeletingPass
  <2>2. \A q \in Passes : pass'[q] = pass[q] \/ pass'[q] = ps
    BY <2>1
  <2>3. /\ UNCHANGED <<clock, remote>>
        /\ \A d \in Docs : row'[d] = row[d] \/ row'[d] = NoRow
    BY <1>9 DEF DeleteDocuments
  <2>4. NoRow.body = 0 /\ NoRow.lastIndexedAt = 0
    BY DEF NoRow
  <2>. QED BY <1>1, <2>1, <2>2, <2>3, <2>4, QuietStep
<1>10. ASSUME NEW p \in Passes, RecordSyncCompletion(p) \/ FailPass(p)
       PROVE IndexInv'
  <2>1. pass' = [pass EXCEPT ![p] = Idle] /\ UNCHANGED <<clock, remote, row>>
    BY <1>10 DEF RecordSyncCompletion, FailPass
  <2>2. Idle.phase # "reindex" /\ Idle.startedAt = 0
    BY DEF Idle
  <2>3. \A q \in Passes : pass'[q] = pass[q] \/ pass'[q] = Idle
    BY <2>1
  <2>. QED BY <2>1, <2>2, <2>3, QuietStep
<1>11. ASSUME NEW d \in Docs,
              EditRemote(d) \/ RemoveRemote(d) \/ AppearRemote(d)
       PROVE IndexInv'
  <2>1. clock' = clock + 1 /\ UNCHANGED <<row, pass>>
    BY <1>11 DEF EditRemote, RemoveRemote, AppearRemote, Tick
  <2>2. \A e \in Docs : \/ /\ remote'[e].version = remote[e].version
                           /\ remote'[e].editedAt = remote[e].editedAt
                        \/ remote'[e].editedAt = clock'
    <3>1. CASE EditRemote(d)
      BY <1>11, <3>1 DEF EditRemote, RemoteDocument
    <3>2. CASE RemoveRemote(d)
      BY <1>11, <3>2 DEF RemoveRemote, RemoteDocument
    <3>3. CASE AppearRemote(d)
      BY <1>11, <3>3 DEF AppearRemote, RemoteDocument
    <3>. QED BY <1>11, <3>1, <3>2, <3>3
  <2>3. /\ clock \in Nat
        /\ \A e \in Docs : row[e].lastIndexedAt \in Nat
                         /\ remote[e].editedAt \in Nat
        /\ \A q \in Passes : pass[q].startedAt \in Nat
    BY DEF Row, RemoteDocument, Pass
  <2>4. StampsArePast'
    BY <2>1, <2>2, <2>3 DEF IndexInv, StampsArePast
  <2>5. HeldBodyIsDated'
    BY <1>1, <2>1, <2>2, <2>3 DEF IndexInv, HeldBodyIsDated
  <2>6. StaleIndexDetectable'
    BY <2>1, <2>2, <2>3 DEF IndexInv, StampsArePast, StaleIndexDetectable
  <2>. QED BY <2>4, <2>5, <2>6 DEF IndexInv
<1>12. CASE DeleteSource
  BY <1>12, QuietStep DEF DeleteSource, DeleteSourceRow, NoRow
<1>13. CASE UNCHANGED vars
  BY <1>13, QuietStep DEF vars
<1>. QED
  BY <1>2, <1>3, <1>4, <1>5, <1>6, <1>7, <1>8, <1>9, <1>10, <1>11, <1>12,
     <1>13 DEF Next, PassStep

LEMMA IndexInvHolds == Spec => [](TypeOK /\ IndexInv)
<1>1. Init => IndexInv
  BY DEF Init, IndexInv, StampsArePast, HeldBodyIsDated, StaleIndexDetectable,
         NoRow, Idle
<1>2. TypeOK /\ TypeOK' /\ IndexInv /\ [Next]_vars => IndexInv'
  BY IndexInvStep
<1>. QED BY <1>1, <1>2, TypeCorrect, PTL DEF Spec

(* An index that does not match the provider is dated before the edit it   *)
(* missed, so that the comparison in sync() re-indexes it on the next pass *)
(* whatever the number of passes and however they overlap.                 *)
THEOREM StaleIndexIsDetectable == Spec => []StaleIndexDetectable
<1>1. IndexInv => StaleIndexDetectable
  BY DEF IndexInv
<1>. QED BY <1>1, IndexInvHolds, PTL

-----------------------------------------------------------------------------
(* recordSyncCompletion is the only writer of lastSyncedAt and never moves *)
(* it back, so of two overlapping passes the later start wins.             *)
THEOREM LastSyncedAtIsMonotone == Spec => LastSyncedAtAdvances
<1>1. ASSUME TypeOK, [Next]_vars, source'.id = source.id
      PROVE  source.lastSyncedAt <= source'.lastSyncedAt
  <2> USE <1>1 DEF TypeOK
  <2>1. source.lastSyncedAt \in Nat /\ source.id \in Nat
    OBVIOUS
  <2>2. ASSUME NEW p \in Passes, RecordSyncCompletion(p)
        PROVE source.lastSyncedAt <= source'.lastSyncedAt
    <3>1. pass[p].startedAt \in Nat
      BY DEF Pass
    <3>. QED BY <2>1, <2>2, <3>1 DEF RecordSyncCompletion
  <2>3. ASSUME NEW p \in Passes, StartPass(p) \/ ListSomePage(p)
        PROVE source' = source
    BY <2>3 DEF StartPass, ListSomePage, ListPage
  <2>4. ASSUME NEW p \in Passes, PassStep(p), ~RecordSyncCompletion(p)
        PROVE source' = source
    BY <2>4 DEF PassStep, ObserveDocument, FetchDocument, ReindexDocument, ReplaceChunks,
                ListStaleDocuments, CheckDocumentExists, SweepOn, DeleteDocuments,
                FailPass
  <2>5. ASSUME NEW d \in Docs,
               EditRemote(d) \/ RemoveRemote(d) \/ AppearRemote(d)
        PROVE source' = source
    BY <2>5 DEF EditRemote, RemoveRemote, AppearRemote
  <2>6. ~DeleteSource
    BY DEF DeleteSource, DeleteSourceRow
  <2>. QED BY <2>1, <2>2, <2>3, <2>4, <2>5, <2>6 DEF Next, vars
<1>. QED BY <1>1, TypeCorrect, PTL DEF Spec, LastSyncedAtAdvances

-----------------------------------------------------------------------------
(* Row ids are given out once, so an id in the hands of a pass names one   *)
(* document for ever.                                                      *)
RowIdsAreUnique ==
    \A d \in Docs :
        /\ row[d].id <= rowIds
        /\ row[d].id = 0 => row[d].body = 0
        /\ \A e \in Docs : row[d].id = row[e].id /\ row[d].id # 0 => d = e

ListedIdsAreOnce ==
    \A p \in Passes : \A s \in pass[p].stale \cup pass[p].gone :
        /\ s.id # 0 /\ s.id <= rowIds
        /\ \A d \in Docs : row[d].id = s.id => d = s.doc

HeldIdsAreGiven ==
    \A p \in Passes :
        pass[p].phase \in {"fetch", "reindex"} =>
            pass[p].rowId # 0 /\ pass[p].rowId <= rowIds

StartsArePast ==
    /\ \A p \in Passes : pass[p].startedAt <= clock
    /\ \A d \in Docs : row[d].lastSeenAt <= clock
    /\ source.lastSyncedAt <= clock

(* What a pass found gone was gone at some time since the pass began.      *)
GoneWasGone ==
    \A p \in Passes : \A s \in pass[p].gone :
        \/ ~remote[s.doc].exists
        \/ pass[p].startedAt < remote[s.doc].since

SweepInv == /\ RowIdsAreUnique /\ ListedIdsAreOnce /\ HeldIdsAreGiven
            /\ StartsArePast /\ GoneWasGone /\ NoOrphanRows

-----------------------------------------------------------------------------
(* What each step makes of the pass that takes it, as far as the sweep is  *)
(* concerned.  Elsewhere is every other pass.                              *)
Elsewhere(p) == \A q \in Passes \ {p} : pass'[q] = pass[q]

Same(p) == /\ pass[p].phase # "idle"
           /\ pass'[p].startedAt = pass[p].startedAt
           /\ pass'[p].sourceId = pass[p].sourceId

SameHand(p) == /\ pass'[p].seen = pass[p].seen
               /\ pass'[p].current = pass[p].current

Between == {"list", "observe", "sweep"}

LEMMA NextStepIsBetween == \A ps : NextStep(ps) \in Between
BY DEF NextStep, Between

LEMMA StartEffect ==
    ASSUME TypeOK, NEW p \in Passes, StartPass(p)
    PROVE  /\ Elsewhere(p)
           /\ pass'[p].phase = "list" /\ pass'[p].startedAt = clock'
           /\ pass'[p].sourceId = source.id
           /\ pass'[p].todo = {} /\ pass'[p].stale = {} /\ pass'[p].gone = {}
           /\ pass'[p].seen = {} /\ pass'[p].current = {}
           /\ clock' = clock + 1
           /\ UNCHANGED <<remote, source, row, rowIds>>
BY DEF StartPass, Tick, TypeOK, Pass, Idle, Elsewhere

LEMMA ListEffect ==
    ASSUME TypeOK, NEW p \in Passes, ListSomePage(p)
    PROVE  /\ Elsewhere(p) /\ Same(p)
           /\ pass[p].phase = "list" /\ pass'[p].phase \in Between
           /\ SameHand(p)
           /\ \A ref \in pass'[p].todo :
                  /\ remote[ref.doc].exists
                  /\ ref.externalUpdatedAt = remote[ref.doc].editedAt
           /\ pass'[p].stale = pass[p].stale /\ pass'[p].gone = pass[p].gone
           /\ UNCHANGED <<clock, remote, source, row, rowIds>>
<1>1. PICK listed \in SUBSET {d \in Docs : remote[d].exists},
           more \in BOOLEAN :
         ListPage(p, listed, pass[p].page + 1, more)
  BY DEF ListSomePage
<1> DEFINE refs == {[doc |-> d, externalUpdatedAt |-> remote[d].editedAt] :
                      d \in listed}
           next == [pass[p] EXCEPT !.todo = refs, !.page = pass[p].page + 1,
                                   !.more = more]
<1>2. /\ pass' = [pass EXCEPT ![p] = [next EXCEPT !.phase = NextStep(next)]]
      /\ pass[p].phase = "list"
      /\ UNCHANGED <<clock, remote, source, row, rowIds>>
  BY <1>1 DEF ListPage
<1>3. \A ref \in refs : /\ remote[ref.doc].exists
                        /\ ref.externalUpdatedAt = remote[ref.doc].editedAt
  OBVIOUS
<1> HIDE DEF refs
<1>4. /\ next.startedAt = pass[p].startedAt /\ next.sourceId = pass[p].sourceId
      /\ next.todo = refs
      /\ next.stale = pass[p].stale /\ next.gone = pass[p].gone
      /\ next.seen = pass[p].seen /\ next.current = pass[p].current
      /\ DOMAIN next = DOMAIN pass[p]
  BY DEF TypeOK, Pass
<1>. QED
  BY <1>2, <1>3, <1>4, NextStepIsBetween
     DEF TypeOK, Pass, Elsewhere, Same, SameHand

LEMMA ObserveEffect ==
    ASSUME TypeOK, NEW p \in Passes, NEW ref \in pass[p].todo,
           ObserveDocument(p, ref)
    PROVE  /\ Elsewhere(p) /\ Same(p)
           /\ pass'[p].phase \in Between \cup {"fetch"}
           /\ pass'[p].phase = "fetch" =>
                  pass'[p].rowId = Upserted(p, ref).id
           /\ pass[p].phase = "observe"
           /\ pass'[p].seen = pass[p].seen \cup {ref.doc}
           /\ IF NeedsIndex(Upserted(p, ref), ref)
              THEN pass'[p].phase = "fetch" /\ pass'[p].current = {ref.doc}
              ELSE pass'[p].phase # "fetch" /\ pass'[p].current = pass[p].current
           /\ pass'[p].todo \subseteq pass[p].todo
           /\ pass'[p].stale = pass[p].stale /\ pass'[p].gone = pass[p].gone
           /\ row' = [row EXCEPT ![ref.doc] = Upserted(p, ref)]
           /\ rowIds' = IF row[ref.doc].id = 0 THEN rowIds + 1 ELSE rowIds
           /\ source.id # 0
           /\ UNCHANGED <<clock, remote, source>>
<1> DEFINE r == Upserted(p, ref)
           rest == [pass[p] EXCEPT !.todo = @ \ {ref},
                                   !.seen = @ \cup {ref.doc}]
           again == [rest EXCEPT !.phase = "fetch", !.current = {ref.doc},
                                 !.rowId = r.id]
           next == [rest EXCEPT !.phase = NextStep(rest)]
<1>1. /\ pass' = [pass EXCEPT ![p] = IF NeedsIndex(r, ref) THEN again ELSE next]
      /\ pass[p].phase = "observe"
      /\ row' = [row EXCEPT ![ref.doc] = Upserted(p, ref)]
      /\ rowIds' = IF row[ref.doc].id = 0 THEN rowIds + 1 ELSE rowIds
      /\ source.id # 0
      /\ UNCHANGED <<clock, remote, source>>
  BY DEF ObserveDocument, SourceHeld
<1> HIDE DEF r
<1>2. /\ rest.startedAt = pass[p].startedAt /\ rest.sourceId = pass[p].sourceId
      /\ rest.todo \subseteq pass[p].todo
      /\ rest.stale = pass[p].stale /\ rest.gone = pass[p].gone
      /\ rest.seen = pass[p].seen \cup {ref.doc}
      /\ rest.current = pass[p].current
      /\ DOMAIN rest = DOMAIN pass[p]
  BY DEF TypeOK, Pass
<1>3. DOMAIN pass[p] = {"phase", "sourceId", "startedAt", "page", "more",
         "todo", "seen", "current", "rowId", "body", "stale", "gone"}
  BY DEF TypeOK, Pass
<1> HIDE DEF rest
<1>4. /\ again.phase = "fetch" /\ again.rowId = r.id
      /\ again.startedAt = rest.startedAt /\ again.sourceId = rest.sourceId
      /\ again.todo = rest.todo
      /\ again.stale = rest.stale /\ again.gone = rest.gone
      /\ again.seen = rest.seen /\ again.current = {ref.doc}
  BY <1>2, <1>3
<1>5. /\ next.phase = NextStep(rest)
      /\ next.startedAt = rest.startedAt /\ next.sourceId = rest.sourceId
      /\ next.todo = rest.todo
      /\ next.stale = rest.stale /\ next.gone = rest.gone
      /\ next.seen = rest.seen /\ next.current = rest.current
  BY <1>2, <1>3
<1> HIDE DEF again, next
<1>6. pass'[p] = (IF NeedsIndex(r, ref) THEN again ELSE next) /\ Elsewhere(p)
  BY <1>1 DEF TypeOK, Elsewhere
<1>7. NextStep(rest) \in Between /\ "fetch" \notin Between
  BY NextStepIsBetween DEF Between
<1>. QED BY <1>1, <1>2, <1>4, <1>5, <1>6, <1>7 DEF Same, r

LEMMA FetchEffect ==
    ASSUME TypeOK, NEW p \in Passes, NEW d \in Docs, FetchDocument(p, d)
    PROVE  /\ Elsewhere(p) /\ Same(p)
           /\ pass[p].phase = "fetch" /\ pass'[p].phase = "reindex"
           /\ SameHand(p) /\ pass[p].current = {d}
           /\ pass'[p].body = remote[d].version
           /\ pass'[p].rowId = pass[p].rowId
           /\ pass'[p].todo = pass[p].todo
           /\ pass'[p].stale = pass[p].stale /\ pass'[p].gone = pass[p].gone
           /\ remote[d].exists \/ ServesGone
           /\ UNCHANGED <<clock, remote, source, row, rowIds>>
BY DEF FetchDocument, TypeOK, Pass, Elsewhere, Same, SameHand

LEMMA ReindexEffect ==
    ASSUME TypeOK, NEW p \in Passes, NEW d \in Docs, ReindexDocument(p, d)
    PROVE  /\ Elsewhere(p) /\ Same(p)
           /\ pass[p].phase = "reindex" /\ pass[p].current = {d}
           /\ row[d].id = pass[p].rowId
           /\ pass'[p].phase \in Between
           /\ pass'[p].seen = pass[p].seen /\ pass'[p].current = {}
           /\ pass'[p].todo = pass[p].todo
           /\ pass'[p].stale = pass[p].stale /\ pass'[p].gone = pass[p].gone
           /\ row'[d].body = pass[p].body
           /\ row'[d].lastIndexedAt = pass[p].startedAt
           /\ row'[d].id = row[d].id /\ row'[d].lastSeenAt = row[d].lastSeenAt
           /\ \A e \in Docs \ {d} : row'[e] = row[e]
           /\ UNCHANGED <<clock, remote, source, rowIds>>
<1> DEFINE done == [pass[p] EXCEPT !.current = {}, !.rowId = 0, !.body = 0]
<1>1. /\ pass' = [pass EXCEPT ![p] = [done EXCEPT !.phase = NextStep(done)]]
      /\ pass[p].phase = "reindex" /\ pass[p].current = {d}
      /\ row[d].id = pass[p].rowId
      /\ UNCHANGED <<clock, remote, source, rowIds>>
  BY DEF ReindexDocument, ReplaceChunks
<1>2. /\ row'[d].id = row[d].id /\ row'[d].lastSeenAt = row[d].lastSeenAt
      /\ row'[d].body = pass[p].body
      /\ row'[d].lastIndexedAt = pass[p].startedAt
      /\ \A e \in Docs \ {d} : row'[e] = row[e]
  BY DEF ReindexDocument, ReplaceChunks, TypeOK, Row
<1>3. /\ done.startedAt = pass[p].startedAt /\ done.sourceId = pass[p].sourceId
      /\ done.todo = pass[p].todo
      /\ done.stale = pass[p].stale /\ done.gone = pass[p].gone
      /\ done.seen = pass[p].seen /\ done.current = {}
      /\ DOMAIN done = DOMAIN pass[p]
  BY DEF TypeOK, Pass
<1>. QED
  BY <1>1, <1>2, <1>3, NextStepIsBetween DEF TypeOK, Pass, Elsewhere, Same

LEMMA StaleEffect ==
    ASSUME TypeOK, NEW p \in Passes, ListStaleDocuments(p)
    PROVE  /\ Elsewhere(p) /\ Same(p)
           /\ pass[p].phase = "sweep" /\ SameHand(p)
           /\ pass'[p].phase = IF StaleDocuments(p) = {} THEN "delete"
                                                         ELSE "check"
           /\ pass'[p].todo = pass[p].todo
           /\ pass'[p].stale = StaleDocuments(p)
           /\ pass'[p].gone = pass[p].gone
           /\ UNCHANGED <<clock, remote, source, row, rowIds>>
BY DEF ListStaleDocuments, TypeOK, Pass, Elsewhere, Same, SameHand

LEMMA CheckEffect ==
    ASSUME TypeOK, NEW p \in Passes, NEW s \in pass[p].stale,
           CheckDocumentExists(p, s)
    PROVE  /\ Elsewhere(p) /\ Same(p)
           /\ pass[p].phase = "check" /\ SameHand(p)
           /\ pass'[p].phase = IF pass[p].stale = {s} THEN "delete"
                                                      ELSE "check"
           /\ pass'[p].todo = pass[p].todo
           /\ pass'[p].stale = pass[p].stale \ {s}
           /\ pass'[p].gone = IF remote[s.doc].exists
                              THEN pass[p].gone ELSE pass[p].gone \cup {s}
           /\ UNCHANGED <<clock, remote, source, row, rowIds>>
<1> DEFINE g == IF remote[s.doc].exists THEN pass[p].gone
                                        ELSE pass[p].gone \cup {s}
           ph == IF pass[p].stale = {s} THEN "delete" ELSE "check"
<1>1. /\ pass' = [pass EXCEPT ![p] = [pass[p] EXCEPT !.stale = @ \ {s},
                                                     !.gone = g, !.phase = ph]]
      /\ pass[p].phase = "check"
      /\ UNCHANGED <<clock, remote, source, row, rowIds>>
  BY DEF CheckDocumentExists, SweepOn
<1> HIDE DEF g, ph
<1>2. /\ Elsewhere(p) /\ Same(p) /\ SameHand(p) /\ pass'[p].phase = ph
      /\ pass'[p].todo = pass[p].todo
      /\ pass'[p].stale = pass[p].stale \ {s} /\ pass'[p].gone = g
  BY <1>1 DEF TypeOK, Pass, Elsewhere, Same, SameHand
<1>. QED BY <1>1, <1>2 DEF g, ph

LEMMA DeleteEffect ==
    ASSUME TypeOK, NEW p \in Passes, DeleteDocuments(p)
    PROVE  /\ Elsewhere(p) /\ Same(p)
           /\ pass[p].phase = "delete" /\ pass'[p].phase = "record"
           /\ SameHand(p)
           /\ pass'[p].todo = pass[p].todo
           /\ pass'[p].stale = pass[p].stale /\ pass'[p].gone = {}
           /\ \A d \in Docs : row'[d] = IF \E s \in pass[p].gone : s.id = row[d].id
                                        THEN NoRow ELSE row[d]
           /\ UNCHANGED <<clock, remote, source, rowIds>>
BY DEF DeleteDocuments, Swept, TypeOK, Pass, Elsewhere, Same, SameHand

LEMMA EndEffect ==
    ASSUME TypeOK, NEW p \in Passes, RecordSyncCompletion(p) \/ FailPass(p)
    PROVE  /\ Elsewhere(p) /\ Running(p)
           /\ pass'[p] = Idle
           /\ source'.id = source.id
           /\ \/ source'.lastSyncedAt = source.lastSyncedAt
              \/ /\ pass[p].phase = "record"
                 /\ source'.lastSyncedAt = pass[p].startedAt
           /\ UNCHANGED <<clock, remote, row, rowIds>>
BY DEF RecordSyncCompletion, FailPass, Running, TypeOK, Elsewhere

LEMMA RemoteEffect ==
    ASSUME TypeOK, NEW d \in Docs,
           EditRemote(d) \/ RemoveRemote(d) \/ AppearRemote(d)
    PROVE  /\ clock' = clock + 1
           /\ \A e \in Docs : \/ /\ remote'[e].exists = remote[e].exists
                                 /\ remote'[e].since = remote[e].since
                              \/ remote'[e].since = clock'
           /\ \A e \in Docs : \/ /\ remote'[e].version = remote[e].version
                                 /\ remote'[e].editedAt = remote[e].editedAt
                              \/ /\ remote'[e].version = clock'
                                 /\ remote'[e].editedAt = clock'
           /\ \A e \in Docs : remote'[e].exists => \/ remote[e].exists
                                                  \/ remote'[e].version # 0
           /\ UNCHANGED <<source, row, rowIds, pass>>
<1>1. CASE EditRemote(d)
  BY <1>1 DEF EditRemote, Tick, TypeOK, RemoteDocument
<1>2. CASE RemoveRemote(d)
  BY <1>2 DEF RemoveRemote, Tick, TypeOK, RemoteDocument
<1>3. CASE AppearRemote(d)
  <2>1. /\ remote'[d].since = clock'
        /\ remote'[d].version = IF remote[d].version = 0
                                THEN clock' ELSE remote[d].version
        /\ remote'[d].editedAt = IF remote[d].version = 0
                                 THEN clock' ELSE remote[d].editedAt
        /\ \A e \in Docs \ {d} : remote'[e] = remote[e]
    BY <1>3 DEF AppearRemote, TypeOK, RemoteDocument
  <2>2. clock' = clock + 1 /\ clock \in Nat /\ UNCHANGED <<source, row, rowIds, pass>>
    BY <1>3 DEF AppearRemote, Tick, TypeOK
  <2>. QED BY <2>1, <2>2
<1>. QED BY <1>1, <1>2, <1>3

-----------------------------------------------------------------------------
(* A step that gives out no id and takes none in hand, and does not go     *)
(* back in time, keeps the invariant.                                      *)
LEMMA PassesAlong ==
    ASSUME TypeOK, TypeOK', SweepInv,
           UNCHANGED <<remote, row, rowIds>>, clock <= clock',
           source'.id = source.id, source'.lastSyncedAt <= clock',
           \A q \in Passes :
               \/ pass'[q] = pass[q]
               \/ /\ pass'[q].startedAt <= clock'
                  /\ pass'[q].phase \in {"fetch", "reindex"} =>
                         /\ pass[q].phase \in {"fetch", "reindex"}
                         /\ pass'[q].rowId = pass[q].rowId
                  /\ pass'[q].stale \subseteq pass[q].stale
                  /\ \/ pass'[q].gone = {}
                     \/ /\ pass'[q].startedAt = pass[q].startedAt
                        /\ \A s \in pass'[q].gone \ pass[q].gone :
                              s \in pass[q].stale /\ ~remote[s.doc].exists
    PROVE  SweepInv'
<1>1. RowIdsAreUnique' /\ NoOrphanRows'
  BY DEF SweepInv, RowIdsAreUnique, NoOrphanRows
<1>2. ListedIdsAreOnce'
  BY DEF SweepInv, ListedIdsAreOnce
<1>3. HeldIdsAreGiven'
  BY DEF SweepInv, HeldIdsAreGiven
<1>4. StartsArePast'
  <2>1. /\ clock \in Nat /\ clock' \in Nat
        /\ \A d \in Docs : row[d].lastSeenAt \in Nat
        /\ \A p \in Passes : pass[p].startedAt \in Nat
    BY DEF TypeOK, Row, Pass
  <2>. QED BY <2>1 DEF SweepInv, StartsArePast
<1>5. GoneWasGone'
  BY DEF SweepInv, GoneWasGone
<1>. QED BY <1>1, <1>2, <1>3, <1>4, <1>5 DEF SweepInv

(* The upsert: the row keeps its id, or gets one that nobody has seen.     *)
LEMMA UpsertKeepsSweepInv ==
    ASSUME TypeOK, TypeOK', SweepInv,
           NEW p \in Passes, NEW ref \in pass[p].todo, ObserveDocument(p, ref)
    PROVE  SweepInv'
<1> DEFINE u == Upserted(p, ref)
<1>1. /\ ref \in DocumentRef /\ ref.doc \in Docs
      /\ clock \in Nat /\ rowIds \in Nat
      /\ \A d \in Docs : row[d].id \in Nat /\ row[d].lastSeenAt \in Nat
  BY DEF TypeOK, Pass, DocumentRef, Row
<1>2. /\ u.lastSeenAt = pass[p].startedAt
      /\ row[ref.doc].id = 0 => u.id = rowIds + 1 /\ u.body = 0
      /\ row[ref.doc].id # 0 => u.id = row[ref.doc].id /\ u.body = row[ref.doc].body
  BY <1>1 DEF Upserted, NoRow, TypeOK, Row
<1>3. /\ row' = [row EXCEPT ![ref.doc] = u]
      /\ rowIds' = IF row[ref.doc].id = 0 THEN rowIds + 1 ELSE rowIds
      /\ source.id # 0 /\ UNCHANGED <<clock, remote, source>>
      /\ Elsewhere(p) /\ Same(p)
      /\ pass'[p].phase \in Between \cup {"fetch"}
      /\ pass'[p].phase = "fetch" => pass'[p].rowId = u.id
      /\ pass'[p].stale = pass[p].stale /\ pass'[p].gone = pass[p].gone
  BY ObserveEffect
<1> HIDE DEF u
<1>4. /\ row'[ref.doc] = u
      /\ \A d \in Docs : d # ref.doc => row'[d] = row[d]
      /\ rowIds <= rowIds'
  BY <1>1, <1>3 DEF TypeOK
<1>5. RowIdsAreUnique'
  <2>1. \A d \in Docs : row[d].id <= rowIds
    BY DEF SweepInv, RowIdsAreUnique
  <2>2. u.id # 0 /\ u.id <= rowIds'
    BY <1>1, <1>2, <1>3, <2>1
  <2>3. \A d \in Docs : d # ref.doc => row[d].id # u.id
    BY <1>1, <1>2, <2>1 DEF SweepInv, RowIdsAreUnique
  <2>4. \A d \in Docs : row'[d].id <= rowIds'
    BY <1>1, <1>3, <1>4, <2>1, <2>2
  <2>5. \A d \in Docs : row'[d].id = 0 => row'[d].body = 0
    BY <1>4, <2>2 DEF SweepInv, RowIdsAreUnique
  <2>6. \A d, e \in Docs : row'[d].id = row'[e].id /\ row'[d].id # 0 => d = e
    BY <1>4, <2>3 DEF SweepInv, RowIdsAreUnique
  <2>. QED BY <2>4, <2>5, <2>6 DEF RowIdsAreUnique
<1>6. ListedIdsAreOnce'
  <2>1. ASSUME NEW q \in Passes, NEW s \in pass'[q].stale \cup pass'[q].gone
        PROVE  /\ s.id # 0 /\ s.id <= rowIds'
               /\ \A d \in Docs : row'[d].id = s.id => d = s.doc
    <3>1. s \in pass[q].stale \cup pass[q].gone
      BY <1>3 DEF Elsewhere
    <3>2. /\ s.id # 0 /\ s.id <= rowIds /\ s.id \in Nat
          /\ \A d \in Docs : row[d].id = s.id => d = s.doc
      BY <3>1 DEF SweepInv, ListedIdsAreOnce, TypeOK, Pass, StaleDocument
    <3>3. u.id = s.id => row[ref.doc].id = s.id
      BY <1>1, <1>2, <3>2
    <3>. QED BY <1>1, <1>3, <1>4, <3>2, <3>3
  <2>. QED BY <2>1 DEF ListedIdsAreOnce
<1>7. HeldIdsAreGiven'
  <2>1. u.id # 0 /\ u.id <= rowIds'
    BY <1>1, <1>2, <1>3 DEF SweepInv, RowIdsAreUnique
  <2>2. ASSUME NEW q \in Passes, pass'[q].phase \in {"fetch", "reindex"}
        PROVE  pass'[q].rowId # 0 /\ pass'[q].rowId <= rowIds'
    <3>1. CASE q = p
      BY <1>3, <2>1, <2>2, <3>1 DEF Between
    <3>2. CASE q # p
      <4>1. pass'[q] = pass[q] /\ pass[q].rowId \in Nat
        BY <1>3, <3>2 DEF Elsewhere, TypeOK, Pass
      <4>2. pass[q].rowId # 0 /\ pass[q].rowId <= rowIds
        BY <2>2, <4>1 DEF SweepInv, HeldIdsAreGiven
      <4>. QED BY <1>1, <1>3, <1>4, <4>1, <4>2
    <3>. QED BY <3>1, <3>2
  <2>. QED BY <2>2 DEF HeldIdsAreGiven
<1>8. StartsArePast'
  BY <1>2, <1>3, <1>4 DEF SweepInv, StartsArePast, Elsewhere, Same
<1>9. GoneWasGone' /\ NoOrphanRows'
  BY <1>3 DEF SweepInv, GoneWasGone, NoOrphanRows, Elsewhere, Same
<1>. QED BY <1>5, <1>6, <1>7, <1>8, <1>9 DEF SweepInv

LEMMA SweepInvStep ==
    ASSUME TypeOK, TypeOK', SweepInv, [Next]_vars PROVE SweepInv'
<1> USE DEF Elsewhere, Same
<1>1. /\ clock \in Nat /\ rowIds \in Nat /\ source.lastSyncedAt <= clock
      /\ \A p \in Passes : pass[p].startedAt <= clock
  BY DEF TypeOK, SweepInv, StartsArePast
<1>2. ASSUME NEW p \in Passes, StartPass(p) PROVE SweepInv'
  <2>1. source.lastSyncedAt \in Nat
    BY DEF TypeOK
  <2>. QED BY <1>1, <1>2, <2>1, StartEffect, PassesAlong
<1>3. ASSUME NEW p \in Passes, ListSomePage(p) PROVE SweepInv'
  BY <1>1, <1>3, ListEffect, PassesAlong DEF Between
<1>4. ASSUME NEW p \in Passes, NEW ref \in pass[p].todo,
             ObserveDocument(p, ref)
      PROVE SweepInv'
  BY <1>4, UpsertKeepsSweepInv
<1>5. ASSUME NEW p \in Passes, NEW d \in Docs, FetchDocument(p, d)
      PROVE SweepInv'
  BY <1>1, <1>5, FetchEffect, PassesAlong
<1>6. ASSUME NEW p \in Passes, NEW d \in Docs, ReindexDocument(p, d)
      PROVE SweepInv'
  <2>1. /\ pass[p].phase = "reindex" /\ row[d].id = pass[p].rowId
        /\ pass'[p].phase \in Between
        /\ pass'[p].stale = pass[p].stale /\ pass'[p].gone = pass[p].gone
        /\ pass'[p].startedAt = pass[p].startedAt
        /\ \A q \in Passes \ {p} : pass'[q] = pass[q]
        /\ UNCHANGED <<clock, remote, source, rowIds>>
    BY <1>6, ReindexEffect
  <2>2. row[d].id # 0
    BY <2>1 DEF SweepInv, HeldIdsAreGiven
  <2>3. \A e \in Docs : /\ row'[e].id = row[e].id
                        /\ row'[e].lastSeenAt = row[e].lastSeenAt
                        /\ row'[e].id = 0 => row'[e].body = row[e].body
    <3>1. ASSUME NEW e \in Docs
          PROVE  /\ row'[e].id = row[e].id
                 /\ row'[e].lastSeenAt = row[e].lastSeenAt
                 /\ e # d => row'[e] = row[e]
      BY <1>6, ReindexEffect
    <3>2. ASSUME NEW e \in Docs, row'[e].id = 0
          PROVE  row'[e].body = row[e].body
      <4>1. e # d
        BY <2>2, <3>1, <3>2
      <4>. QED BY <3>1, <4>1
    <3>. QED BY <3>1, <3>2
  <2>4. \A q \in Passes : /\ pass'[q].startedAt = pass[q].startedAt
                          /\ pass'[q].stale = pass[q].stale
                          /\ pass'[q].gone = pass[q].gone
                          /\ pass'[q] = pass[q] \/ pass'[q].phase \in Between
    BY <2>1
  <2>5. UNCHANGED clock /\ UNCHANGED remote /\ UNCHANGED source /\ UNCHANGED rowIds
    BY <2>1
  <2>6. RowIdsAreUnique'
    BY <2>3, <2>5 DEF SweepInv, RowIdsAreUnique
  <2>7. NoOrphanRows'
    BY <2>3, <2>5 DEF SweepInv, NoOrphanRows
  <2>8. ListedIdsAreOnce'
    BY <2>3, <2>4, <2>5 DEF SweepInv, ListedIdsAreOnce
  <2>9. HeldIdsAreGiven'
    BY <2>4, <2>5 DEF SweepInv, HeldIdsAreGiven, Between
  <2>10. StartsArePast'
    BY <2>3, <2>4, <2>5 DEF SweepInv, StartsArePast
  <2>11. GoneWasGone'
    BY <2>4, <2>5 DEF SweepInv, GoneWasGone
  <2>. QED BY <2>6, <2>7, <2>8, <2>9, <2>10, <2>11 DEF SweepInv
<1>7. ASSUME NEW p \in Passes, ListStaleDocuments(p) PROVE SweepInv'
  <2>1. /\ \A q \in Passes \ {p} : pass'[q] = pass[q]
        /\ pass'[p].startedAt = pass[p].startedAt
        /\ pass'[p].phase \in {"check", "delete"}
        /\ pass'[p].stale = StaleDocuments(p)
        /\ pass'[p].gone = pass[p].gone
        /\ UNCHANGED <<clock, remote, source, row, rowIds>>
    BY <1>7, StaleEffect
  <2>2. \A s \in StaleDocuments(p) :
           /\ s.id # 0 /\ s.id <= rowIds
           /\ \A d \in Docs : row[d].id = s.id => d = s.doc
    BY DEF StaleDocuments, SweepInv, RowIdsAreUnique
  <2>3. ListedIdsAreOnce'
    BY <2>1, <2>2 DEF SweepInv, ListedIdsAreOnce
  <2>4. RowIdsAreUnique' /\ NoOrphanRows' /\ StartsArePast' /\ GoneWasGone'
    BY <2>1 DEF SweepInv, RowIdsAreUnique, NoOrphanRows, StartsArePast,
                GoneWasGone
  <2>5. HeldIdsAreGiven'
    BY <2>1 DEF SweepInv, HeldIdsAreGiven
  <2>. QED BY <2>3, <2>4, <2>5 DEF SweepInv
<1>8. ASSUME NEW p \in Passes, NEW s \in pass[p].stale,
             CheckDocumentExists(p, s)
      PROVE SweepInv'
  <2>1. /\ \A q \in Passes \ {p} : pass'[q] = pass[q]
        /\ pass'[p].startedAt = pass[p].startedAt
        /\ pass'[p].phase \in {"check", "delete"}
        /\ pass'[p].stale \subseteq pass[p].stale
        /\ \A t \in pass'[p].gone \ pass[p].gone :
               t \in pass[p].stale /\ ~remote[t.doc].exists
        /\ UNCHANGED <<clock, remote, source, row, rowIds>>
    <3> HIDE DEF Elsewhere, Same
    <3>1. /\ Elsewhere(p) /\ Same(p)
          /\ pass'[p].phase = IF pass[p].stale = {s} THEN "delete" ELSE "check"
          /\ pass'[p].stale = pass[p].stale \ {s}
          /\ pass'[p].gone = IF remote[s.doc].exists
                             THEN pass[p].gone ELSE pass[p].gone \cup {s}
          /\ UNCHANGED <<clock, remote, source, row, rowIds>>
      BY <1>8, CheckEffect
    <3>. QED BY <3>1 DEF Elsewhere, Same
  <2>. QED BY <1>1, <2>1, PassesAlong
<1>9. ASSUME NEW p \in Passes, DeleteDocuments(p) PROVE SweepInv'
  <2>1. /\ \A q \in Passes \ {p} : pass'[q] = pass[q]
        /\ pass'[p].startedAt = pass[p].startedAt
        /\ pass'[p].phase = "record"
        /\ pass'[p].stale = pass[p].stale /\ pass'[p].gone = {}
        /\ UNCHANGED <<clock, remote, source, rowIds>>
    BY <1>9, DeleteEffect
  <2>2. \A d \in Docs : row'[d] = row[d] \/ row'[d] = NoRow
    BY <1>9, DeleteEffect
  <2>3. NoRow.id = 0 /\ NoRow.body = 0 /\ NoRow.lastSeenAt = 0
    BY DEF NoRow
  <2>4. RowIdsAreUnique' /\ NoOrphanRows'
    BY <1>1, <2>1, <2>2, <2>3 DEF SweepInv, RowIdsAreUnique, NoOrphanRows
  <2>5. ListedIdsAreOnce'
    BY <2>1, <2>2, <2>3 DEF SweepInv, ListedIdsAreOnce
  <2>6. HeldIdsAreGiven' /\ GoneWasGone'
    BY <2>1 DEF SweepInv, HeldIdsAreGiven, GoneWasGone
  <2>7. StartsArePast'
    BY <1>1, <2>1, <2>2, <2>3 DEF SweepInv, StartsArePast
  <2>. QED BY <2>4, <2>5, <2>6, <2>7 DEF SweepInv
<1>10. ASSUME NEW p \in Passes, RecordSyncCompletion(p) \/ FailPass(p)
       PROVE SweepInv'
  <2>1. Idle.phase = "idle" /\ Idle.startedAt = 0 /\ Idle.stale = {} /\ Idle.gone = {}
    BY DEF Idle
  <2>. QED BY <1>1, <1>10, <2>1, EndEffect, PassesAlong
<1>11. ASSUME NEW d \in Docs,
              EditRemote(d) \/ RemoveRemote(d) \/ AppearRemote(d)
       PROVE SweepInv'
  <2>1. /\ clock' = clock + 1
        /\ \A e \in Docs : \/ /\ remote'[e].exists = remote[e].exists
                              /\ remote'[e].since = remote[e].since
                           \/ remote'[e].since = clock'
        /\ UNCHANGED <<source, row, rowIds, pass>>
    BY <1>11, RemoteEffect
  <2>2. /\ \A p \in Passes : pass[p].startedAt \in Nat
        /\ \A e \in Docs : row[e].lastSeenAt \in Nat
        /\ source.lastSyncedAt \in Nat
        /\ \A p \in Passes : \A s \in pass[p].gone : s.doc \in Docs
    BY DEF TypeOK, Pass, Row, StaleDocument
  <2>3. GoneWasGone'
    BY <1>1, <2>1, <2>2 DEF SweepInv, GoneWasGone
  <2>4. StartsArePast'
    BY <1>1, <2>1, <2>2 DEF SweepInv, StartsArePast
  <2>5. RowIdsAreUnique' /\ NoOrphanRows' /\ ListedIdsAreOnce' /\ HeldIdsAreGiven'
    BY <2>1 DEF SweepInv, RowIdsAreUnique, NoOrphanRows, ListedIdsAreOnce,
                HeldIdsAreGiven
  <2>. QED BY <2>3, <2>4, <2>5 DEF SweepInv
<1>12. CASE DeleteSource
  <2>1. /\ UNCHANGED <<clock, remote, rowIds, pass>>
        /\ source'.lastSyncedAt = 0
        /\ \A d \in Docs : row'[d].id = 0 /\ row'[d].body = 0 /\ row'[d].lastSeenAt = 0
    BY <1>12 DEF DeleteSource, DeleteSourceRow, NoRow
  <2>. QED
    BY <1>1, <2>1 DEF SweepInv, RowIdsAreUnique, NoOrphanRows, ListedIdsAreOnce,
                      HeldIdsAreGiven, StartsArePast, GoneWasGone
<1>13. CASE UNCHANGED vars
  BY <1>13 DEF vars, SweepInv, RowIdsAreUnique, NoOrphanRows, ListedIdsAreOnce,
               HeldIdsAreGiven, StartsArePast, GoneWasGone
<1>. QED
  BY <1>2, <1>3, <1>4, <1>5, <1>6, <1>7, <1>8, <1>9, <1>10, <1>11, <1>12,
     <1>13 DEF Next, PassStep

LEMMA SweepInvHolds == Spec => [](TypeOK /\ SweepInv)
<1>1. Init => SweepInv
  BY DEF Init, SweepInv, RowIdsAreUnique, ListedIdsAreOnce, HeldIdsAreGiven,
         StartsArePast, GoneWasGone, NoOrphanRows, NoRow, Idle
<1>2. TypeOK /\ TypeOK' /\ SweepInv /\ [Next]_vars => SweepInv'
  BY SweepInvStep
<1>. QED BY <1>1, <1>2, TypeCorrect, PTL DEF Spec

(* No document outlives its source, although a pass may be in flight when  *)
(* the source is deleted (the foreign key of documents).                   *)
THEOREM RowsNeverOutliveSource == Spec => []NoOrphanRows
<1>1. SweepInv => NoOrphanRows
  BY DEF SweepInv
<1>. QED BY <1>1, SweepInvHolds, PTL

(* deleteDocuments removes no document that the provider served all        *)
(* through the pass: it goes by row id, an id names one document for ever, *)
(* and that document was gone when the pass asked.                         *)
THEOREM SweepAlwaysSparesLiveDocuments == Spec => SweepSparesLiveDocuments
<1>1. ASSUME TypeOK, SweepInv, NEW p \in Passes, NEW d \in Docs,
             DeleteDocuments(p), row[d].id # 0, row'[d].id = 0
      PROVE  ~remote[d].exists \/ pass[p].startedAt < remote[d].since
  <2>1. PICK s \in pass[p].gone : s.id = row[d].id
    BY <1>1, DeleteEffect
  <2>2. d = s.doc
    BY <1>1, <2>1 DEF SweepInv, ListedIdsAreOnce
  <2>. QED BY <1>1, <2>1, <2>2 DEF SweepInv, GoneWasGone
<1>2. TypeOK /\ SweepInv =>
         [\A p \in Passes, d \in Docs :
             DeleteDocuments(p) /\ row[d].id # 0 /\ row'[d].id = 0
                 => \/ ~remote[d].exists
                    \/ pass[p].startedAt < remote[d].since]_vars
  BY <1>1
<1>. QED BY <1>2, SweepInvHolds, PTL DEF SweepSparesLiveDocuments

-----------------------------------------------------------------------------
(* The row of d can be searched, or is about to be: a pass has the body in *)
(* hand and will write it to this very row.                                *)
Live(d) == \/ row[d].body # 0
           \/ \E q \in Passes : /\ pass[q].phase = "reindex"
                               /\ pass[q].current = {d}
                               /\ pass[q].rowId = row[d].id

(* What is gone was last seen by passes that began before it went.         *)
SeenBeforeGone ==
    \A d \in Docs : ~remote[d].exists =>
        /\ row[d].id # 0 => row[d].lastSeenAt < remote[d].since
        /\ \A q \in Passes : \A ref \in pass[q].todo :
              ref.doc = d => pass[q].startedAt < remote[d].since

OneSource ==
    \A p \in Passes :
        pass[p].phase # "idle" /\ source.id # 0 => pass[p].sourceId = source.id

DeletesWhenAsked == \A p \in Passes : pass[p].phase = "delete" => pass[p].stale = {}

GoneBefore(d, t) == ~remote[d].exists /\ remote[d].since < t

(* From the listing of the stale rows on, a pass knows every row that can  *)
(* be searched of a document gone since before the pass began; and once it *)
(* has deleted them there is none.                                         *)
Knows(p) ==
    \A d \in Docs : GoneBefore(d, pass[p].startedAt) /\ Live(d) =>
        /\ pass[p].phase # "record"
        /\ pass[p].phase \in {"check", "delete"} =>
               \E s \in pass[p].stale \cup pass[p].gone : s.id = row[d].id

SweptIsDead == \A d \in Docs : GoneBefore(d, source.lastSyncedAt) => ~Live(d)

SweptInv == /\ SeenBeforeGone /\ OneSource /\ DeletesWhenAsked
            /\ (\A p \in Passes : Knows(p)) /\ SweptIsDead

(* No step makes a row searchable while its document is gone.              *)
LEMMA GoneStaysDead ==
    ASSUME TypeOK, SweepInv, ServesGone = FALSE, [Next]_vars,
           NEW d \in Docs, ~remote[d].exists, Live(d)'
    PROVE  Live(d) /\ row'[d].id = row[d].id
<1>1. /\ \A q \in Passes : pass[q].phase = "reindex" =>
                pass[q].rowId # 0 /\ pass[q].rowId <= rowIds
      /\ rowIds \in Nat /\ row[d].id \in Nat
      /\ \A q \in Passes : pass[q].rowId \in Nat
  BY DEF SweepInv, HeldIdsAreGiven, TypeOK, Pass, Row
(* What is left to do once no pass has taken up a body. *)
<1>2. ASSUME row'[d].id = row[d].id, row'[d].body = row[d].body,
             \A q \in Passes : pass'[q] = pass[q] \/ pass'[q].phase # "reindex"
      PROVE  Live(d)
  BY <1>2 DEF Live
<1>3. ASSUME row'[d].id = 0, row'[d].body = 0,
             \A q \in Passes : pass'[q] = pass[q] \/ pass'[q].phase # "reindex"
      PROVE  FALSE
  BY <1>1, <1>3 DEF Live
<1>4. ASSUME NEW p \in Passes,
             StartPass(p) \/ ListSomePage(p) \/ ListStaleDocuments(p)
      PROVE  Live(d) /\ row'[d].id = row[d].id
  <2>1. /\ row' = row
        /\ \A q \in Passes \ {p} : pass'[q] = pass[q]
        /\ pass'[p].phase # "reindex"
    BY <1>4, StartEffect, ListEffect, StaleEffect DEF Elsewhere, Between
  <2>. QED BY <1>2, <2>1
<1>5. ASSUME NEW p \in Passes, NEW ref \in pass[p].todo,
             ObserveDocument(p, ref)
      PROVE  Live(d) /\ row'[d].id = row[d].id
  <2> DEFINE u == Upserted(p, ref)
  <2>1. ref.doc \in Docs
    BY DEF TypeOK, Pass, DocumentRef
  <2>2. /\ row' = [row EXCEPT ![ref.doc] = u]
        /\ \A q \in Passes \ {p} : pass'[q] = pass[q]
        /\ pass'[p].phase # "reindex"
    BY <1>5, ObserveEffect DEF Elsewhere, Between
  <2>3. /\ row[ref.doc].id = 0 => u.id = rowIds + 1 /\ u.body = 0
        /\ row[ref.doc].id # 0 =>
               u.id = row[ref.doc].id /\ u.body = row[ref.doc].body
    BY <2>1 DEF Upserted, NoRow, TypeOK, Row
  <2> HIDE DEF u
  <2>4. CASE d = ref.doc /\ row[d].id = 0
    <3>1. row'[d].body = 0 /\ row'[d].id = rowIds + 1
      BY <2>1, <2>2, <2>3, <2>4 DEF TypeOK
    <3>2. \A q \in Passes : pass'[q].phase = "reindex" =>
             pass'[q].rowId # row'[d].id
      BY <1>1, <2>2, <3>1
    <3>. QED BY <3>1, <3>2 DEF Live
  <2>5. CASE ~(d = ref.doc /\ row[d].id = 0)
    <3>1. row'[d].id = row[d].id /\ row'[d].body = row[d].body
      BY <2>1, <2>2, <2>3, <2>5 DEF TypeOK
    <3>. QED BY <1>2, <2>2, <3>1
  <2>. QED BY <2>4, <2>5
<1>6. ASSUME NEW p \in Passes, NEW e \in Docs, FetchDocument(p, e)
      PROVE  Live(d) /\ row'[d].id = row[d].id
  <2>1. /\ row' = row /\ e # d /\ pass'[p].current = {e}
        /\ \A q \in Passes \ {p} : pass'[q] = pass[q]
    BY <1>6, FetchEffect DEF Elsewhere, SameHand
  <2>2. pass'[p].current # {d}
    BY <2>1
  <2>. QED BY <2>1, <2>2 DEF Live
<1>7. ASSUME NEW p \in Passes, NEW e \in Docs, ReindexDocument(p, e)
      PROVE  Live(d) /\ row'[d].id = row[d].id
  <2>1. /\ \A q \in Passes \ {p} : pass'[q] = pass[q]
        /\ pass[p].phase = "reindex" /\ pass[p].current = {e}
        /\ pass[p].rowId = row[e].id
        /\ pass'[p].phase # "reindex"
        /\ row'[e].id = row[e].id
        /\ \A f \in Docs \ {e} : row'[f] = row[f]
    BY <1>7, ReindexEffect DEF Elsewhere, Between
  <2>2. CASE e = d
    BY <2>1, <2>2 DEF Live
  <2>3. CASE e # d
    <3>1. row'[d] = row[d]
      BY <2>1, <2>3
    <3>. QED BY <1>2, <2>1, <3>1
  <2>. QED BY <2>2, <2>3
<1>8. ASSUME NEW p \in Passes, NEW s \in pass[p].stale,
             CheckDocumentExists(p, s)
      PROVE  Live(d) /\ row'[d].id = row[d].id
  <2>1. /\ row' = row
        /\ \A q \in Passes \ {p} : pass'[q] = pass[q]
        /\ pass'[p].phase # "reindex"
    BY <1>8, CheckEffect DEF Elsewhere
  <2>. QED BY <1>2, <2>1
<1>9. ASSUME NEW p \in Passes, DeleteDocuments(p)
      PROVE  Live(d) /\ row'[d].id = row[d].id
  <2>1. /\ row'[d] = NoRow \/ row'[d] = row[d]
        /\ \A q \in Passes \ {p} : pass'[q] = pass[q]
        /\ pass'[p].phase # "reindex"
    BY <1>9, DeleteEffect DEF Elsewhere
  <2>2. NoRow.id = 0 /\ NoRow.body = 0
    BY DEF NoRow
  <2>. QED BY <1>2, <1>3, <2>1, <2>2
<1>10. ASSUME NEW p \in Passes, RecordSyncCompletion(p) \/ FailPass(p)
       PROVE  Live(d) /\ row'[d].id = row[d].id
  <2>1. /\ row' = row
        /\ \A q \in Passes \ {p} : pass'[q] = pass[q]
        /\ pass'[p].phase # "reindex"
    BY <1>10, EndEffect DEF Elsewhere, Idle
  <2>. QED BY <1>2, <2>1
<1>11. ASSUME NEW e \in Docs,
              EditRemote(e) \/ RemoveRemote(e) \/ AppearRemote(e)
       PROVE  Live(d) /\ row'[d].id = row[d].id
  BY <1>2, <1>11, RemoteEffect
<1>12. CASE DeleteSource
  <2>1. pass' = pass /\ row'[d].id = 0 /\ row'[d].body = 0
    BY <1>12 DEF DeleteSource, DeleteSourceRow, NoRow
  <2>. QED BY <1>3, <2>1
<1>13. CASE UNCHANGED vars
  BY <1>2, <1>13 DEF vars
<1>. QED
  BY <1>4, <1>5, <1>6, <1>7, <1>8, <1>9, <1>10, <1>11, <1>12, <1>13
     DEF Next, PassStep

(* A document that is gone, and was before some instant in the past, was   *)
(* gone at the same time before this step.                                 *)
LEMMA GoneSince ==
    ASSUME TypeOK, [Next]_vars, NEW d \in Docs, NEW t \in Nat, t <= clock,
           ~remote'[d].exists, remote'[d].since < t
    PROVE  GoneBefore(d, t)
<1>1. clock \in Nat
  BY DEF TypeOK
<1>2. \/ /\ remote'[d].exists = remote[d].exists
         /\ remote'[d].since = remote[d].since
      \/ remote'[d].since = clock + 1
  <2>1. CASE remote' = remote
    BY <2>1
  <2>2. CASE \E e \in Docs : EditRemote(e) \/ RemoveRemote(e) \/ AppearRemote(e)
    BY <2>2, RemoteEffect
  <2>3. ASSUME NEW p \in Passes, StartPass(p) \/ ListSomePage(p) \/ PassStep(p)
        PROVE  remote' = remote
    BY <2>3, StartEffect, ListEffect, ObserveEffect, FetchEffect, ReindexEffect,
       StaleEffect, CheckEffect, DeleteEffect, EndEffect DEF PassStep
  <2>4. CASE DeleteSource \/ UNCHANGED vars
    BY <2>4 DEF DeleteSource, vars
  <2>. QED BY <2>1, <2>2, <2>3, <2>4 DEF Next
<1>. QED BY <1>1, <1>2 DEF GoneBefore

(* A pass that does not step knows what it knew.                           *)
LEMMA OthersKnow ==
    ASSUME TypeOK, SweepInv, ServesGone = FALSE, [Next]_vars,
           NEW q \in Passes, pass'[q] = pass[q], Knows(q)
    PROVE  Knows(q)'
<1>1. pass[q].startedAt \in Nat /\ pass[q].startedAt <= clock
  BY DEF TypeOK, Pass, SweepInv, StartsArePast
<1>2. ASSUME NEW d \in Docs, (GoneBefore(d, pass[q].startedAt) /\ Live(d))'
      PROVE  /\ pass[q].phase # "record"
             /\ pass[q].phase \in {"check", "delete"} =>
                    \E s \in pass[q].stale \cup pass[q].gone : s.id = row'[d].id
  <2>1. ~remote'[d].exists /\ remote'[d].since < pass[q].startedAt /\ Live(d)'
    BY <1>2 DEF GoneBefore
  <2>2. GoneBefore(d, pass[q].startedAt)
    BY <1>1, <2>1, GoneSince
  <2>3. Live(d) /\ row'[d].id = row[d].id
    BY <2>1, <2>2, GoneStaysDead DEF GoneBefore
  <2>. QED BY <2>2, <2>3 DEF Knows
<1>. QED BY <1>2 DEF Knows, GoneBefore

LEMMA SeenStep ==
    ASSUME TypeOK, SweepInv, SeenBeforeGone, [Next]_vars PROVE SeenBeforeGone'
<1>1. /\ clock \in Nat
      /\ \A p \in Passes : pass[p].startedAt \in Nat /\ pass[p].startedAt <= clock
      /\ \A d \in Docs : row[d].lastSeenAt \in Nat /\ row[d].lastSeenAt <= clock
      /\ \A p \in Passes : \A ref \in pass[p].todo : ref.doc \in Docs
  BY DEF TypeOK, Pass, Row, DocumentRef, SweepInv, StartsArePast
(* Most steps put nothing new in the hands of a pass. *)
<1>2. ASSUME UNCHANGED remote,
             \A d \in Docs : row'[d].id = 0 \/
                 (row'[d].id = row[d].id /\ row'[d].lastSeenAt = row[d].lastSeenAt),
             \A q \in Passes :
                 \/ pass'[q].todo = {}
                 \/ /\ pass'[q].todo \subseteq pass[q].todo
                    /\ pass'[q].startedAt = pass[q].startedAt
      PROVE  SeenBeforeGone'
  BY <1>2 DEF SeenBeforeGone
<1>3. ASSUME NEW p \in Passes, StartPass(p) PROVE SeenBeforeGone'
  BY <1>2, <1>3, StartEffect DEF Elsewhere
<1>4. ASSUME NEW p \in Passes, ListSomePage(p) PROVE SeenBeforeGone'
  <2>1. /\ \A q \in Passes \ {p} : pass'[q] = pass[q]
        /\ \A ref \in pass'[p].todo : remote[ref.doc].exists
        /\ UNCHANGED <<remote, row>>
    BY <1>4, ListEffect DEF Elsewhere
  <2>. QED BY <2>1 DEF SeenBeforeGone
<1>5. ASSUME NEW p \in Passes, NEW ref \in pass[p].todo,
             ObserveDocument(p, ref)
      PROVE SeenBeforeGone'
  <2>1. /\ \A q \in Passes \ {p} : pass'[q] = pass[q]
        /\ pass'[p].todo \subseteq pass[p].todo
        /\ pass'[p].startedAt = pass[p].startedAt
        /\ row' = [row EXCEPT ![ref.doc] = Upserted(p, ref)]
        /\ UNCHANGED remote
    BY <1>5, ObserveEffect DEF Elsewhere, Same
  <2>2. Upserted(p, ref).lastSeenAt = pass[p].startedAt
    BY <1>1 DEF Upserted, NoRow, TypeOK, Row
  <2>3. \A d \in Docs : row'[d] = row[d] \/
           (d = ref.doc /\ row'[d].lastSeenAt = pass[p].startedAt)
    BY <1>1, <2>1, <2>2 DEF TypeOK
  <2>. QED BY <2>1, <2>3 DEF SeenBeforeGone
<1>6. ASSUME NEW p \in Passes, NEW d \in Docs,
             FetchDocument(p, d) \/ ReindexDocument(p, d)
      PROVE SeenBeforeGone'
  BY <1>2, <1>6, FetchEffect, ReindexEffect DEF Elsewhere, Same
<1>7. ASSUME NEW p \in Passes,
             ListStaleDocuments(p) \/ \E s \in pass[p].stale : CheckDocumentExists(p, s)
      PROVE SeenBeforeGone'
  BY <1>2, <1>7, StaleEffect, CheckEffect DEF Elsewhere, Same
<1>8. ASSUME NEW p \in Passes, DeleteDocuments(p) PROVE SeenBeforeGone'
  <2>1. NoRow.id = 0
    BY DEF NoRow
  <2>. QED BY <1>2, <1>8, <2>1, DeleteEffect DEF Elsewhere, Same
<1>9. ASSUME NEW p \in Passes, RecordSyncCompletion(p) \/ FailPass(p)
      PROVE SeenBeforeGone'
  <2>1. Idle.todo = {}
    BY DEF Idle
  <2>. QED BY <1>2, <1>9, <2>1, EndEffect DEF Elsewhere
<1>10. ASSUME NEW d \in Docs,
              EditRemote(d) \/ RemoveRemote(d) \/ AppearRemote(d)
       PROVE SeenBeforeGone'
  <2>1. /\ clock' = clock + 1
        /\ \A e \in Docs : \/ /\ remote'[e].exists = remote[e].exists
                              /\ remote'[e].since = remote[e].since
                           \/ remote'[e].since = clock'
        /\ UNCHANGED <<row, pass>>
    BY <1>10, RemoteEffect
  <2>. QED BY <1>1, <2>1 DEF SeenBeforeGone
<1>11. CASE DeleteSource
  BY <1>2, <1>11 DEF DeleteSource, DeleteSourceRow, NoRow
<1>12. CASE UNCHANGED vars
  BY <1>2, <1>12 DEF vars
<1>. QED
  BY <1>3, <1>4, <1>5, <1>6, <1>7, <1>8, <1>9, <1>10, <1>11, <1>12
     DEF Next, PassStep

LEMMA OneSourceStep ==
    ASSUME TypeOK, OneSource, DeletesWhenAsked, [Next]_vars
    PROVE  OneSource' /\ DeletesWhenAsked'
<1> USE DEF OneSource, DeletesWhenAsked
<1>1. ASSUME NEW p \in Passes, StartPass(p) PROVE OneSource' /\ DeletesWhenAsked'
  BY <1>1, StartEffect DEF Elsewhere
<1>2. ASSUME NEW p \in Passes, Elsewhere(p), Same(p), source'.id = source.id,
             pass'[p].phase = "delete" => pass'[p].stale = {}
      PROVE OneSource' /\ DeletesWhenAsked'
  BY <1>2 DEF Elsewhere, Same
<1>3. ASSUME NEW p \in Passes, ListSomePage(p) PROVE OneSource' /\ DeletesWhenAsked'
  BY <1>2, <1>3, ListEffect DEF Between
<1>4. ASSUME NEW p \in Passes, NEW ref \in pass[p].todo,
             ObserveDocument(p, ref)
      PROVE OneSource' /\ DeletesWhenAsked'
  <2>1. /\ Elsewhere(p) /\ Same(p) /\ source' = source
        /\ pass'[p].phase \in Between \cup {"fetch"}
    BY <1>4, ObserveEffect
  <2>. QED BY <1>2, <2>1 DEF Between
<1>5. ASSUME NEW p \in Passes, NEW d \in Docs,
             FetchDocument(p, d) \/ ReindexDocument(p, d)
      PROVE OneSource' /\ DeletesWhenAsked'
  BY <1>2, <1>5, FetchEffect, ReindexEffect DEF Between
<1>6. ASSUME NEW p \in Passes, ListStaleDocuments(p)
      PROVE OneSource' /\ DeletesWhenAsked'
  BY <1>2, <1>6, StaleEffect
<1>7. ASSUME NEW p \in Passes, NEW s \in pass[p].stale, CheckDocumentExists(p, s)
      PROVE OneSource' /\ DeletesWhenAsked'
  BY <1>2, <1>7, CheckEffect
<1>8. ASSUME NEW p \in Passes, DeleteDocuments(p)
      PROVE OneSource' /\ DeletesWhenAsked'
  BY <1>2, <1>8, DeleteEffect
<1>9. ASSUME NEW p \in Passes, RecordSyncCompletion(p) \/ FailPass(p)
      PROVE OneSource' /\ DeletesWhenAsked'
  BY <1>9, EndEffect DEF Elsewhere, Idle
<1>10. CASE \E d \in Docs : EditRemote(d) \/ RemoveRemote(d) \/ AppearRemote(d)
  BY <1>10, RemoteEffect
<1>11. CASE DeleteSource \/ UNCHANGED vars
  BY <1>11 DEF DeleteSource, DeleteSourceRow, vars
<1>. QED
  BY <1>1, <1>3, <1>4, <1>5, <1>6, <1>7, <1>8, <1>9, <1>10, <1>11
     DEF Next, PassStep

(* The sweep: the listing of the stale rows finds every row that can be    *)
(* searched of a document gone since before the pass began, because those  *)
(* were last seen before it; the check keeps it, because the document is   *)
(* gone; the delete removes it.                                            *)
LEMMA KnowsStep ==
    ASSUME TypeOK, TypeOK', SweepInv, SweptInv, ServesGone = FALSE, [Next]_vars,
           NEW p \in Passes
    PROVE  Knows(p)'
<1>1. CASE pass'[p] = pass[p]
  BY <1>1, OthersKnow DEF SweptInv
<1>2. ASSUME pass'[p].phase \notin {"check", "delete", "record"}
      PROVE  Knows(p)'
  BY <1>2 DEF Knows
<1>3. pass[p].startedAt \in Nat /\ pass[p].startedAt <= clock
  BY DEF TypeOK, Pass, SweepInv, StartsArePast
(* Of a document gone before the pass began, only what could be searched   *)
(* before this step can be after it.                                       *)
<1>4. ASSUME pass'[p].startedAt = pass[p].startedAt, NEW d \in Docs,
             (GoneBefore(d, pass[p].startedAt) /\ Live(d))'
      PROVE  /\ GoneBefore(d, pass[p].startedAt) /\ Live(d)
             /\ row'[d].id = row[d].id
  <2>1. ~remote'[d].exists /\ remote'[d].since < pass[p].startedAt /\ Live(d)'
    BY <1>4 DEF GoneBefore
  <2>2. GoneBefore(d, pass[p].startedAt)
    BY <1>3, <2>1, GoneSince
  <2>. QED BY <2>1, <2>2, GoneStaysDead DEF GoneBefore
<1>5. CASE ListStaleDocuments(p)
  <2>1. /\ Same(p) /\ pass'[p].stale = StaleDocuments(p)
        /\ pass'[p].phase # "record"
    BY <1>5, StaleEffect
  <2>2. ASSUME NEW d \in Docs, (GoneBefore(d, pass[p].startedAt) /\ Live(d))'
        PROVE  \E s \in pass'[p].stale : s.id = row'[d].id
    <3>1. GoneBefore(d, pass[p].startedAt) /\ Live(d) /\ row'[d].id = row[d].id
      BY <1>4, <2>1, <2>2 DEF Same
    <3>2. row[d].id # 0
      BY <3>1 DEF Live, SweepInv, RowIdsAreUnique, HeldIdsAreGiven
    <3>3. SourceHeld(p)
      BY <2>1, <3>2 DEF Same, SweepInv, NoOrphanRows, SweptInv, OneSource, SourceHeld
    <3>4. row[d].lastSeenAt < pass[p].startedAt
      <4>1. row[d].lastSeenAt < remote[d].since
        BY <3>1, <3>2 DEF SweptInv, SeenBeforeGone, GoneBefore
      <4>2. row[d].lastSeenAt \in Nat /\ remote[d].since \in Nat
        BY DEF TypeOK, Row, RemoteDocument
      <4>. QED BY <1>3, <3>1, <4>1, <4>2 DEF GoneBefore
    <3>5. [id |-> row[d].id, doc |-> d] \in StaleDocuments(p)
      BY <3>2, <3>3, <3>4 DEF StaleDocuments
    <3>. QED BY <2>1, <3>1, <3>5
  <2>3. \A d \in Docs : (GoneBefore(d, pass[p].startedAt) /\ Live(d))' =>
            \E s \in pass'[p].stale : s.id = row'[d].id
    BY <2>2
  <2>. QED BY <2>1, <2>3 DEF Knows
<1>6. ASSUME NEW s \in pass[p].stale, CheckDocumentExists(p, s)
      PROVE  Knows(p)'
  <2>1. /\ Same(p) /\ pass[p].phase = "check"
        /\ pass'[p].phase # "record"
        /\ pass'[p].stale = pass[p].stale \ {s}
        /\ pass'[p].gone = IF remote[s.doc].exists
                           THEN pass[p].gone ELSE pass[p].gone \cup {s}
    BY <1>6, CheckEffect
  <2>2. ASSUME NEW d \in Docs, (GoneBefore(d, pass[p].startedAt) /\ Live(d))'
        PROVE  \E r \in pass'[p].stale \cup pass'[p].gone : r.id = row'[d].id
    <3>1. GoneBefore(d, pass[p].startedAt) /\ Live(d) /\ row'[d].id = row[d].id
      BY <1>4, <2>1, <2>2 DEF Same
    <3>2. PICK r \in pass[p].stale \cup pass[p].gone : r.id = row[d].id
      BY <2>1, <3>1 DEF SweptInv, Knows
    <3>3. r.doc = d
      BY <3>2 DEF SweepInv, ListedIdsAreOnce
    <3>4. ~remote[r.doc].exists
      BY <3>1, <3>3 DEF GoneBefore
    <3>5. r \in pass'[p].stale \cup pass'[p].gone
      BY <2>1, <3>2, <3>4
    <3>. QED BY <3>1, <3>2, <3>5
  <2>3. \A d \in Docs : (GoneBefore(d, pass[p].startedAt) /\ Live(d))' =>
            \E r \in pass'[p].stale \cup pass'[p].gone : r.id = row'[d].id
    BY <2>2
  <2>. QED BY <2>1, <2>3 DEF Knows
<1>7. CASE DeleteDocuments(p)
  <2>1. /\ Same(p) /\ pass[p].phase = "delete" /\ pass'[p].phase = "record"
        /\ \A d \in Docs : row'[d] = IF \E s \in pass[p].gone : s.id = row[d].id
                                     THEN NoRow ELSE row[d]
    BY <1>7, DeleteEffect
  <2>2. ASSUME NEW d \in Docs, (GoneBefore(d, pass[p].startedAt) /\ Live(d))'
        PROVE  FALSE
    <3>1. GoneBefore(d, pass[p].startedAt) /\ Live(d) /\ row'[d].id = row[d].id
      BY <1>4, <2>1, <2>2 DEF Same
    <3>2. PICK s \in pass[p].stale \cup pass[p].gone : s.id = row[d].id
      BY <2>1, <3>1 DEF SweptInv, Knows
    <3>3. s \in pass[p].gone /\ s.id # 0
      BY <2>1, <3>2 DEF SweptInv, DeletesWhenAsked, SweepInv, ListedIdsAreOnce
    <3>4. row'[d].id = 0
      BY <2>1, <3>2, <3>3 DEF NoRow
    <3>. QED BY <3>1, <3>2, <3>3, <3>4
  <2>3. \A d \in Docs : ~(GoneBefore(d, pass[p].startedAt) /\ Live(d))'
    BY <2>2
  <2>. QED BY <2>3 DEF Knows
<1>8. ASSUME NEW q \in Passes, q # p,
             StartPass(q) \/ ListSomePage(q) \/ PassStep(q)
      PROVE  pass'[p] = pass[p]
  <2>1. Elsewhere(q)
    BY <1>8, StartEffect, ListEffect, ObserveEffect, FetchEffect, ReindexEffect,
       StaleEffect, CheckEffect, DeleteEffect, EndEffect DEF PassStep
  <2>. QED BY <1>8, <2>1 DEF Elsewhere
<1>9. ASSUME StartPass(p) \/ ListSomePage(p) \/ PassStep(p),
             ~ListStaleDocuments(p), ~DeleteDocuments(p),
             \A s \in pass[p].stale : ~CheckDocumentExists(p, s)
      PROVE  pass'[p].phase \notin {"check", "delete", "record"}
  BY <1>9, StartEffect, ListEffect, ObserveEffect, FetchEffect, ReindexEffect,
     EndEffect DEF PassStep, Between, Idle
<1>10. ASSUME \A q \in Passes : ~(StartPass(q) \/ ListSomePage(q) \/ PassStep(q))
       PROVE  pass' = pass
  BY <1>10, RemoteEffect DEF Next, DeleteSource, vars
<1>. QED BY <1>1, <1>2, <1>5, <1>6, <1>7, <1>8, <1>9, <1>10

LEMMA DeadStep ==
    ASSUME TypeOK, SweepInv, SweptInv, ServesGone = FALSE, [Next]_vars
    PROVE  SweptIsDead'
<1>1. /\ source.lastSyncedAt \in Nat /\ source.lastSyncedAt <= clock
      /\ \A p \in Passes : pass[p].startedAt \in Nat /\ pass[p].startedAt <= clock
  BY DEF TypeOK, Pass, SweepInv, StartsArePast
<1>2. \/ source'.lastSyncedAt = source.lastSyncedAt
      \/ source'.lastSyncedAt = 0
      \/ \E p \in Passes : /\ pass[p].phase = "record"
                           /\ source'.lastSyncedAt = pass[p].startedAt
  <2>1. ASSUME NEW p \in Passes, StartPass(p) \/ ListSomePage(p) \/ PassStep(p)
        PROVE  \/ source'.lastSyncedAt = source.lastSyncedAt
               \/ /\ pass[p].phase = "record"
                  /\ source'.lastSyncedAt = pass[p].startedAt
    BY <2>1, StartEffect, ListEffect, ObserveEffect, FetchEffect, ReindexEffect,
       StaleEffect, CheckEffect, DeleteEffect, EndEffect DEF PassStep
  <2>2. CASE \E d \in Docs : EditRemote(d) \/ RemoveRemote(d) \/ AppearRemote(d)
    BY <2>2, RemoteEffect
  <2>3. CASE DeleteSource \/ UNCHANGED vars
    BY <2>3 DEF DeleteSource, DeleteSourceRow, vars
  <2>. QED BY <2>1, <2>2, <2>3 DEF Next
<1>3. PICK t \in Nat : /\ t <= clock /\ source'.lastSyncedAt = t
                       /\ \A d \in Docs : GoneBefore(d, t) => ~Live(d)
  <2>1. CASE source'.lastSyncedAt = source.lastSyncedAt
    BY <1>1, <2>1 DEF SweptInv, SweptIsDead
  <2>2. CASE source'.lastSyncedAt = 0
    <3>1. \A d \in Docs : remote[d].since \in Nat
      BY DEF TypeOK, RemoteDocument
    <3>2. \A d \in Docs : ~GoneBefore(d, 0)
      BY <3>1 DEF GoneBefore
    <3>. QED BY <2>2, <3>2 DEF TypeOK
  <2>3. ASSUME NEW p \in Passes, pass[p].phase = "record",
               source'.lastSyncedAt = pass[p].startedAt
        PROVE  \A d \in Docs : GoneBefore(d, pass[p].startedAt) => ~Live(d)
    BY <2>3 DEF SweptInv, Knows
  <2>. QED BY <1>1, <1>2, <2>1, <2>2, <2>3
<1>4. ASSUME NEW d \in Docs, ~remote'[d].exists, remote'[d].since < t, Live(d)'
      PROVE  FALSE
  <2>1. GoneBefore(d, t)
    BY <1>3, <1>4, GoneSince
  <2>. QED BY <1>3, <1>4, <2>1, GoneStaysDead DEF GoneBefore
<1>. QED BY <1>3, <1>4 DEF SweptIsDead, GoneBefore

(* Where a document that is gone cannot be fetched, nothing of what was    *)
(* gone before lastSyncedAt can be searched, however many older passes are *)
(* still writing.                                                          *)
THEOREM SweptAlwaysUnsearchable ==
    ServesGone = FALSE /\ Spec => []SweptStaysUnsearchable
<1>1. Init => SweptInv
  <2> SUFFICES ASSUME Init PROVE SweptInv
    OBVIOUS
  <2>1. /\ \A p \in Passes : /\ pass[p].phase = "idle" /\ pass[p].todo = {}
                             /\ pass[p].startedAt = 0
        /\ \A d \in Docs : /\ row[d].id = 0 /\ row[d].body = 0
                           /\ remote[d].since = 0
        /\ source.lastSyncedAt = 0
    BY DEF Init, Idle, NoRow
  <2>. QED
    BY <2>1 DEF SweptInv, SeenBeforeGone, OneSource, DeletesWhenAsked, Knows,
                GoneBefore, SweptIsDead
<1>2. SUFFICES ASSUME ServesGone = FALSE PROVE Spec => []SweptStaysUnsearchable
  OBVIOUS
<1>4. TypeOK /\ TypeOK' /\ SweepInv /\ SweptInv /\ [Next]_vars => SweptInv'
  BY <1>2, SeenStep, OneSourceStep, KnowsStep, DeadStep DEF SweptInv
<1>3. SweepInv /\ SweptInv => SweptStaysUnsearchable
  BY DEF SweepInv, SweptInv, SweptIsDead, GoneBefore, Live, SweptStaysUnsearchable
<1>. QED BY <1>1, <1>3, <1>4, SweepInvHolds, PTL DEF Spec
-----------------------------------------------------------------------------
(* The invariant behind CompletedPassIsFresh.  What a pass may index has a *)
(* version, and a row that was indexed has a body; the edit time of a page *)
(* in hand is right or older than an edit since the pass began; and of     *)
(* what a pass that runs alone has seen and left behind, all that did not  *)
(* change since it began is fresh.                                         *)
ServedHasVersion ==
    /\ \A d \in Docs : remote[d].exists => remote[d].version # 0
    /\ \A p \in Passes :
          /\ \A ref \in pass[p].todo : remote[ref.doc].version # 0
          /\ \A d \in pass[p].current : remote[d].version # 0

IndexedHasBody ==
    /\ \A d \in Docs : row[d].lastIndexedAt # 0 => row[d].body # 0
    /\ \A p \in Passes : pass[p].phase = "reindex" => pass[p].body # 0

PagesAreDated ==
    \A p \in Passes : \A ref \in pass[p].todo :
        \/ ref.externalUpdatedAt = remote[ref.doc].editedAt
        \/ pass[p].startedAt < remote[ref.doc].editedAt

HandsAreEmptied ==
    \A p \in Passes :
        pass[p].current # {} => pass[p].phase \in {"fetch", "reindex"}

HandInv == /\ ServedHasVersion /\ IndexedHasBody
           /\ PagesAreDated /\ HandsAreEmptied

AloneIsAlone ==
    \A p \in alone : /\ p \in Passes /\ Running(p)
                     /\ \A q \in Passes \ {p} : ~Running(q)

Fresh(p, d) ==
    /\ row[d].id # 0
    /\ d \in pass[p].current \/ row[d].body = remote[d].version

SeenIsFresh ==
    \A p \in alone : SourceHeld(p) =>
        \A d \in pass[p].seen \ Attachments :
            Settled(d, pass[p].startedAt) => Fresh(p, d)

LEMMA HandInvStep ==
    ASSUME TypeOK, TypeOK', HandInv, IndexInv, [Next]_vars PROVE HandInv'
<1> USE DEF HandInv
(* A step that puts nothing into a hand.                                   *)
<1>1. ASSUME UNCHANGED remote,
             \A d \in Docs : row'[d].lastIndexedAt # 0 => row'[d].body # 0,
             \A q \in Passes :
                \/ pass'[q] = pass[q]
                \/ /\ pass'[q].phase # "reindex" /\ pass'[q].current = {}
                   /\ \/ pass'[q].todo = {}
                      \/ /\ pass'[q].todo \subseteq pass[q].todo
                         /\ pass'[q].startedAt = pass[q].startedAt
      PROVE  HandInv'
  <2>1. ServedHasVersion' /\ IndexedHasBody'
    BY <1>1 DEF ServedHasVersion, IndexedHasBody
  <2>2. PagesAreDated' /\ HandsAreEmptied'
    BY <1>1 DEF PagesAreDated, HandsAreEmptied
  <2>. QED BY <2>1, <2>2
<1>2. \A d \in Docs : row[d].lastIndexedAt # 0 => row[d].body # 0
  BY DEF IndexedHasBody
<1>3. ASSUME NEW p \in Passes, StartPass(p) PROVE HandInv'
  BY <1>1, <1>2, <1>3, StartEffect DEF Elsewhere
<1>4. ASSUME NEW p \in Passes, pass[p].phase \notin {"fetch", "reindex"}
      PROVE  pass[p].current = {}
  BY <1>4 DEF HandsAreEmptied
<1>5. ASSUME NEW p \in Passes, ListSomePage(p) PROVE HandInv'
  <2>1. /\ Elsewhere(p) /\ Same(p) /\ pass[p].phase = "list"
        /\ pass'[p].phase \in Between /\ SameHand(p)
        /\ \A ref \in pass'[p].todo :
              /\ remote[ref.doc].exists
              /\ ref.externalUpdatedAt = remote[ref.doc].editedAt
        /\ UNCHANGED <<remote, row>>
    BY <1>5, ListEffect
  <2>2. pass'[p].current = {} /\ pass'[p].phase # "reindex"
    BY <1>4, <2>1 DEF SameHand, Between
  <2>3. \A ref \in pass'[p].todo : ref.doc \in Docs
    BY DEF TypeOK, Pass, DocumentRef
  <2>4. \A q \in Passes : q # p => pass'[q] = pass[q]
    BY <2>1 DEF Elsewhere
  <2>5. ServedHasVersion' /\ IndexedHasBody'
    BY <1>2, <2>1, <2>2, <2>3, <2>4 DEF ServedHasVersion, IndexedHasBody
  <2>6. PagesAreDated' /\ HandsAreEmptied'
    BY <2>1, <2>2, <2>4 DEF PagesAreDated, HandsAreEmptied
  <2>. QED BY <2>5, <2>6
<1>6. ASSUME NEW p \in Passes, NEW ref \in pass[p].todo,
             ObserveDocument(p, ref)
      PROVE HandInv'
  <2>1. /\ Elsewhere(p) /\ Same(p) /\ pass[p].phase = "observe"
        /\ pass'[p].phase \in Between \cup {"fetch"}
        /\ pass'[p].phase # "fetch" => pass'[p].current = pass[p].current
        /\ pass'[p].phase = "fetch" => pass'[p].current = {ref.doc}
        /\ pass'[p].todo \subseteq pass[p].todo
        /\ row' = [row EXCEPT ![ref.doc] = Upserted(p, ref)]
        /\ UNCHANGED remote
    BY <1>6, ObserveEffect
  <2>2. ref \in DocumentRef /\ ref.doc \in Docs
    BY DEF TypeOK, Pass, DocumentRef
  <2>3. \A q \in Passes : q # p => pass'[q] = pass[q]
    BY <2>1 DEF Elsewhere
  <2>4. \A d \in Docs : row'[d].lastIndexedAt # 0 => row'[d].body # 0
    BY <1>2, <2>1, <2>2, UpsertedKeepsIndex DEF TypeOK
  <2>5. pass'[p].phase # "fetch" => pass'[p].current = {}
    BY <1>4, <2>1
  <2>6. pass'[p].phase # "reindex" /\ pass'[p].startedAt = pass[p].startedAt
    BY <2>1 DEF Between, Same
  <2>7. ServedHasVersion' /\ IndexedHasBody'
    BY <2>1, <2>3, <2>4, <2>5, <2>6 DEF ServedHasVersion, IndexedHasBody
  <2>8. PagesAreDated' /\ HandsAreEmptied'
    BY <2>1, <2>3, <2>5, <2>6 DEF PagesAreDated, HandsAreEmptied
  <2>. QED BY <2>7, <2>8
<1>7. ASSUME NEW p \in Passes, NEW d \in Docs, FetchDocument(p, d)
      PROVE HandInv'
  <2>1. /\ \A q \in Passes : q # p => pass'[q] = pass[q]
        /\ pass'[p].startedAt = pass[p].startedAt
        /\ pass'[p].todo = pass[p].todo /\ pass'[p].phase = "reindex"
        /\ pass[p].current = {d} /\ pass'[p].current = {d}
        /\ pass'[p].body = remote[d].version
        /\ UNCHANGED <<remote, row>>
    BY <1>7, FetchEffect DEF Elsewhere, Same, SameHand
  <2>2. remote[d].version # 0
    BY <2>1 DEF ServedHasVersion
  <2>3. ServedHasVersion' /\ IndexedHasBody'
    BY <2>1, <2>2 DEF ServedHasVersion, IndexedHasBody
  <2>4. PagesAreDated' /\ HandsAreEmptied'
    BY <2>1 DEF PagesAreDated, HandsAreEmptied
  <2>. QED BY <2>3, <2>4
<1>8. ASSUME NEW p \in Passes, NEW d \in Docs, ReindexDocument(p, d)
      PROVE HandInv'
  <2>1. /\ \A q \in Passes : q # p => pass'[q] = pass[q]
        /\ pass'[p].startedAt = pass[p].startedAt
        /\ pass'[p].todo = pass[p].todo /\ pass'[p].phase # "reindex"
        /\ pass[p].phase = "reindex" /\ pass'[p].current = {}
        /\ row'[d].body = pass[p].body
        /\ \A e \in Docs : e # d => row'[e] = row[e]
        /\ UNCHANGED remote
    BY <1>8, ReindexEffect DEF Elsewhere, Same, Between
  <2>2. pass[p].body # 0
    BY <2>1 DEF IndexedHasBody
  <2>. QED BY <1>1, <1>2, <2>1, <2>2
<1>9. ASSUME NEW p \in Passes,
             \/ ListStaleDocuments(p)
             \/ \E s \in pass[p].stale : CheckDocumentExists(p, s)
             \/ DeleteDocuments(p)
      PROVE HandInv'
  <2>1. /\ Elsewhere(p) /\ Same(p) /\ SameHand(p)
        /\ pass[p].phase \in {"sweep", "check", "delete"}
        /\ pass'[p].phase \in {"check", "delete", "record"}
        /\ pass'[p].todo = pass[p].todo
        /\ \A d \in Docs : row'[d] = row[d] \/ row'[d] = NoRow
        /\ UNCHANGED remote
    BY <1>9, StaleEffect, CheckEffect, DeleteEffect
  <2>2. pass'[p].current = {} /\ pass'[p].phase # "reindex"
    BY <1>4, <2>1 DEF SameHand
  <2>3. \A d \in Docs : row'[d].lastIndexedAt # 0 => row'[d].body # 0
    BY <1>2, <2>1 DEF NoRow
  <2>4. \A q \in Passes : q # p => pass'[q] = pass[q]
    BY <2>1 DEF Elsewhere
  <2>. QED BY <1>1, <2>1, <2>2, <2>3, <2>4 DEF Same
<1>10. ASSUME NEW p \in Passes, RecordSyncCompletion(p) \/ FailPass(p)
       PROVE HandInv'
  <2>1. Idle.phase # "reindex" /\ Idle.current = {} /\ Idle.todo = {}
    BY DEF Idle
  <2>. QED BY <1>1, <1>2, <1>10, <2>1, EndEffect DEF Elsewhere
<1>11. ASSUME NEW d \in Docs,
              EditRemote(d) \/ RemoveRemote(d) \/ AppearRemote(d)
       PROVE HandInv'
  <2>1. /\ clock' = clock + 1
        /\ \A e \in Docs : \/ /\ remote'[e].version = remote[e].version
                              /\ remote'[e].editedAt = remote[e].editedAt
                           \/ /\ remote'[e].version = clock'
                              /\ remote'[e].editedAt = clock'
        /\ \A e \in Docs : remote'[e].exists => \/ remote[e].exists
                                               \/ remote'[e].version # 0
        /\ UNCHANGED <<row, pass>>
    BY <1>11, RemoteEffect
  <2>2. /\ clock \in Nat /\ \A q \in Passes : pass[q].startedAt <= clock
        /\ \A q \in Passes : pass[q].startedAt \in Nat
        /\ \A q \in Passes : pass[q].current \subseteq Docs
        /\ \A q \in Passes : \A ref \in pass[q].todo : ref.doc \in Docs
    BY DEF TypeOK, IndexInv, StampsArePast, Pass, DocumentRef
  <2>3. \A e \in Docs : remote[e].version # 0 => remote'[e].version # 0
    BY <2>1, <2>2
  <2>4. ServedHasVersion'
    <3>1. \A e \in Docs : remote'[e].exists => remote'[e].version # 0
      BY <2>1, <2>3 DEF ServedHasVersion
    <3>2. \A q \in Passes :
             /\ \A ref \in pass'[q].todo : remote'[ref.doc].version # 0
             /\ \A e \in pass'[q].current : remote'[e].version # 0
      BY <2>1, <2>2, <2>3 DEF ServedHasVersion
    <3>. QED BY <3>1, <3>2 DEF ServedHasVersion
  <2>5. IndexedHasBody' /\ HandsAreEmptied'
    BY <2>1 DEF IndexedHasBody, HandsAreEmptied
  <2>6. PagesAreDated'
    BY <2>1, <2>2 DEF PagesAreDated
  <2>. QED BY <2>4, <2>5, <2>6
<1>12. CASE DeleteSource
  <2>1. /\ UNCHANGED <<remote, pass>>
        /\ \A d \in Docs : row'[d].lastIndexedAt = 0
    BY <1>12 DEF DeleteSource, DeleteSourceRow, NoRow
  <2>. QED BY <1>1, <2>1
<1>13. CASE UNCHANGED vars
  BY <1>1, <1>2, <1>13 DEF vars
<1>. QED
  BY <1>3, <1>5, <1>6, <1>7, <1>8, <1>9, <1>10, <1>11, <1>12, <1>13
     DEF Next, PassStep

(* What has been settled since t is settled still, and was then.           *)
LEMMA SettledBefore ==
    ASSUME TypeOK, TypeOK', [Next]_vars, NEW d \in Docs,
           NEW t \in Nat, t <= clock, Settled(d, t)'
    PROVE  Settled(d, t) /\ remote'[d].version = remote[d].version
<1>1. CASE \E e \in Docs : EditRemote(e) \/ RemoveRemote(e) \/ AppearRemote(e)
  <2>1. /\ clock' = clock + 1
        /\ \/ /\ remote'[d].exists = remote[d].exists
              /\ remote'[d].since = remote[d].since
           \/ remote'[d].since = clock'
        /\ \/ /\ remote'[d].version = remote[d].version
              /\ remote'[d].editedAt = remote[d].editedAt
           \/ remote'[d].editedAt = clock'
    BY <1>1, RemoteEffect
  <2>2. clock \in Nat
    BY DEF TypeOK
  <2>3. /\ remote'[d].exists
        /\ remote'[d].editedAt < t /\ remote'[d].since < t
    BY DEF Settled
  <2>4. /\ remote'[d].since # clock' /\ remote'[d].editedAt # clock'
    BY <2>1, <2>2, <2>3
  <2>. QED BY <2>1, <2>3, <2>4 DEF Settled
<1>2. CASE ~\E e \in Docs : EditRemote(e) \/ RemoveRemote(e) \/ AppearRemote(e)
  <2>1. ASSUME NEW p \in Passes, StartPass(p) \/ ListSomePage(p) \/ PassStep(p)
        PROVE  UNCHANGED remote
    BY <2>1, StartEffect, ListEffect, ObserveEffect, FetchEffect, ReindexEffect,
       StaleEffect, CheckEffect, DeleteEffect, EndEffect DEF PassStep
  <2>2. UNCHANGED remote
    BY <1>2, <2>1 DEF Next, DeleteSource, vars
  <2>3. remote'[d] = remote[d]
    BY <2>2
  <2>. QED BY <2>3 DEF Settled
<1>. QED BY <1>1, <1>2

LEMMA AloneStep ==
    ASSUME AloneIsAlone, MCNext \/ UNCHANGED <<vars, alone>>
    PROVE  AloneIsAlone'
BY DEF AloneIsAlone, MCNext, vars, Running
(* The document a pass has just observed: if it does not index it now, the *)
(* index time is not before the last edit, and then it holds that edit.    *)
LEMMA ObservedIsFresh ==
    ASSUME TypeOK, HandInv, IndexInv, NEW p \in Passes,
           NEW ref \in pass[p].todo, ObserveDocument(p, ref),
           ref.doc \notin Attachments, Settled(ref.doc, pass[p].startedAt)
    PROVE  Fresh(p, ref.doc)'
<1> DEFINE d == ref.doc
           u == Upserted(p, ref)
<1>1. ref \in DocumentRef /\ d \in Docs
  BY DEF TypeOK, Pass, DocumentRef
<1>2. /\ row' = [row EXCEPT ![d] = u] /\ UNCHANGED remote
      /\ NeedsIndex(u, ref) => pass'[p].current = {d}
  BY ObserveEffect
<1>3. row'[d] = u
  BY <1>1, <1>2 DEF TypeOK
<1>4. u.id # 0
  <2>1. rowIds \in Nat /\ row[d] \in Row
    BY <1>1 DEF TypeOK
  <2>2. row[d].id = 0 => u.id = rowIds + 1
    BY <2>1 DEF Upserted, NoRow
  <2>3. row[d].id # 0 => u.id = row[d].id
    BY <2>1 DEF Upserted, Row
  <2>. QED BY <2>1, <2>2, <2>3
<1>5. CASE NeedsIndex(u, ref)
  BY <1>2, <1>3, <1>4, <1>5 DEF Fresh
<1>6. CASE ~NeedsIndex(u, ref)
  <2>1. u.lastIndexedAt # 0 /\ ~(u.lastIndexedAt < ref.externalUpdatedAt)
    BY <1>6 DEF NeedsIndex
  <2>2. u.body = row[d].body /\ u.lastIndexedAt = row[d].lastIndexedAt
    BY <1>1, <2>1, UpsertedKeepsIndex
  <2>3. /\ remote[d].editedAt < pass[p].startedAt
        /\ remote[d].editedAt \in Nat /\ pass[p].startedAt \in Nat
    BY <1>1 DEF Settled, TypeOK, RemoteDocument, Pass
  <2>4. ref.externalUpdatedAt = remote[d].editedAt
    BY <2>3 DEF HandInv, PagesAreDated
  <2>5. row[d].body # 0
    BY <1>1, <2>1, <2>2 DEF HandInv, IndexedHasBody
  <2>6. row[d].body = remote[d].version
    BY <1>1, <2>1, <2>2, <2>4, <2>5 DEF IndexInv, StaleIndexDetectable
  <2>. QED BY <1>2, <1>3, <1>4, <2>2, <2>6 DEF Fresh
<1>. QED BY <1>5, <1>6

(* A step of a pass that runs alone keeps what it has seen fresh.          *)
LEMMA OwnStepKeepsFresh ==
    ASSUME TypeOK, HandInv, IndexInv, SweepInv,
           NEW p \in Passes, PassStep(p) \/ ListSomePage(p), Running(p)',
           NEW d \in pass'[p].seen \ Attachments, d \in Docs,
           Settled(d, pass[p].startedAt),
           d \in pass[p].seen => Fresh(p, d)
    PROVE  Fresh(p, d)'
<1>1. pass[p].phase \notin {"fetch", "reindex"} => pass[p].current = {}
  BY DEF HandInv, HandsAreEmptied
<1>2. CASE ListSomePage(p)
  BY <1>2, ListEffect DEF SameHand, Fresh
<1>3. ASSUME NEW ref \in pass[p].todo, ObserveDocument(p, ref)
      PROVE  Fresh(p, d)'
  <2>1. CASE d = ref.doc
    BY <1>3, <2>1, ObservedIsFresh
  <2>2. CASE d # ref.doc
    <3>1. /\ pass[p].phase = "observe"
          /\ pass'[p].seen = pass[p].seen \cup {ref.doc}
          /\ row' = [row EXCEPT ![ref.doc] = Upserted(p, ref)]
          /\ UNCHANGED remote
      BY <1>3, ObserveEffect
    <3>2. row'[d] = row[d] /\ d \in pass[p].seen /\ d \notin pass[p].current
      BY <1>1, <2>2, <3>1 DEF TypeOK
    <3>. QED BY <3>1, <3>2 DEF Fresh
  <2>. QED BY <2>1, <2>2
<1>4. ASSUME NEW e \in Docs, FetchDocument(p, e) PROVE Fresh(p, d)'
  BY <1>4, FetchEffect DEF SameHand, Fresh
<1>5. ASSUME NEW e \in Docs, ReindexDocument(p, e) PROVE Fresh(p, d)'
  <2>1. /\ pass[p].phase = "reindex" /\ pass[p].current = {e}
        /\ pass'[p].seen = pass[p].seen
        /\ row'[e].body = pass[p].body /\ row'[e].id = row[e].id
        /\ \A f \in Docs \ {e} : row'[f] = row[f]
        /\ UNCHANGED remote
    BY <1>5, ReindexEffect
  <2>2. Fresh(p, d)
    BY <2>1
  <2>3. CASE d = e
    <3>1. ~(pass[p].startedAt < remote[d].editedAt)
      BY DEF Settled, TypeOK, Pass, RemoteDocument
    <3>2. pass[p].body = remote[d].version
      BY <2>1, <2>3, <3>1 DEF IndexInv, HeldBodyIsDated
    <3>. QED BY <2>1, <2>2, <2>3, <3>2 DEF Fresh
  <2>4. CASE d # e
    BY <2>1, <2>2, <2>4 DEF Fresh
  <2>. QED BY <2>3, <2>4
<1>6. CASE ListStaleDocuments(p)
  BY <1>6, StaleEffect DEF SameHand, Fresh
<1>7. ASSUME NEW s \in pass[p].stale, CheckDocumentExists(p, s)
      PROVE  Fresh(p, d)'
  BY <1>7, CheckEffect DEF SameHand, Fresh
<1>8. CASE DeleteDocuments(p)
  <2>1. /\ SameHand(p) /\ UNCHANGED remote
        /\ row'[d] = IF \E s \in pass[p].gone : s.id = row[d].id
                     THEN NoRow ELSE row[d]
    BY <1>8, DeleteEffect
  <2>2. ASSUME NEW s \in pass[p].gone, s.id = row[d].id PROVE FALSE
    <3>1. s.doc = d
      BY <2>2 DEF SweepInv, ListedIdsAreOnce
    <3>2. ~remote[d].exists \/ pass[p].startedAt < remote[d].since
      BY <3>1 DEF SweepInv, GoneWasGone
    <3>3. pass[p].startedAt \in Nat /\ remote[d].since \in Nat
      BY DEF TypeOK, Pass, RemoteDocument
    <3>. QED BY <3>2, <3>3 DEF Settled
  <2>. QED BY <2>1, <2>2 DEF SameHand, Fresh
<1>9. CASE RecordSyncCompletion(p) \/ FailPass(p)
  BY <1>9, EndEffect DEF Running, Idle
<1>. QED
  BY <1>2, <1>3, <1>4, <1>5, <1>6, <1>7, <1>8, <1>9 DEF PassStep

LEMMA SeenIsFreshStep ==
    ASSUME TypeOK, TypeOK', HandInv, IndexInv, SweepInv, AloneIsAlone,
           SeenIsFresh, MCNext
    PROVE  SeenIsFresh'
<1> SUFFICES ASSUME NEW p \in alone', SourceHeld(p)',
                    NEW d \in pass'[p].seen \ Attachments,
                    Settled(d, pass[p].startedAt)'
             PROVE  Fresh(p, d)'
  BY DEF SeenIsFresh
<1>1. /\ p \in Passes /\ Running(p)'
      /\ p \in alone \/ ~Running(p)
      /\ \A q \in Passes \ {p} : ~Running(q)'
  BY DEF MCNext
<1>2. d \in Docs
  BY <1>1 DEF TypeOK, Pass
<1>3. p \in alone => \A q \in Passes \ {p} : ~Running(q)
  BY DEF AloneIsAlone
(* Whatever the step was, a pass that ran alone before it and did not      *)
(* start anew works for the same source, and d was as settled as it is.    *)
<1>4. ASSUME p \in alone, pass'[p].startedAt = pass[p].startedAt,
             pass'[p].sourceId = pass[p].sourceId, source'.id = source.id
      PROVE  /\ Settled(d, pass[p].startedAt)
             /\ remote'[d].version = remote[d].version
             /\ d \in pass[p].seen => Fresh(p, d)
  <2>1. SourceHeld(p)
    BY <1>4 DEF SourceHeld
  <2>2. pass[p].startedAt \in Nat /\ pass[p].startedAt <= clock
    BY <1>1 DEF TypeOK, Pass, IndexInv, StampsArePast
  <2>3. Settled(d, pass[p].startedAt)'
    BY <1>4 DEF Settled
  <2>4. PICK t \in Nat : t = pass[p].startedAt
    BY <2>2
  <2>5. Settled(d, t)' /\ t <= clock
    BY <1>4, <2>2, <2>3, <2>4 DEF Settled
  <2>6. Settled(d, t) /\ remote'[d].version = remote[d].version
    BY <1>2, <2>5, SettledBefore DEF MCNext
  <2>. QED BY <1>4, <2>1, <2>4, <2>6 DEF SeenIsFresh
<1>5. CASE StartPass(p)
  BY <1>1, <1>5, StartEffect
<1>6. CASE PassStep(p) \/ ListSomePage(p)
  <2>1. /\ Running(p)
        /\ \/ Running(p)' /\ Same(p)
           \/ ~Running(p)'
        /\ source'.id = source.id
    <3>1. CASE RecordSyncCompletion(p) \/ FailPass(p)
      BY <1>1, <3>1, EndEffect DEF Running, Idle
    <3>2. CASE ~(RecordSyncCompletion(p) \/ FailPass(p))
      <4>1. Same(p) /\ UNCHANGED source
        BY <1>1, <1>6, <3>2, ListEffect, ObserveEffect, FetchEffect, ReindexEffect,
           StaleEffect, CheckEffect, DeleteEffect DEF PassStep
      <4>. QED BY <1>1, <4>1 DEF Same, Running
    <3>. QED BY <3>1, <3>2
  <2>2. p \in alone /\ Same(p)
    BY <1>1, <2>1
  <2>3. /\ Settled(d, pass[p].startedAt)
        /\ d \in pass[p].seen => Fresh(p, d)
    BY <1>4, <2>1, <2>2 DEF Same
  <2>. QED BY <1>1, <1>2, <1>6, <2>3, OwnStepKeepsFresh
<1>7. ASSUME NEW q \in Passes, q # p,
             StartPass(q) \/ PassStep(q) \/ ListSomePage(q)
      PROVE  FALSE
  <2>1. Elsewhere(q) /\ (Running(q) \/ Running(q)')
    BY <1>7, StartEffect, ListEffect, ObserveEffect, FetchEffect, ReindexEffect,
       StaleEffect, CheckEffect, DeleteEffect, EndEffect
       DEF PassStep, Same, Running
  <2>2. Running(p)
    BY <1>1, <1>7, <2>1 DEF Elsewhere, Running
  <2>. QED BY <1>1, <1>3, <1>7, <2>1, <2>2
<1>8. CASE \E e \in Docs : EditRemote(e) \/ RemoveRemote(e) \/ AppearRemote(e)
  <2>1. UNCHANGED <<source, row, pass>>
    BY <1>8, RemoteEffect
  <2>2. p \in alone
    BY <1>1, <2>1 DEF Running
  <2>. QED BY <1>4, <2>1, <2>2 DEF Fresh
<1>9. CASE DeleteSource
  BY <1>9 DEF DeleteSource, DeleteSourceRow, SourceHeld
<1>. QED BY <1>1, <1>5, <1>6, <1>7, <1>8, <1>9 DEF MCNext, Next

(* When a pass that no other overlapped reaches its end, every document it *)
(* listed that has not changed since it began is indexed at the version    *)
(* the provider serves, whatever rows and index times earlier passes left  *)
(* behind by failing or by overlapping (sync.service.ts, the comparison    *)
(* that decides on a re-index and the stamp a re-index writes).            *)
THEOREM LonePassLeavesAllFresh == MCSpec => []CompletedPassIsFresh
<1> DEFINE FreshInv == HandInv /\ AloneIsAlone /\ SeenIsFresh
<1>1. MCInit => FreshInv
  BY DEF MCInit, Init, HandInv, ServedHasVersion, IndexedHasBody, PagesAreDated,
         HandsAreEmptied, AloneIsAlone, SeenIsFresh, NoRow, Idle
<1>2. TypeOK /\ TypeOK' /\ IndexInv /\ SweepInv /\ FreshInv
        /\ [MCNext]_<<vars, alone>> => FreshInv'
  <2> SUFFICES ASSUME TypeOK, TypeOK', IndexInv, SweepInv, FreshInv,
                      [MCNext]_<<vars, alone>>
               PROVE  FreshInv'
    OBVIOUS
  <2>1. HandInv'
    BY HandInvStep DEF MCNext
  <2>2. CASE MCNext
    BY <2>1, <2>2, AloneStep, SeenIsFreshStep
  <2>3. CASE UNCHANGED <<vars, alone>>
    BY <2>1, <2>3 DEF vars, AloneIsAlone, SeenIsFresh, Fresh, Settled,
                      Running, SourceHeld
  <2>. QED BY <2>2, <2>3
<1>3. HandInv /\ SeenIsFresh /\ AloneIsAlone => CompletedPassIsFresh
  BY DEF HandInv, HandsAreEmptied, SeenIsFresh, AloneIsAlone, Fresh,
         CompletedPassIsFresh
<1>4. MCInit => Init
  BY DEF MCInit
<1>5. [MCNext]_<<vars, alone>> => [Next]_vars
  BY DEF MCNext
<1>6. MCSpec => Spec
  BY <1>4, <1>5, PTL DEF MCSpec, Spec
<1>. QED
  BY <1>1, <1>2, <1>3, <1>6, IndexInvHolds, SweepInvHolds, PTL DEF MCSpec

-----------------------------------------------------------------------------
(* A set of numbers that is not empty has a least element, and a finite    *)
(* one a greatest.                                                         *)
Less == {e \in Nat \X Nat : e[1] < e[2]}

LEMMA LessIsWellFounded == IsWellFoundedOn(Less, Nat)
<1>1. OpToRel(<, Nat) = Less
  BY DEF OpToRel, Less
<1>. QED BY <1>1, NatLessThanWellFounded

LEMMA LeastExists ==
    ASSUME NEW S \in SUBSET Nat, S # {}
    PROVE  \E x \in S : \A y \in S : x <= y
<1>1. PICK x \in S : \A y \in S : <<y, x>> \notin Less
  BY WFMin, LessIsWellFounded
<1>2. \A y \in S : ~(y < x)
  BY <1>1 DEF Less
<1>. QED BY <1>2

Below(S, d) == {e \in S : e < d}

LEMMA BelowIsFinite ==
    ASSUME NEW S, IsFiniteSet(S), NEW d
    PROVE  /\ IsFiniteSet(Below(S, d))
           /\ Cardinality(Below(S, d)) \in Nat
           /\ Cardinality(Below(S, d)) <= Cardinality(S)
BY FS_Subset, FS_CardinalityType DEF Below

LEMMA BelowMember ==
    ASSUME NEW S, NEW d, NEW y
    PROVE  y \in Below(S, d) <=> y \in S /\ y < d
BY DEF Below

LEMMA BelowOrder ==
    ASSUME NEW S \in SUBSET Nat, NEW d \in Nat, NEW e \in Nat, d <= e
    PROVE  Below(S, d) \subseteq Below(S, e)
<1>1. ASSUME NEW y \in Below(S, d) PROVE y \in Below(S, e)
  <2>1. y \in S /\ y \in Nat /\ y < d
    BY <1>1, BelowMember
  <2>. QED BY <2>1, BelowMember
<1>. QED BY <1>1

LEMMA BelowGrows ==
    ASSUME NEW S \in SUBSET Nat, IsFiniteSet(S), NEW d \in S, NEW e \in S, d < e
    PROVE  Cardinality(Below(S, d)) < Cardinality(Below(S, e))
<1>1. /\ Below(S, d) \subseteq Below(S, e) /\ d \in Below(S, e)
      /\ d \notin Below(S, d)
  <2>1. d \in Nat /\ e \in Nat /\ d <= e /\ ~(d < d)
    OBVIOUS
  <2>. QED BY <2>1, BelowOrder, BelowMember
<1>2. IsFiniteSet(Below(S, e)) /\ IsFiniteSet(Below(S, d))
      /\ Cardinality(Below(S, d)) \in Nat /\ Cardinality(Below(S, e)) \in Nat
  BY BelowIsFinite
<1>3. /\ Cardinality(Below(S, d)) <= Cardinality(Below(S, e))
      /\ Cardinality(Below(S, d)) = Cardinality(Below(S, e))
            => Below(S, d) = Below(S, e)
  BY <1>1, <1>2, FS_Subset
<1>. QED BY <1>1, <1>2, <1>3

LEMMA GreatestExists ==
    ASSUME NEW S \in SUBSET Nat, IsFiniteSet(S), S # {}
    PROVE  Max(S) \in S /\ \A y \in S : y <= Max(S)
<1> DEFINE g(d) == Cardinality(S) - Cardinality(Below(S, d))
           G == {g(d) : d \in S}
<1>1. Cardinality(S) \in Nat
  BY FS_CardinalityType
<1>2. \A d \in S : g(d) \in Nat
  BY <1>1, BelowIsFinite
<1>3. PICK x \in G : \A y \in G : x <= y
  BY <1>2, LeastExists
<1>4. PICK d \in S : x = g(d)
  BY <1>3
<1>5. ASSUME NEW e \in S, d < e PROVE FALSE
  <2>1. g(d) <= g(e)
    BY <1>3, <1>4
  <2>2. Cardinality(Below(S, d)) < Cardinality(Below(S, e))
    BY <1>5, BelowGrows
  <2>. QED BY <1>1, <2>1, <2>2, BelowIsFinite
<1>6. \A y \in S : y <= d
  BY <1>5
<1>. QED BY <1>6 DEF Max

-----------------------------------------------------------------------------
(* The files of a page.                                                    *)
LEMMA FirstFilesBelow ==
    ASSUME NEW n, NEW S
    PROVE  FirstFiles(n, S) = {d \in S : Cardinality(Below(S, d)) < n}
BY DEF FirstFiles, Below

Found(S) == FirstFiles(PageSize + 1, S)
PageOf(S) == FirstFiles(PageSize, Found(S))

LEMMA PageFacts ==
    ASSUME NEW S \in SUBSET Nat, IsFiniteSet(S)
    PROVE  /\ Found(S) \subseteq S /\ PageOf(S) \subseteq Found(S)
           /\ IsFiniteSet(Found(S)) /\ IsFiniteSet(PageOf(S))
           /\ Cardinality(Found(S)) \in Nat
<1>1. Found(S) \subseteq S /\ PageOf(S) \subseteq Found(S)
  BY DEF Found, PageOf, FirstFiles
<1>. QED BY <1>1, FS_Subset, FS_CardinalityType

(* Without a further page, the page holds every file that was left.        *)
LEMMA LastPageIsAll ==
    ASSUME NEW S \in SUBSET Nat, IsFiniteSet(S),
           ~(Cardinality(Found(S)) > PageSize)
    PROVE  PageOf(S) = S
<1>0. PageSize \in Nat \ {0}
  BY PageSizeAssumption
<1>1. Found(S) = S
  <2>1. SUFFICES ASSUME S \ Found(S) # {} PROVE FALSE
    BY PageFacts
  <2>2. PICK d \in S \ Found(S) : \A e \in S \ Found(S) : d <= e
    BY <2>1, LeastExists
  <2>3. ASSUME NEW y \in Below(S, d) PROVE y \in Found(S)
    <3>1. y \in S /\ y < d /\ y \in Nat /\ d \in Nat
      BY BelowMember
    <3>. QED BY <2>2, <3>1
  <2>4. Cardinality(Below(S, d)) <= Cardinality(Found(S))
    BY <2>3, PageFacts, FS_Subset
  <2>5. ~(Cardinality(Below(S, d)) < PageSize + 1)
    BY <2>2, FirstFilesBelow DEF Found
  <2>. QED BY <1>0, <2>4, <2>5, PageFacts, BelowIsFinite
<1>2. ASSUME NEW d \in S PROVE d \in PageOf(S)
  <2>1. Below(S, d) \subseteq S /\ d \notin Below(S, d)
    BY DEF Below
  <2>2. /\ Cardinality(Below(S, d)) <= Cardinality(S)
        /\ Cardinality(Below(S, d)) = Cardinality(S) => Below(S, d) = S
    BY <2>1, FS_Subset
  <2>3. Cardinality(Below(S, d)) < PageSize
    BY <1>0, <1>1, <2>1, <2>2, PageFacts, BelowIsFinite
  <2>. QED BY <1>1, <2>3, FirstFilesBelow DEF PageOf
<1>. QED BY <1>1, <1>2, PageFacts

(* With one, the page holds every file up to its last name.                *)
LEMMA PageIsPrefix ==
    ASSUME NEW S \in SUBSET Nat, IsFiniteSet(S),
           Cardinality(Found(S)) > PageSize
    PROVE  /\ Max(PageOf(S)) \in PageOf(S)
           /\ \A d \in S : d <= Max(PageOf(S)) => d \in PageOf(S)
<1>0. PageSize \in Nat \ {0} /\ Cardinality(Found(S)) \in Nat
  BY PageSizeAssumption, PageFacts
<1>1. Found(S) # {}
  BY <1>0, FS_EmptySet
<1>2. PICK x \in Found(S) : \A y \in Found(S) : x <= y
  BY <1>1, LeastExists, PageFacts
<1>3. Below(Found(S), x) = {}
  <2>1. ASSUME NEW y \in Below(Found(S), x) PROVE FALSE
    <3>1. y \in Found(S) /\ y < x /\ y \in Nat /\ x \in Nat
      BY BelowMember, PageFacts
    <3>. QED BY <1>2, <3>1
  <2>. QED BY <2>1
<1>4. x \in PageOf(S)
  BY <1>0, <1>3, FS_EmptySet, FirstFilesBelow DEF PageOf
<1>5. Max(PageOf(S)) \in PageOf(S)
  BY <1>4, GreatestExists, PageFacts
<1>6. ASSUME NEW d \in S, NEW m \in PageOf(S), d <= m PROVE d \in PageOf(S)
  <2>0. m \in Found(S) /\ m \in S
    BY <1>6, PageFacts
  <2>1. Below(S, d) \subseteq Below(S, m)
    BY <1>6, <2>0, BelowOrder
  <2>2. Cardinality(Below(S, d)) <= Cardinality(Below(S, m))
    BY <2>1, FS_Subset, BelowIsFinite
  <2>3. d \in Found(S)
    BY <1>0, <2>0, <2>2, BelowIsFinite, FirstFilesBelow DEF Found
  <2>4. Below(Found(S), d) \subseteq Below(Found(S), m)
    BY <1>6, <2>0, PageFacts, BelowOrder
  <2>5. Cardinality(Below(Found(S), d)) <= Cardinality(Below(Found(S), m))
    BY <2>4, FS_Subset, BelowIsFinite, PageFacts
  <2>. QED BY <1>0, <1>6, <2>3, <2>5, BelowIsFinite, PageFacts, FirstFilesBelow
              DEF PageOf
<1>. QED BY <1>5, <1>6

-----------------------------------------------------------------------------
(* Types.                                                                  *)
LEMMA NoUploadIsUpload == NoUpload \in Upload /\ NoDeletion \in Deletion
BY DEF NoUpload, Upload, NoDeletion, Deletion

(* The page that UploadConnector returns and the cursor it comes with.     *)
Stored(p) == FilesAfter(pass[p].page)

LEMMA StoredIsFinite ==
    ASSUME NEW p
    PROVE  Stored(p) \in SUBSET Docs /\ Stored(p) \in SUBSET Nat
           /\ IsFiniteSet(Stored(p))
BY FileNamesAssumption, FS_Subset DEF Stored, FilesAfter

(* A page that holds every file up to its cursor, or every file there is.  *)
CoveringPage(p, listed, cursor, more) ==
    /\ ListPage(p, listed, cursor, more)
    /\ \A d \in Stored(p) : d <= cursor \/ ~more => d \in listed

LEMMA ListedUploadPass ==
    ASSUME TypeOK, NEW p \in Passes,
           \E listed \in SUBSET Docs, cursor \in Nat, more \in BOOLEAN :
              CoveringPage(p, listed, cursor, more)
    PROVE  \E ps \in Pass :
              /\ pass' = [pass EXCEPT ![p] = ps]
              /\ ps.phase = NextStep(ps)
              /\ ps.startedAt = pass[p].startedAt
              /\ ps.seen = pass[p].seen
              /\ \A d \in Stored(p) :
                    d <= ps.page \/ ~ps.more
                       => d \in {ref.doc : ref \in ps.todo}
<1>0. PICK listed \in SUBSET Docs, cursor \in Nat, more \in BOOLEAN :
         CoveringPage(p, listed, cursor, more)
  OBVIOUS
<1>a. ListPage(p, listed, cursor, more)
  BY <1>0 DEF CoveringPage
<1>b. \A d \in Stored(p) : d <= cursor \/ ~more => d \in listed
  BY <1>0 DEF CoveringPage
<1> DEFINE refs == {[doc |-> d, externalUpdatedAt |-> remote[d].editedAt] :
                      d \in listed}
           next == [pass[p] EXCEPT !.todo = refs, !.page = cursor,
                                   !.more = more]
<1>1. refs \in SUBSET DocumentRef /\ {ref.doc : ref \in refs} = listed
  <2>1. \A d \in listed : remote[d].editedAt \in Nat /\ d \in Docs
    BY DEF TypeOK, RemoteDocument
  <2>2. refs \in SUBSET DocumentRef
    BY <2>1 DEF DocumentRef
  <2>3. ASSUME NEW d \in listed PROVE d \in {ref.doc : ref \in refs}
    <3>1. [doc |-> d, externalUpdatedAt |-> remote[d].editedAt] \in refs
      OBVIOUS
    <3>2. [doc |-> d, externalUpdatedAt |-> remote[d].editedAt].doc = d
      OBVIOUS
    <3>. QED BY <3>1, <3>2
  <2>4. \A ref \in refs : ref.doc \in listed
    OBVIOUS
  <2> HIDE DEF refs
  <2>. QED BY <2>2, <2>3, <2>4
<1>2. pass[p] \in Pass
  BY DEF TypeOK
<1> HIDE DEF refs
<1>3. /\ next \in Pass
      /\ next.startedAt = pass[p].startedAt
      /\ next.seen = pass[p].seen
      /\ next.page = cursor /\ next.more = more /\ next.todo = refs
  BY <1>1, <1>2 DEF Pass
<1>4. pass' = [pass EXCEPT ![p] = [next EXCEPT !.phase = NextStep(next)]]
  BY <1>a DEF ListPage, refs
<1> HIDE DEF next
<1>5. NextStep(next) \in Phases
  BY DEF NextStep, Phases
<1>6. LET ps == [next EXCEPT !.phase = NextStep(next)]
      IN  /\ ps \in Pass /\ ps.phase = NextStep(next)
          /\ NextStep(ps) = NextStep(next)
          /\ ps.startedAt = next.startedAt /\ ps.seen = next.seen
          /\ ps.page = next.page /\ ps.more = next.more
          /\ ps.todo = next.todo
  BY <1>3, <1>5 DEF Pass, NextStep
<1>7. LET ps == [next EXCEPT !.phase = NextStep(next)]
      IN  /\ ps.page = cursor /\ ps.more = more
          /\ {ref.doc : ref \in ps.todo} = listed
  BY <1>1, <1>3, <1>6
<1>. QED BY <1>b, <1>3, <1>4, <1>6, <1>7

LEMMA UploadPageListed ==
    ASSUME TypeOK, NEW p \in Passes, ListUploadPage(p)
    PROVE  \E ps \in Pass :
              /\ pass' = [pass EXCEPT ![p] = ps]
              /\ ps.phase = NextStep(ps)
              /\ ps.startedAt = pass[p].startedAt
              /\ ps.seen = pass[p].seen
              /\ \A d \in Stored(p) :
                    d <= ps.page \/ ~ps.more
                       => d \in {ref.doc : ref \in ps.todo}
<1> DEFINE found == FirstFiles(PageSize + 1, FilesAfter(pass[p].page))
           page == FirstFiles(PageSize, found)
           more == Cardinality(found) > PageSize
           cursor == IF more THEN Max(page) ELSE pass[p].page
<1>1. found = Found(Stored(p)) /\ page = PageOf(Stored(p))
  BY DEF Found, PageOf, Stored
<1>2. ListPage(p, page, cursor, more)
  BY DEF ListUploadPage
<1>3. page \in SUBSET Docs /\ page \in SUBSET Nat
  BY <1>1, StoredIsFinite, PageFacts
<1>4. more => Max(page) \in page
  BY <1>1, StoredIsFinite, PageIsPrefix
<1>5. cursor \in Nat /\ more \in BOOLEAN
  BY <1>3, <1>4 DEF TypeOK, Pass
<1>6. \A d \in Stored(p) : (more /\ d <= cursor) \/ ~more => d \in page
  <2>1. CASE more
    BY <1>1, <2>1, StoredIsFinite, PageIsPrefix
  <2>2. CASE ~more
    BY <1>1, <2>2, StoredIsFinite, LastPageIsAll
  <2>. QED BY <2>1, <2>2
<1>7. \E listed \in SUBSET Docs, cu \in Nat, mo \in BOOLEAN :
         CoveringPage(p, listed, cu, mo)
  <2>1. CoveringPage(p, page, cursor, more)
    BY <1>2, <1>6 DEF CoveringPage
  <2> HIDE DEF page, more, cursor
  <2>. QED BY <1>3, <1>5, <2>1
<1>. QED BY <1>7, ListedUploadPass

LEMMA UploadTypeStep ==
    ASSUME UploadTypeOK, [UploadNext]_allVars PROVE UploadTypeOK'
<1> USE NoUploadIsUpload DEF UploadTypeOK
<1>t. ASSUME NEW p \in Passes, StartPass(p) \/ PassStep(p) PROVE TypeOK'
  BY <1>t, TypeStep DEF Next
<1>u. \A p \in Passes : upload[p] \in Upload
  OBVIOUS
<1>1. ASSUME NEW p \in Passes, NEW files \in SUBSET Docs, BeginUpload(p, files)
      PROVE  UploadTypeOK'
  <2>1. clock' \in Nat /\ UNCHANGED <<remote, source, row, rowIds, pass>>
    BY <1>1 DEF BeginUpload, Tick, TypeOK
  <2>2. [NoUpload EXCEPT !.phase = "saving", !.files = files, !.stamp = clock']
           \in Upload
    BY <2>1 DEF NoUpload, Upload
  <2>3. upload' \in [Passes -> Upload]
    BY <1>1, <2>2 DEF BeginUpload
  <2>. QED BY <1>1, <2>1, <2>3 DEF BeginUpload, TypeOK
<1>2. ASSUME NEW p \in Passes, CommitUpload(p) PROVE UploadTypeOK'
  <2>1. clock' \in Nat /\ UNCHANGED <<source, row, rowIds, pass>>
    BY <1>2 DEF CommitUpload, Tick, TypeOK
  <2>2. [upload[p] EXCEPT !.phase = "saved"] \in Upload
    BY <1>u DEF Upload
  <2>3. upload' \in [Passes -> Upload]
    BY <1>2, <2>2 DEF CommitUpload
  <2>4. upload[p].stamp \in Nat
    BY <1>u DEF Upload
  <2>5. remote' \in [Docs -> RemoteDocument]
    BY <1>2, <2>1, <2>4 DEF CommitUpload, TypeOK, RemoteDocument
  <2>. QED BY <1>2, <2>1, <2>3, <2>5 DEF CommitUpload, TypeOK
<1>s. UNCHANGED vars => TypeOK'
  BY DEF vars, TypeOK
<1>3. ASSUME NEW p \in Passes, FindUploadSource(p) PROVE UploadTypeOK'
  <2> DEFINE ph == IF source.id = 0 THEN "creating" ELSE "syncing"
  <2>0. source.id \in Nat
    BY DEF TypeOK
  <2>1. [upload[p] EXCEPT !.phase = ph, !.sourceId = source.id] \in Upload
    BY <1>u, <2>0 DEF Upload
  <2>2. upload' \in [Passes -> Upload]
    BY <1>3, <2>1 DEF FindUploadSource
  <2>. QED BY <1>3, <1>s, <2>2 DEF FindUploadSource, vars
<1>4. ASSUME NEW p \in Passes, CreateUploadSource(p) PROVE UploadTypeOK'
  <2>0. sourceIds + 1 \in Nat /\ upload[p] \in Upload
    OBVIOUS
  <2>1. [upload[p] EXCEPT !.phase = "syncing", !.sourceId = sourceIds + 1]
           \in Upload
    BY <2>0 DEF Upload
  <2>2. upload' \in [Passes -> Upload]
    BY <1>4, <2>1 DEF CreateUploadSource
  <2>. QED BY <1>4, <2>2 DEF CreateUploadSource, TypeOK
<1>5. ASSUME NEW p \in Passes, SyncUpload(p) PROVE UploadTypeOK'
  BY <1>5, <1>t DEF SyncUpload
<1>6. ASSUME NEW p \in Passes, FailUpload(p) PROVE UploadTypeOK'
  BY <1>6, <1>s DEF FailUpload, vars
<1>7. ASSUME NEW p \in Passes, SyncSource(p) \/ SyncStep(p) PROVE UploadTypeOK'
  BY <1>7, <1>t DEF SyncSource, SyncStep, uploadVars
<1>8. ASSUME NEW p \in Passes, ListUploadPage(p) PROVE UploadTypeOK'
  <2>1. PICK ps \in Pass : pass' = [pass EXCEPT ![p] = ps]
    BY <1>8, UploadPageListed
  <2>2. UNCHANGED <<clock, remote, source, row, rowIds>> /\ UNCHANGED uploadVars
    BY <1>8 DEF ListUploadPage, ListPage
  <2>. QED BY <2>1, <2>2 DEF TypeOK, uploadVars
<1>9. ASSUME NEW x \in Deleters, NEW d \in Docs, BeginDeleteDocument(x, d)
      PROVE  UploadTypeOK'
  <2>1. [phase |-> "file", doc |-> {d}, id |-> row[d].id] \in Deletion
    BY DEF Deletion, TypeOK, Row
  <2>2. deletion' \in [Deleters -> Deletion]
    BY <1>9, <2>1 DEF BeginDeleteDocument
  <2>. QED BY <1>9, <1>s, <2>2 DEF BeginDeleteDocument, vars
<1>10. ASSUME NEW x \in Deleters, BeginDeleteSource(x) PROVE UploadTypeOK'
  <2>1. [phase |-> "files", doc |-> Docs, id |-> source.id] \in Deletion
    BY DEF Deletion, TypeOK
  <2>2. deletion' \in [Deleters -> Deletion]
    BY <1>10, <2>1 DEF BeginDeleteSource
  <2>. QED BY <1>10, <1>s, <2>2 DEF BeginDeleteSource, vars
<1>11. ASSUME NEW x \in Deleters, DeleteFiles(x) PROVE UploadTypeOK'
  <2> DEFINE ph == IF deletion[x].phase = "file" THEN "row" ELSE "source"
  <2>1. [deletion[x] EXCEPT !.phase = ph] \in Deletion
    BY DEF Deletion
  <2>2. deletion' \in [Deleters -> Deletion]
    BY <1>11, <2>1 DEF DeleteFiles
  <2>3. clock' \in Nat /\ UNCHANGED <<source, row, rowIds, pass>>
    <3>1. clock' = clock + 1
      BY <1>11 DEF DeleteFiles, Tick
    <3>2. clock \in Nat
      BY DEF TypeOK
    <3>3. UNCHANGED <<source, row, rowIds, pass>>
      BY <1>11 DEF DeleteFiles
    <3>. QED BY <3>1, <3>2, <3>3
  <2>4. \A d \in Docs :
           [remote[d] EXCEPT !.exists = FALSE, !.since = clock'] \in RemoteDocument
    BY <2>3 DEF TypeOK, RemoteDocument
  <2>5. remote' \in [Docs -> RemoteDocument]
    BY <1>11, <2>4 DEF DeleteFiles, TypeOK
  <2>. QED BY <1>11, <2>2, <2>3, <2>5 DEF DeleteFiles, TypeOK
<1>12. ASSUME NEW x \in Deleters, DeleteRow(x) PROVE UploadTypeOK'
  <2>1. row' \in [Docs -> Row]
    BY <1>12, NoRowIsRow DEF DeleteRow, TypeOK
  <2>. QED BY <1>12, <2>1 DEF DeleteRow, TypeOK
<1>13. ASSUME NEW x \in Deleters, DeleteUploadSource(x) PROVE UploadTypeOK'
  <2>1. row' \in [Docs -> Row] /\ source' \in [id: Nat, lastSyncedAt: Nat]
    BY <1>13, NoRowIsRow DEF DeleteUploadSource, DeleteSourceRow, TypeOK
  <2>. QED BY <1>13, <2>1 DEF DeleteUploadSource, TypeOK
<1>14. ASSUME NEW x \in Deleters, FailDeletion(x) PROVE UploadTypeOK'
  BY <1>14, <1>s DEF FailDeletion, vars
<1>15. ASSUME UNCHANGED allVars PROVE UploadTypeOK'
  BY <1>15, <1>s DEF allVars, vars
<1>. QED
  BY <1>1, <1>2, <1>3, <1>4, <1>5, <1>6, <1>7, <1>8, <1>9, <1>10, <1>11,
     <1>12, <1>13, <1>14, <1>15 DEF UploadNext

(* Every variable of the upload source keeps its type. *)
THEOREM UploadTypeCorrect == UploadSpec => []UploadTypeOK
<1>1. UploadInit => UploadTypeOK
  <2>1. Init => TypeOK
    BY IdleIsPass, AttachmentsAssumption
       DEF Init, TypeOK, RemoteDocument, Row, NoRow
  <2>. QED BY <2>1, NoUploadIsUpload DEF UploadInit, UploadTypeOK
<1>2. UploadTypeOK /\ [UploadNext]_allVars => UploadTypeOK'
  BY UploadTypeStep
<1>. QED BY <1>1, <1>2, PTL DEF UploadSpec

-----------------------------------------------------------------------------
(* The walk.  A pass owes every file stored since before it began.  What   *)
(* it owes up to the cursor it has seen or holds in the page in hand, and  *)
(* after the last page that is everything it owes.                         *)
Owed(started) == {d \in Docs : remote[d].exists /\ remote[d].since < started}

InHand(ps) == ps.seen \cup {ref.doc : ref \in ps.todo}

Covers(ps) ==
    \A d \in Owed(ps.startedAt) : d <= ps.page \/ ~ps.more => d \in InHand(ps)

SweepPhases == {"sweep", "check", "delete", "record"}

WalkOK(ps) ==
    /\ ps.startedAt <= clock
    /\ ps.phase = "list" =>
          \A d \in Owed(ps.startedAt) : d <= ps.page => d \in ps.seen
    /\ ps.phase \in {"observe", "fetch", "reindex"} => Covers(ps)
    /\ ps.phase \in SweepPhases => Owed(ps.startedAt) \subseteq ps.seen

WalkInv == \A p \in Passes : WalkOK(pass[p])

(* Once a document is done the walk goes where NextStep says. *)
LEMMA CoveredWalksOn ==
    ASSUME NEW ps \in Pass, Covers(ps), ps.startedAt <= clock,
           ps.phase \in {NextStep(ps), "observe", "fetch", "reindex"}
    PROVE  WalkOK(ps)
<1>1. ps.todo = {} => InHand(ps) = ps.seen
  BY DEF InHand
<1>2. CASE ps.phase \in {"observe", "fetch", "reindex"}
  BY <1>2 DEF WalkOK, SweepPhases
<1>3. CASE ps.phase = NextStep(ps) /\ ps.phase \notin {"observe", "fetch", "reindex"}
  <2>1. ps.todo = {} /\ (IF ps.more THEN ps.phase = "list" ELSE ps.phase = "sweep")
    BY <1>3 DEF NextStep
  <2>2. \A d \in Owed(ps.startedAt) : d <= ps.page \/ ~ps.more => d \in ps.seen
    BY <1>1, <2>1 DEF Covers
  <2>. QED BY <1>3, <2>1, <2>2 DEF WalkOK, SweepPhases
<1>. QED BY <1>2, <1>3

(* A step of one pass that stores and deletes no file. *)
LEMMA OnePassWalks ==
    ASSUME TypeOK, WalkInv, NEW p \in Passes, NEW ps \in Pass, WalkOK(ps),
           pass' = [pass EXCEPT ![p] = ps], UNCHANGED <<clock, remote>>
    PROVE  WalkInv'
<1>1. \A q \in Passes : pass'[q] = IF q = p THEN ps ELSE pass[q]
  BY DEF TypeOK
<1>2. \A q \in Passes : WalkOK(pass'[q])
  BY <1>1 DEF WalkInv
<1>. QED BY <1>2 DEF WalkInv, WalkOK, Covers, Owed

(* A step that leaves the passes alone: a file stored or deleted in it is  *)
(* owed by no pass. *)
LEMMA NoPassWalks ==
    ASSUME TypeOK, TypeOK', WalkInv, UNCHANGED pass, clock <= clock',
           \A d \in Docs : /\ remote'[d].exists
                           /\ remote'[d].since < clock'
                           => remote[d].exists /\ remote'[d].since = remote[d].since
    PROVE  WalkInv'
<1> SUFFICES ASSUME NEW p \in Passes PROVE WalkOK(pass[p])'
  BY DEF WalkInv
<1> DEFINE ps == pass[p]
<1>1. WalkOK(ps) /\ ps \in Pass
  BY DEF WalkInv, TypeOK
<1> HIDE DEF ps
<1>2. ps.startedAt \in Nat /\ ps.startedAt <= clock /\ ps' = ps
  BY <1>1 DEF WalkOK, Pass, ps
<1>3. ASSUME NEW d \in Docs, remote'[d].exists, remote'[d].since < ps.startedAt
      PROVE  d \in Owed(ps.startedAt)
  <2>1. clock \in Nat /\ clock' \in Nat /\ remote'[d].since \in Nat
    BY DEF TypeOK, RemoteDocument
  <2>2. remote'[d].since < clock'
    BY <1>2, <1>3, <2>1
  <2>. QED BY <1>3, <2>2 DEF Owed
<1>4. Owed(ps.startedAt)' \subseteq Owed(ps.startedAt)
  BY <1>2, <1>3 DEF Owed
<1>5. InHand(ps)' = InHand(ps)
  BY <1>2 DEF InHand
<1>6. ps.startedAt <= clock'
  BY <1>2 DEF TypeOK
<1>7. Covers(ps) => Covers(ps)'
  BY <1>2, <1>4, <1>5 DEF Covers
<1>8. WalkOK(ps)'
  BY <1>1, <1>2, <1>4, <1>6, <1>7 DEF WalkOK
<1>. QED BY <1>8 DEF ps

LEMMA StartWalks ==
    ASSUME TypeOK, WalkInv, NEW p \in Passes, StartPass(p)
    PROVE  WalkInv'
<1>1. /\ clock' = clock + 1 /\ clock \in Nat /\ clock' \in Nat
      /\ source.id \in Nat
  BY DEF StartPass, Tick, TypeOK
<1> DEFINE next(ps) == [ps EXCEPT !.phase = "list", !.sourceId = source.id,
                                  !.startedAt = clock']
<1>2. \A ps \in Pass : /\ next(ps) \in Pass
                       /\ next(ps).phase = "list"
                       /\ next(ps).startedAt = clock'
                       /\ next(ps).page = ps.page
  BY <1>1 DEF Pass, Phases
<1>3. pass' = [pass EXCEPT ![p] = next(Idle)]
  BY DEF StartPass
<1>4. Idle.page = 0
  BY DEF Idle
<1> HIDE DEF next
<1>5. PICK ps \in Pass : /\ pass' = [pass EXCEPT ![p] = ps]
                         /\ ps.phase = "list" /\ ps.startedAt = clock'
                         /\ ps.page = 0
  BY <1>2, <1>3, <1>4, IdleIsPass
<1>6. \A d \in Docs : ~(d <= 0)
  BY FileNamesAssumption
<1>7. WalkOK(ps)'
  BY <1>1, <1>5, <1>6 DEF WalkOK, Owed, SweepPhases
<1>8. \A q \in Passes \ {p} : pass'[q] = pass[q] /\ WalkOK(pass[q])
  BY <1>5 DEF WalkInv, TypeOK
<1>9. UNCHANGED remote
  BY DEF StartPass
<1>10. \A q \in Passes \ {p} : pass[q].startedAt \in Nat
  BY DEF TypeOK, Pass
<1>11. \A q \in Passes \ {p} : WalkOK(pass[q])'
  <2> SUFFICES ASSUME NEW q \in Passes \ {p} PROVE WalkOK(pass[q])'
    OBVIOUS
  <2>1. pass'[q] = pass[q] /\ WalkOK(pass[q]) /\ pass[q].startedAt <= clock'
    <3>1. WalkOK(pass[q]) /\ pass'[q] = pass[q]
      BY <1>8
    <3>2. pass[q].startedAt <= clock
      BY <3>1 DEF WalkOK
    <3>. QED BY <1>1, <1>10, <3>1, <3>2
  <2>. QED BY <1>9, <2>1 DEF WalkOK, Covers, InHand, Owed
<1>12. WalkOK(pass[p])'
  <2>1. pass'[p] = ps
    BY <1>5 DEF TypeOK
  <2>. QED BY <1>7, <2>1
<1>. QED BY <1>11, <1>12 DEF WalkInv

LEMMA ListingWalks ==
    ASSUME TypeOK, WalkInv, NEW p \in Passes, ListUploadPage(p)
    PROVE  WalkInv'
<1>1. PICK ps \in Pass :
         /\ pass' = [pass EXCEPT ![p] = ps]
         /\ ps.phase = NextStep(ps)
         /\ ps.startedAt = pass[p].startedAt
         /\ ps.seen = pass[p].seen
         /\ \A d \in Stored(p) :
               d <= ps.page \/ ~ps.more => d \in {ref.doc : ref \in ps.todo}
  BY UploadPageListed
<1>2. pass[p].phase = "list" /\ UNCHANGED <<clock, remote>>
  BY DEF ListUploadPage, ListPage
<1>3. pass[p].startedAt <= clock
      /\ \A d \in Owed(pass[p].startedAt) :
            d <= pass[p].page => d \in pass[p].seen
  BY <1>2 DEF WalkInv, WalkOK
<1>4. \A d \in Owed(ps.startedAt) : d <= pass[p].page \/ d \in Stored(p)
  <2>1. pass[p].page \in Nat /\ \A d \in Docs : d \in Nat
    BY FileNamesAssumption DEF TypeOK, Pass
  <2>. QED BY <2>1 DEF Owed, Stored, FilesAfter
<1>5. Covers(ps)
  BY <1>1, <1>3, <1>4 DEF Covers, InHand
<1>6. WalkOK(ps)
  BY <1>1, <1>3, <1>5, CoveredWalksOn
<1>. QED BY <1>1, <1>2, <1>6, OnePassWalks

LEMMA ObservingWalks ==
    ASSUME TypeOK, WalkInv, NEW p \in Passes, NEW ref \in pass[p].todo,
           ObserveDocument(p, ref)
    PROVE  WalkInv'
<1> DEFINE r == Upserted(p, ref)
           rest == [pass[p] EXCEPT !.todo = @ \ {ref},
                                   !.seen = @ \cup {ref.doc}]
           again == [rest EXCEPT !.phase = "fetch", !.current = {ref.doc},
                                 !.rowId = r.id]
           next == [rest EXCEPT !.phase = NextStep(rest)]
<1>1. ref \in DocumentRef /\ ref.doc \in Docs
  BY DEF TypeOK, Pass, DocumentRef
<1>2. r.id \in Nat
  BY <1>1, UpsertedIsRow DEF Row
<1>3. /\ rest \in Pass
      /\ rest.startedAt = pass[p].startedAt /\ rest.page = pass[p].page
      /\ rest.more = pass[p].more
      /\ rest.todo = pass[p].todo \ {ref}
      /\ rest.seen = pass[p].seen \cup {ref.doc}
  BY <1>1 DEF TypeOK, Pass
<1>4. pass' = [pass EXCEPT ![p] = IF NeedsIndex(r, ref) THEN again ELSE next]
  BY DEF ObserveDocument
<1>5. pass[p].phase = "observe" /\ UNCHANGED <<clock, remote>>
  BY DEF ObserveDocument
<1> HIDE DEF r, rest
<1>6. InHand(pass[p]) \subseteq InHand(rest)
  BY <1>3 DEF InHand
<1>7. Covers(rest) /\ rest.startedAt <= clock
  BY <1>3, <1>5, <1>6 DEF WalkInv, WalkOK, Covers
<1>8. NextStep(rest) \in Phases
  BY DEF NextStep, Phases
<1>9. /\ again \in Pass /\ again.phase = "fetch"
      /\ again.startedAt = rest.startedAt /\ again.page = rest.page
      /\ again.more = rest.more /\ again.todo = rest.todo
      /\ again.seen = rest.seen
  BY <1>1, <1>2, <1>3 DEF Pass, Phases
<1>10. /\ next \in Pass /\ next.phase = NextStep(rest)
       /\ next.startedAt = rest.startedAt /\ next.page = rest.page
       /\ next.more = rest.more /\ next.todo = rest.todo
       /\ next.seen = rest.seen
  BY <1>3, <1>8 DEF Pass
<1> HIDE DEF again, next
<1>11. WalkOK(again)
  <2>1. Covers(again)
    BY <1>7, <1>9 DEF Covers, InHand
  <2>. QED BY <1>7, <1>9, <2>1, CoveredWalksOn
<1>12. WalkOK(next)
  <2>1. Covers(next) /\ NextStep(next) = NextStep(rest)
    BY <1>7, <1>10 DEF Covers, InHand, NextStep
  <2>. QED BY <1>7, <1>10, <2>1, CoveredWalksOn
<1>. QED BY <1>4, <1>5, <1>9, <1>10, <1>11, <1>12, OnePassWalks

LEMMA FetchingWalks ==
    ASSUME TypeOK, WalkInv, NEW p \in Passes, NEW d \in Docs,
           FetchDocument(p, d)
    PROVE  WalkInv'
<1> DEFINE ps == [pass[p] EXCEPT !.phase = "reindex",
                                 !.body = remote[d].version]
<1>1. /\ ps \in Pass /\ ps.phase = "reindex"
      /\ ps.startedAt = pass[p].startedAt /\ ps.page = pass[p].page
      /\ ps.more = pass[p].more /\ ps.todo = pass[p].todo
      /\ ps.seen = pass[p].seen
  BY DEF TypeOK, Pass, Phases, RemoteDocument
<1>2. pass' = [pass EXCEPT ![p] = ps] /\ UNCHANGED <<clock, remote>>
  BY DEF FetchDocument
<1>3. pass[p].phase = "fetch"
  BY DEF FetchDocument
<1> HIDE DEF ps
<1>4. Covers(ps) /\ ps.startedAt <= clock
  BY <1>1, <1>3 DEF WalkInv, WalkOK, Covers, InHand
<1>5. WalkOK(ps)
  BY <1>1, <1>4, CoveredWalksOn
<1>. QED BY <1>1, <1>2, <1>5, OnePassWalks

LEMMA ReindexingWalks ==
    ASSUME TypeOK, WalkInv, NEW p \in Passes, NEW d \in Docs,
           ReindexDocument(p, d)
    PROVE  WalkInv'
<1> DEFINE done == [pass[p] EXCEPT !.current = {}, !.rowId = 0, !.body = 0]
           next == [done EXCEPT !.phase = NextStep(done)]
<1>1. /\ done \in Pass
      /\ done.startedAt = pass[p].startedAt /\ done.page = pass[p].page
      /\ done.more = pass[p].more /\ done.todo = pass[p].todo
      /\ done.seen = pass[p].seen
  BY DEF TypeOK, Pass
<1>2. pass' = [pass EXCEPT ![p] = next] /\ UNCHANGED <<clock, remote>>
  BY DEF ReindexDocument, ReplaceChunks
<1>3. pass[p].phase = "reindex"
  BY DEF ReindexDocument, ReplaceChunks
<1> HIDE DEF done
<1>4. NextStep(done) \in Phases
  BY DEF NextStep, Phases
<1>5. /\ next \in Pass /\ next.phase = NextStep(done)
      /\ next.startedAt = done.startedAt /\ next.page = done.page
      /\ next.more = done.more /\ next.todo = done.todo
      /\ next.seen = done.seen
  BY <1>1, <1>4 DEF Pass
<1> HIDE DEF next
<1>6. Covers(next) /\ next.startedAt <= clock
      /\ NextStep(next) = NextStep(done)
  BY <1>1, <1>3, <1>5 DEF WalkInv, WalkOK, Covers, InHand, NextStep
<1>7. WalkOK(next)
  BY <1>5, <1>6, CoveredWalksOn
<1>. QED BY <1>2, <1>5, <1>7, OnePassWalks

(* The sweep and the end of a pass change nothing it has seen. *)
LEMMA SweepingWalks ==
    ASSUME TypeOK, WalkInv, NEW p \in Passes, pass[p].phase \in SweepPhases,
           NEW ps \in Pass, ps.phase \in SweepPhases,
           ps.startedAt = pass[p].startedAt, ps.seen = pass[p].seen,
           pass' = [pass EXCEPT ![p] = ps], UNCHANGED <<clock, remote>>
    PROVE  WalkInv'
<1>1. pass[p].startedAt <= clock /\ Owed(pass[p].startedAt) \subseteq ps.seen
  BY DEF WalkInv, WalkOK
<1>2. WalkOK(ps)
  BY <1>1 DEF WalkOK, SweepPhases
<1>. QED BY <1>2, OnePassWalks

LEMMA EndingWalks ==
    ASSUME TypeOK, WalkInv, NEW p \in Passes,
           pass' = [pass EXCEPT ![p] = Idle], UNCHANGED <<clock, remote>>
    PROVE  WalkInv'
<1>1. Idle.phase = "idle" /\ Idle.startedAt = 0
  BY DEF Idle
<1>2. WalkOK(Idle)
  BY <1>1 DEF WalkOK, SweepPhases, TypeOK
<1>. QED BY <1>2, IdleIsPass, OnePassWalks

LEMMA PassStepWalks ==
    ASSUME TypeOK, WalkInv, NEW p \in Passes, PassStep(p)
    PROVE  WalkInv'
<1>0. pass[p] \in Pass
  BY DEF TypeOK
<1>1. ASSUME NEW ref \in pass[p].todo, ObserveDocument(p, ref) PROVE WalkInv'
  BY <1>1, ObservingWalks
<1>2. ASSUME NEW d \in Docs, FetchDocument(p, d) PROVE WalkInv'
  BY <1>2, FetchingWalks
<1>3. ASSUME NEW d \in Docs, ReindexDocument(p, d) PROVE WalkInv'
  BY <1>3, ReindexingWalks
<1>4. ASSUME ListStaleDocuments(p) PROVE WalkInv'
  <2> DEFINE next(ph) == [pass[p] EXCEPT !.stale = StaleDocuments(p),
                                         !.phase = ph]
  <2>1. StaleDocuments(p) \in SUBSET StaleDocument
    BY DEF TypeOK, StaleDocuments, StaleDocument, Row
  <2>2. \A ph \in {"delete", "check"} :
           /\ next(ph) \in Pass /\ next(ph).phase = ph
           /\ next(ph).startedAt = pass[p].startedAt
           /\ next(ph).seen = pass[p].seen
    BY <1>0, <2>1 DEF Pass, Phases
  <2>3. /\ \E ph \in {"delete", "check"} : pass' = [pass EXCEPT ![p] = next(ph)]
        /\ UNCHANGED <<clock, remote>> /\ pass[p].phase \in SweepPhases
    BY <1>4 DEF ListStaleDocuments, SweepPhases
  <2> HIDE DEF next
  <2>4. PICK ph \in {"delete", "check"} : pass' = [pass EXCEPT ![p] = next(ph)]
    BY <2>3
  <2>5. next(ph).phase \in SweepPhases
    BY <2>2 DEF SweepPhases
  <2>. QED BY <2>2, <2>3, <2>4, <2>5, SweepingWalks
<1>5. ASSUME NEW s \in pass[p].stale, CheckDocumentExists(p, s) PROVE WalkInv'
  <2> DEFINE g == IF remote[s.doc].exists THEN pass[p].gone
                                          ELSE pass[p].gone \cup {s}
             next(ph) == [pass[p] EXCEPT !.stale = @ \ {s}, !.gone = g,
                                         !.phase = ph]
  <2>1. g \in SUBSET StaleDocument /\ pass[p].stale \ {s} \in SUBSET StaleDocument
    BY <1>0 DEF Pass
  <2>2. /\ \E ph \in {"delete", "check"} : pass' = [pass EXCEPT ![p] = next(ph)]
        /\ UNCHANGED <<clock, remote>> /\ pass[p].phase \in SweepPhases
    BY <1>5 DEF CheckDocumentExists, SweepOn, SweepPhases
  <2> HIDE DEF g
  <2>3. \A ph \in {"delete", "check"} :
           /\ next(ph) \in Pass /\ next(ph).phase = ph
           /\ next(ph).startedAt = pass[p].startedAt
           /\ next(ph).seen = pass[p].seen
    BY <1>0, <2>1 DEF Pass, Phases
  <2> HIDE DEF next
  <2>4. PICK ph \in {"delete", "check"} : pass' = [pass EXCEPT ![p] = next(ph)]
    BY <2>2
  <2>5. next(ph).phase \in SweepPhases
    BY <2>3 DEF SweepPhases
  <2>. QED BY <2>2, <2>3, <2>4, <2>5, SweepingWalks
<1>6. ASSUME DeleteDocuments(p) PROVE WalkInv'
  <2> DEFINE ps == [pass[p] EXCEPT !.phase = "record", !.gone = {}]
  <2>1. /\ ps \in Pass /\ ps.phase = "record"
        /\ ps.startedAt = pass[p].startedAt /\ ps.seen = pass[p].seen
    BY <1>0 DEF Pass, Phases
  <2>2. /\ pass' = [pass EXCEPT ![p] = ps] /\ UNCHANGED <<clock, remote>>
        /\ pass[p].phase \in SweepPhases
    BY <1>6 DEF DeleteDocuments, SweepPhases
  <2> HIDE DEF ps
  <2>3. ps.phase \in SweepPhases
    BY <2>1 DEF SweepPhases
  <2>. QED BY <2>1, <2>2, <2>3, SweepingWalks
<1>7. ASSUME RecordSyncCompletion(p) PROVE WalkInv'
  BY <1>7, EndingWalks DEF RecordSyncCompletion
<1>8. ASSUME FailPass(p) PROVE WalkInv'
  BY <1>8, EndingWalks DEF FailPass
<1>. QED BY <1>1, <1>2, <1>3, <1>4, <1>5, <1>6, <1>7, <1>8 DEF PassStep

LEMMA WalkStep ==
    ASSUME UploadTypeOK, UploadTypeOK', WalkInv, [UploadNext]_allVars
    PROVE  WalkInv'
<1>0. TypeOK /\ TypeOK' /\ clock \in Nat /\ clock' \in Nat
  BY DEF UploadTypeOK, TypeOK
<1>1. ASSUME UNCHANGED <<remote, pass>>, clock <= clock' PROVE WalkInv'
  BY <1>0, <1>1, NoPassWalks
<1>q. ASSUME UNCHANGED <<clock, remote, pass>> PROVE WalkInv'
  BY <1>0, <1>1, <1>q
<1>2. ASSUME NEW p \in Passes, NEW files \in SUBSET Docs, BeginUpload(p, files)
      PROVE  WalkInv'
  <2>1. clock' = clock + 1 /\ UNCHANGED <<remote, pass>>
    BY <1>2 DEF BeginUpload, Tick
  <2>2. clock <= clock'
    BY <1>0, <2>1
  <2>. QED BY <1>1, <2>1, <2>2
<1>3. ASSUME NEW p \in Passes, CommitUpload(p) PROVE WalkInv'
  <2>1. clock' = clock + 1 /\ UNCHANGED pass
    BY <1>3 DEF CommitUpload, Tick
  <2>2. clock <= clock' /\ ~(clock' < clock')
    BY <1>0, <2>1
  <2>3. \A d \in Docs : remote'[d] =
           IF d \notin upload[p].files THEN remote[d]
           ELSE [exists |-> TRUE, version |-> clock',
                 editedAt |-> upload[p].stamp,
                 since |-> IF remote[d].exists THEN remote[d].since ELSE clock']
    BY <1>3 DEF CommitUpload
  <2>4. \A d \in Docs : remote'[d].exists /\ remote'[d].since < clock' =>
           remote[d].exists /\ remote'[d].since = remote[d].since
    <3> SUFFICES ASSUME NEW d \in Docs, remote'[d].exists,
                        remote'[d].since < clock'
                 PROVE  remote[d].exists /\ remote'[d].since = remote[d].since
      OBVIOUS
    <3>1. CASE d \notin upload[p].files
      BY <2>3, <3>1
    <3>2. CASE d \in upload[p].files
      <4> DEFINE s == IF remote[d].exists THEN remote[d].since ELSE clock'
      <4>1. remote'[d] = [exists |-> TRUE, version |-> clock',
                          editedAt |-> upload[p].stamp, since |-> s]
        BY <2>3, <3>2
      <4>2. remote[d].exists => s = remote[d].since
        OBVIOUS
      <4>3. ~remote[d].exists => s = clock'
        OBVIOUS
      <4> HIDE DEF s
      <4>4. remote'[d].since = s
        BY <4>1
      <4>. QED BY <2>2, <4>2, <4>3, <4>4
    <3>. QED BY <3>1, <3>2
  <2>. QED BY <1>0, <2>1, <2>2, <2>4, NoPassWalks
<1>4. ASSUME NEW x \in Deleters, DeleteFiles(x) PROVE WalkInv'
  <2>1. clock' = clock + 1 /\ UNCHANGED pass
    BY <1>4 DEF DeleteFiles, Tick
  <2>2. clock <= clock'
    BY <1>0, <2>1
  <2>3. \A d \in Docs :
           \/ remote'[d] = remote[d]
           \/ remote'[d] = [remote[d] EXCEPT !.exists = FALSE, !.since = clock']
    BY <1>4 DEF DeleteFiles
  <2>4. \A d \in Docs : remote[d] \in RemoteDocument
    BY <1>0 DEF TypeOK
  <2>5. \A d \in Docs : remote'[d].exists => remote'[d] = remote[d]
    BY <2>3, <2>4 DEF RemoteDocument
  <2>6. \A d \in Docs : remote'[d].exists /\ remote'[d].since < clock' =>
           remote[d].exists /\ remote'[d].since = remote[d].since
    BY <2>5
  <2>. QED BY <1>0, <2>1, <2>2, <2>6, NoPassWalks
<1>5. ASSUME NEW p \in Passes, SyncUpload(p) \/ SyncSource(p) PROVE WalkInv'
  BY <1>0, <1>5, StartWalks DEF SyncUpload, SyncSource
<1>6. ASSUME NEW p \in Passes, ListUploadPage(p) PROVE WalkInv'
  BY <1>0, <1>6, ListingWalks
<1>7. ASSUME NEW p \in Passes, SyncStep(p) PROVE WalkInv'
  BY <1>0, <1>7, PassStepWalks DEF SyncStep
<1>8. ASSUME NEW p \in Passes,
             FindUploadSource(p) \/ CreateUploadSource(p) \/ FailUpload(p)
      PROVE  WalkInv'
  BY <1>q, <1>8 DEF FindUploadSource, CreateUploadSource, FailUpload
<1>9. ASSUME NEW x \in Deleters,
             \/ \E d \in Docs : BeginDeleteDocument(x, d)
             \/ BeginDeleteSource(x) \/ DeleteRow(x)
             \/ DeleteUploadSource(x) \/ FailDeletion(x)
      PROVE  WalkInv'
  BY <1>q, <1>9 DEF BeginDeleteDocument, BeginDeleteSource, DeleteRow,
                    DeleteUploadSource, FailDeletion
<1>10. ASSUME UNCHANGED allVars PROVE WalkInv'
  BY <1>q, <1>10 DEF allVars
<1>. QED BY <1>2, <1>3, <1>4, <1>5, <1>6, <1>7, <1>8, <1>9, <1>10 DEF UploadNext

(* The walk by file name misses no file that was stored all through the    *)
(* pass, however many pages it takes and whatever is stored or deleted     *)
(* between two of them (upload.connector.ts listDocuments: the cursor is   *)
(* the last name of the page, and the extra row tells of another page).    *)
THEOREM ListingNeverMissesAFile == UploadSpec => []ListingMissesNoFile
<1>1. UploadInit => WalkInv
  <2> SUFFICES ASSUME Init PROVE WalkInv
    BY DEF UploadInit
  <2>1. Idle.phase = "idle" /\ Idle.startedAt = 0 /\ clock = 1
    BY DEF Idle, Init
  <2>2. WalkOK(Idle)
    BY <2>1 DEF WalkOK, SweepPhases
  <2>. QED BY <2>2 DEF Init, WalkInv
<1>2. UploadTypeOK /\ UploadTypeOK' /\ WalkInv /\ [UploadNext]_allVars => WalkInv'
  BY WalkStep
<1>3. WalkInv => ListingMissesNoFile
  BY DEF WalkInv, WalkOK, SweepPhases, Owed, ListingMissesNoFile
<1>. QED BY <1>1, <1>2, <1>3, UploadTypeCorrect, PTL DEF UploadSpec
=============================================================================
