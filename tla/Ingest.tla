------------------------------- MODULE Ingest -------------------------------
(***************************************************************************)
(* One pass seen from the provider's side: how the connectors of           *)
(* connectors/ list, fetch and check pages over requests that fail, while  *)
(* people edit, move and delete them, and how a fetched body becomes the   *)
(* embedded chunks that sync/sync.service.ts stores.  SyncPass abstracts   *)
(* all of this to "a page of the listing" and "a body"; the rows, the      *)
(* stamps and overlapping passes are there.                                *)
(*                                                                         *)
(* A page is its place in the order Confluence lists pages.                *)
(***************************************************************************)
EXTENDS Integers, FiniteSets, Sequences, Markdown

CONSTANTS
    Pages,            \* the pages the source holds rows for
    PageSize,         \* pageSize of a listing request
    NotionPages,      \* the trees a Notion page may hold
    ConfluencePages,  \* the trees a Confluence page may hold
    Files,            \* [nodes, textFormat] of the uploaded files
    Joins,            \* the costs in tokens of joining two texts
    RetryAfters,      \* values of the Retry-After header, 0 when absent
    MaxClock,         \* bound on the edits and moves of one pass
    MaxTokens, MinTokens,          \* ChunkOptions
    MaxInputTokens, MaxInputs, MaxRequestTokens  \* embeddingModel

ASSUME IngestAssumption ==
    /\ Pages # {} /\ IsFiniteSet(Pages) /\ Pages = 1..Cardinality(Pages)
    /\ {PageSize, MaxTokens, MaxInputs} \subseteq Nat \ {0}
    /\ {MaxClock, MinTokens, MaxInputTokens, MaxRequestTokens} \subseteq Nat
    /\ MaxTokens > 1                       \* a fence leaves room for a token
    /\ MaxInputTokens <= MaxRequestTokens  \* one input fits a request
    /\ Joins \subseteq Int
    /\ RetryAfters \subseteq Nat

(* Pages are trees as the providers' schemas have them: rows lie in        *)
(* tables, lists hold items, rows cells, and a leaf holds no other node.   *)
ASSUME PagesAssumption ==
    /\ \A page \in NotionPages :
           IsTree(page) /\ RowsLieInTables(page, "table_row")
    /\ \A page \in ConfluencePages :
           /\ IsTree(page) /\ RowsLieInTables(page, "tableRow")
           /\ LeavesHoldNothing(page) /\ ItemsAndCells(page)

VARIABLES
    provider,  \* what kind of source this is
    clock,     \* edits so far; every page was edited at another instant
    edited,    \* last_edited_time of each page
    scope,     \* where each page is
    steady,    \* whether it stayed there since the pass started
    stale,     \* documents edited since they were indexed
    phase,     \* where the pass is
    cursor,    \* position after which the listing goes on; 0 at the start
    todo,      \* refs of the listing page in hand
    seen,      \* documents the pass has observed
    request,   \* the retries of the request in flight
    doc,       \* the document in hand
    gone,      \* rows the sweep found without a page
    deleted    \* rows the sweep removed

vars == <<provider, clock, edited, scope, steady, stale, phase, cursor, todo,
          seen, request, doc, gone, deleted>>

given  == <<provider, stale>>
remote == <<clock, edited, scope, steady>>
walk   == <<cursor, todo, seen>>
sweep  == <<gone, deleted>>

-----------------------------------------------------------------------------
(* A trashed page answers 200 with a flag or a status, a moved page lies   *)
(* in a space outside the source, a purged one answers 404.                *)
Scopes == {"current", "trashed", "moved", "purged"}

Phases == {"list", "fetch", "chunk", "embed", "store", "check", "delete",
           "done", "aborted"}

FirstTry == [attempt |-> 0, waited |-> 0]

NoDoc == [page |-> <<>>, body |-> <<>>, nodes |-> <<>>, format |-> "markdown",
          join |-> 0, chunks |-> <<>>, sent |-> <<>>, vectors |-> <<>>,
          rows |-> <<>>]

IngestTypeOK ==
    /\ provider \in {"notion", "confluence", "upload"}
    /\ clock \in 0..MaxClock
    /\ edited \in [Pages -> Nat]
    /\ scope \in [Pages -> Scopes]
    /\ steady \in [Pages -> BOOLEAN]
    /\ stale \subseteq Pages
    /\ phase \in Phases
    /\ cursor \in Nat
    /\ ToSet(todo) \subseteq Pages
    /\ seen \subseteq Pages
    /\ request.attempt \in 0..4 /\ request.waited \in 0..4 * 60
    /\ deleted \subseteq gone /\ gone \subseteq Pages

(* A pass starts with the row of every page in the database.  The files of *)
(* an upload are in hand: how they are listed is UploadSync's.  Bound: a   *)
(* pass has one stale document, or none and people at work on the pages:   *)
(* they cannot reach a document in hand.                                   *)
Init ==
    /\ provider \in {"notion", "confluence", "upload"}
    /\ stale \in {{}, {CHOOSE p \in Pages : TRUE}}
    /\ clock = IF stale = {} THEN 0 ELSE MaxClock
    /\ edited = [p \in Pages |-> p]
    /\ scope \in [Pages -> {"current", IF provider = "confluence"
                                      THEN "moved" ELSE "trashed"}]
    /\ provider = "upload" \/ stale # {} => \A p \in Pages : scope[p] = "current"
    /\ steady = [p \in Pages |-> TRUE]
    /\ phase = IF provider = "upload" THEN "fetch" ELSE "list"
    /\ cursor = 0
    /\ todo = IF provider = "upload" THEN SetToSeq(Pages) ELSE <<>>
    /\ seen = IF provider = "upload" THEN Pages ELSE {}
    /\ request = FirstTry
    /\ doc = NoDoc
    /\ gone = {}
    /\ deleted = {}

-----------------------------------------------------------------------------
(* The people who work at the provider.  Nothing a document goes through   *)
(* once it is fetched depends on them, so what they do meanwhile is left   *)
(* to the next request.                                                    *)
Requesting == phase \in {"list", "check"}

Tick == Requesting /\ clock < MaxClock /\ clock' = clock + 1

EditPage(p) ==
    /\ Tick
    /\ scope[p] = "current"
    /\ edited' = [edited EXCEPT ![p] = Cardinality(Pages) + clock']
    /\ UNCHANGED <<given, walk, sweep, scope, steady, phase, request, doc>>

(* Spaces are Confluence's.                                                *)
MovePage(p, to) ==
    /\ Tick
    /\ scope[p] # to /\ scope[p] # "purged"
    /\ provider = "notion" => to # "moved"
    /\ scope' = [scope EXCEPT ![p] = to]
    /\ steady' = [steady EXCEPT ![p] = FALSE]
    /\ UNCHANGED <<given, walk, sweep, edited, phase, request, doc>>

-----------------------------------------------------------------------------
(* fetchConnectorJson.  An attempt that gets no answer within 30 seconds,  *)
(* loses its connection or is answered 429 or 5xx is repeated after a wait,*)
(* four times at most; any other status is an error at once.               *)
MaxRetries == 4

Failures == {"network", "throttled", "rejected"}

Least(a, b) == IF a < b THEN a ELSE b

(* Mutant: a provider's Retry-After is taken at its word.                  *)
UncappedDelay(failure, retryAfter, attempt) ==
    IF failure = "throttled" /\ retryAfter > 0 THEN retryAfter ELSE 2 ^ attempt

(* Seconds before the next attempt.                                        *)
Delay(failure, retryAfter, attempt) ==
    IF failure = "throttled" /\ retryAfter > 0 THEN Least(retryAfter, 60)
                                               ELSE 2 ^ attempt

(* The first document of the page in hand was edited since it was indexed. *)
Fetching == phase = "fetch" /\ Head(todo) \in stale

(* A failed request ends the pass: the rows stay and nothing is swept.     *)
FailAttempt(failure, retryAfter) ==
    /\ Requesting \/ Fetching
    /\ provider # "upload"
    /\ IF failure = "rejected" \/ request.attempt = MaxRetries
       THEN phase' = "aborted" /\ request' = FirstTry
       ELSE /\ request' = [attempt |-> request.attempt + 1,
                           waited |-> request.waited +
                               Delay(failure, retryAfter, request.attempt)]
            /\ UNCHANGED phase
    /\ UNCHANGED <<given, remote, walk, sweep, doc>>

-----------------------------------------------------------------------------
(* listDocuments.  The provider continues a listing after the position of  *)
(* the last page it served: the edit time in Notion, which is asked for    *)
(* ascending order, a fixed order in Confluence.                           *)

(* Mutant: pages in descending order of their edit.                        *)
NewestFirst(p) ==
    IF provider = "notion" THEN Cardinality(Pages) + MaxClock + 1 - edited[p]
                           ELSE p

Position(p) == IF provider = "notion" THEN edited[p] ELSE p

Listed == {p \in Pages : scope[p] = "current" /\ Position(p) > cursor}

Before(S, p) == {q \in S : Position(q) < Position(p)}

InOrder(S) == [i \in 1..Cardinality(S) |->
                   CHOOSE p \in S : Cardinality(Before(S, p)) = i - 1]

(* Notion answers with a cursor; Confluence with the URL of the next page, *)
(* in its body or in a Link header.                                        *)
FindNextCursor(last, more, link) ==
    IF more /\ link \in {"body", "header"} THEN last ELSE 0

(* One listing request, its documents observed, the page in hand.          *)
ListDocuments(link) ==
    LET order == InOrder(Listed)
        page  == SubSeq(order, 1, Least(PageSize, Len(order)))
        more  == Len(order) > PageSize
        next  == IF page = <<>> THEN 0
                 ELSE FindNextCursor(Position(Last(page)), more, link)
    IN  /\ phase = "list"
        /\ seen' = seen \union ToSet(page)
        /\ todo' = page
        /\ cursor' = next
        /\ phase' = IF page = <<>> THEN "check" ELSE "fetch"
        /\ request' = FirstTry
        /\ UNCHANGED <<given, remote, sweep, doc>>

-----------------------------------------------------------------------------
(* fetchDocumentById: the page, and for Notion the blocks below it.        *)
FetchNotion(page) ==
    LET body == FetchNotionBlockContents(page)
    IN  [NoDoc EXCEPT !.page = page, !.body = body,
                      !.nodes = NotionNodes(page, body)]

FetchConfluence(page) ==
    LET body == Normalized(RenderAtlassianNode(page))
    IN  [NoDoc EXCEPT !.page = page, !.body = body,
                      !.nodes = ConfluenceNodes(page, body)]

FetchUpload(file, join) ==
    [NoDoc EXCEPT !.nodes = file.nodes, !.format = file.textFormat,
                  !.join = join]

(* The parser makes a list of nodes of every document.                     *)
ASSUME ParserAssumption ==
    /\ \A page \in NotionPages : IsParsed(FetchNotion(page).nodes)
    /\ \A page \in ConfluencePages : IsParsed(FetchConfluence(page).nodes)
    /\ \A file \in Files : IsParsed(file.nodes)

FetchDocument(fetched) ==
    /\ Fetching
    /\ phase' = "chunk"
    /\ doc' = fetched
    /\ request' = FirstTry
    /\ UNCHANGED <<given, remote, walk, sweep>>

(* Where the loops go when a document is done.                             *)
NextPhase(rest) == IF rest # <<>> THEN "fetch"
                   ELSE IF cursor # 0 THEN "list" ELSE "check"

(* A document indexed since its last edit is left as it is.                *)
SkipDocument ==
    /\ phase = "fetch"
    /\ Head(todo) \notin stale
    /\ todo' = Tail(todo)
    /\ phase' = NextPhase(todo')
    /\ UNCHANGED <<given, remote, sweep, cursor, seen, request, doc>>

ChunkOptions == [maxTokens |-> MaxTokens, minTokens |-> MinTokens,
                 join |-> doc.join]

ChunkDocument ==
    /\ phase = "chunk"
    /\ doc' = [doc EXCEPT !.chunks = CreateChunks(doc.nodes, doc.format,
                                                  ChunkOptions),
                          !.page = <<>>, !.body = <<>>]
    /\ phase' = "embed"
    /\ UNCHANGED <<given, remote, walk, sweep, request>>

-----------------------------------------------------------------------------
(* embedChunks: the texts it is given carry the document's title and the   *)
(* headings, here one token each.                                          *)
InputTokens(i) == doc.chunks[i].tokenCount + Len(doc.chunks[i].headingPath) + 1

TokensOf(from, to) == Total([k \in 1..(to - from + 1) |->
                                 InputTokens(from + k - 1)])

(* The last text of the batch that starts at `from`: the first text is     *)
(* always taken, and another as long as both limits hold.                  *)
BatchEnd(from) ==
    LET fits == {to \in from..Len(doc.chunks) :
                     to = from \/ /\ TokensOf(from, to) <= MaxRequestTokens
                                  /\ to - from + 1 <= MaxInputs}
    IN  CHOOSE to \in fits : \A other \in fits : other <= to

(* Mutant: the answer is read in the order it came.                        *)
PlaceAsAnswered(batch, items) == [k \in DOMAIN items |-> items[k].vector]

(* Each item of the answer names the input it belongs to.                  *)
PlaceVectors(batch, items) ==
    [k \in DOMAIN batch |->
        (CHOOSE item \in ToSet(items) : item.index = k).vector]

(* One request of embed(), its items answered in some order.  The vector   *)
(* of a text is named by the text.                                         *)
EmbedBatch(order) ==
    LET from  == Len(doc.vectors) + 1
        batch == [k \in 1..(BatchEnd(from) - from + 1) |-> from + k - 1]
        items == [k \in DOMAIN batch |->
                      [index |-> order[k],
                       vector |-> doc.chunks[batch[order[k]]].text]]
    IN  /\ phase = "embed"
        /\ from <= Len(doc.chunks)
        /\ \A k \in DOMAIN batch : InputTokens(batch[k]) <= MaxInputTokens
        /\ order \in Bijection(DOMAIN batch, DOMAIN batch)
        /\ doc' = [doc EXCEPT !.sent = batch,
                              !.vectors = @ \o PlaceVectors(batch, items)]
        /\ UNCHANGED <<given, remote, walk, sweep, phase, request>>

(* A text too long for the model, or an answer the SDK gave up on or that  *)
(* holds another number of vectors: the pass ends.                         *)
FailEmbedding ==
    /\ phase = "embed"
    /\ Len(doc.vectors) < Len(doc.chunks)
    /\ phase' = "aborted"
    /\ doc' = NoDoc
    /\ UNCHANGED <<given, remote, walk, sweep, request>>

(* The rows reindexDocument gets: text and vector of each chunk, by place. *)
AlignRows ==
    /\ phase = "embed"
    /\ Len(doc.vectors) = Len(doc.chunks)
    /\ doc' = [doc EXCEPT !.rows =
                   [i \in DOMAIN doc.chunks |->
                       [text |-> doc.chunks[i].text,
                        embedding |-> doc.vectors[i]]]]
    /\ phase' = "store"
    /\ UNCHANGED <<given, remote, walk, sweep, request>>

StoreDocument ==
    /\ phase = "store"
    /\ doc' = NoDoc
    /\ todo' = Tail(todo)
    /\ phase' = NextPhase(todo')
    /\ UNCHANGED <<given, remote, sweep, cursor, seen, request>>

-----------------------------------------------------------------------------
(* The sweep asks about every row the pass did not observe.                *)
Unchecked == Pages \ (seen \union gone)

(* Mutant: a page of another space still counts.                           *)
CheckStatusOnly(p) == scope[p] \in {"current", "moved"}

(* checkDocumentExists: neither trashed or archived, nor moved to a space  *)
(* outside the source, nor answered 404.                                   *)
CheckDocumentExists(p) == scope[p] = "current"

(* One answer: a page that is there is kept, as if the pass had seen it.   *)
CheckDocument(p) ==
    /\ phase = "check"
    /\ p \in Unchecked
    /\ IF CheckDocumentExists(p)
       THEN seen' = seen \union {p} /\ UNCHANGED gone
       ELSE gone' = gone \union {p} /\ UNCHANGED seen
    /\ request' = FirstTry
    /\ UNCHANGED <<given, remote, phase, cursor, todo, doc, deleted>>

DeleteDocuments ==
    /\ phase = "check"
    /\ Unchecked = {}
    /\ deleted' = gone
    /\ phase' = "done"
    /\ UNCHANGED <<given, remote, walk, request, doc, gone>>

-----------------------------------------------------------------------------
Fetch ==
    /\ Fetching
    /\ \/ /\ provider = "notion"
          /\ \E page \in NotionPages : FetchDocument(FetchNotion(page))
       \/ /\ provider = "confluence"
          /\ \E page \in ConfluencePages :
                 FetchDocument(FetchConfluence(page))
       \/ /\ provider = "upload"
          /\ \E file \in Files, join \in Joins :
                 FetchDocument(FetchUpload(file, join))

Orders == UNION {Bijection(1..n, 1..n) : n \in 1..MaxInputs}

Next ==
    \/ \E p \in Pages : EditPage(p)
    \/ \E p \in Pages, to \in Scopes : MovePage(p, to)
    \/ \E failure \in Failures, s \in RetryAfters : FailAttempt(failure, s)
    \/ \E link \in {"body", "header"} : ListDocuments(link)
    \/ Fetch
    \/ SkipDocument
    \/ ChunkDocument
    \/ \E order \in Orders : EmbedBatch(order)
    \/ FailEmbedding
    \/ AlignRows
    \/ StoreDocument
    \/ \E p \in Pages : CheckDocument(p)
    \/ DeleteDocuments

Spec == Init /\ [][Next]_vars

-----------------------------------------------------------------------------
(* Once the walk is over, every page that stood in the source all along    *)
(* was listed, whatever was edited, moved or repeated meanwhile.           *)
WalkMissesNoPage ==
    phase \in {"check", "done"} =>
        \A p \in Pages : steady[p] /\ scope[p] = "current" => p \in seen

(* A completed pass removes the row of every page that was out of scope    *)
(* all along, and of no page that was in scope all along; an aborted pass  *)
(* removes nothing.                                                        *)
SweepIsExact ==
    /\ phase # "done" => deleted = {}
    /\ \A p \in Pages : steady[p] =>
           /\ scope[p] = "current" => p \notin gone
           /\ phase = "done" /\ scope[p] # "current" => p \in deleted

(* The body a provider's blocks are rendered to holds the text of each of  *)
(* them, in their order and apart from its neighbours: of a Notion page    *)
(* (fetchNotionBlockContents, over pages of children and of table rows)    *)
(* and of a Confluence page (renderAtlassianNode).                         *)
RenderingKeepsText ==
    phase = "chunk" =>
        /\ provider = "notion" => NotionTextIsComplete(doc.page, doc.body)
        /\ provider = "confluence" => ConfluenceTextIsComplete(doc.page, doc.body)

(* chunking.ts:265 says of packChunks: "The packer keeps the chunk order   *)
(* and drops no text"; so would the chunks of a body hold all of it, once, *)
(* in its order.  The code fails it: of a table that is a header row alone *)
(* and over the ceiling, splitOversizeNode makes no piece.                 *)
ChunksKeepTheText ==
    phase = "embed" => TextIsKept(doc.nodes, {}, doc.chunks)

(* Nothing else is lost: the chunks of a body hold all of it but such      *)
(* headers, once, in its order (chunkMarkdown, chunkText and packChunks).  *)
OnlyLoneHeadersAreLost ==
    phase = "embed" =>
        TextIsKept(doc.nodes,
                   IF doc.format = "markdown"
                   THEN LoneHeaders(doc.nodes, MaxTokens) ELSE {},
                   doc.chunks)

(* Merging mixes no two sections and makes no chunk that is over the       *)
(* ceiling (packChunks, mergeLeadingChunks and the tail of packChunks); a  *)
(* code block's piece may be over it by its fence alone.                   *)
MergesAreSound ==
    phase = "embed" =>
        /\ doc.format = "markdown" => SectionsStayApart(doc.nodes, doc.chunks)
        /\ ChunksFit(doc.nodes, doc.chunks, ChunkOptions)

(* A request for embeddings breaks none of the three limits of the model,  *)
(* and every stored chunk has the vector of its own text, whatever the     *)
(* batches and the order of the answers (embedChunks, embedBatch).         *)
EmbeddingIsSound ==
    /\ Len(doc.vectors) <= Len(doc.chunks)
    /\ Len(doc.sent) <= MaxInputs
    /\ doc.sent # <<>> =>
           /\ TokensOf(doc.sent[1], Last(doc.sent)) <= MaxRequestTokens
           /\ \A k \in DOMAIN doc.sent :
                  InputTokens(doc.sent[k]) <= MaxInputTokens
    /\ phase = "store" =>
           /\ Len(doc.rows) = Len(doc.chunks)
           /\ \A i \in DOMAIN doc.rows :
                  doc.rows[i].embedding = doc.rows[i].text
=============================================================================
