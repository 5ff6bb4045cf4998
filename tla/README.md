# KnowledgeStack in TLA+

These modules model the parts of KnowledgeStack whose correctness depends on the
order in which things happen: requests of a NestJS API that interleave at every
`await`, transactions that interleave at every statement, a provider and a clock
that change while a pass runs, a process that stops or is released anew, a page that
switches chats while answers stream. They also model the algorithms that a document
and an answer go through: rendering, chunking, batching, citing, cutting to a budget. Paths
below are relative to `src/`.

## 1. The system

KnowledgeStack gives a workspace one place to ask questions. A *sync pass* turns
the documents of a *source* (uploaded files, Notion, Confluence) into embedded
*chunks*; the *agent loop* answers a question from those chunks and from
registered PostgreSQL databases, and a *chat* keeps the turns. The API is one
Node.js process over one PostgreSQL database (`app-db`); during a release a second
process runs for a while beside the first (`docs/azure.md`).

| Component | State it keeps | Operations | Interacts with |
| --- | --- | --- | --- |
| Sync pass, `apps/api/src/sync` | one pass: start time, cursor, page, stale ids | `sync` | connector (list, fetch, exists), document store, embedding |
| Document store, `apps/api/src/documents` | rows of `sources`, `documents`, `document_chunks` | upsert, re-index, list stale, delete, record completion | foreign keys cascade from source to document to chunk |
| Uploads and sources, `apps/api/src/sources`, `connectors/upload.connector.ts`, `connectors/uploaded-file.repository.ts` | rows of `uploaded_files`; pending authorizations in memory | save uploads, sync, delete source, delete document, start and complete an OAuth authorization | sync pass; credential store |
| Provider connectors, `connectors/notion.connector.ts`, `connectors/confluence.connector.ts` | none of their own | list, fetch, check that a document exists | provider over HTTP, token service |
| Chat turns and compaction, `apps/api/src/chat` | rows of `chats` (summary, compacted count) and `turns` | create, read, delete, ask (`streamTurn`), boot sweep | agent loop, OpenAI |
| Agent loop and chat endpoint, `chat/agent.loop.ts`, `chat/chat.controller.ts` | one answer: rounds, tool calls, stream | `streamAnswer`, `createTurn` handler | tools, compaction |
| Tools, `apps/api/src/tools` | citation numbers of one answer | search, list, describe, execute SQL | document store, database connections |
| Database connections, `apps/api/src/database-connections` | rows of `database_connections`; a pool per row in memory | create or correct, test, execute, delete | business databases |
| Workspaces, `apps/api/src/workspaces` | rows of `workspaces`, `workspace_memberships` | create, join, leave | cascades to everything a workspace holds |
| MCP tokens and server, `apps/api/src/mcp` | rows of `mcp_tokens` | create, revoke, find; one server per request | memberships, tools |
| Sessions and sign-in, `auth/session.service.ts`, `auth/auth.service.ts` | rows of `user_sessions` | sign in, find, select workspace, sign out | memberships |
| Provider credentials, `auth/token.service.ts`, `auth/*.oauth.ts` | rows of `source_credentials`; requests in flight, in memory | get or refresh an access token, mark `reauth_required` | providers; the statuses of sources |
| Chunking and embedding, `chunking/`, `embedding/` | none | cut, pack, batch | OpenAI |
| Web client, `apps/web/features` | the open chat, its turns and reads in flight | open, ask, follow history | API |

What is hard in it:

- **Interleaving.** Nothing serialises two passes over one source, two questions in
  one chat, or two requests of one workspace; only unique keys, foreign keys and
  the row locks of three transactions do.
- **Stale state.** A pass fetches a body and stores it much later; a run compacts
  the chat it read at its start; a leave carries an outcome confirmed on an older
  page; a token is minted for a membership read before; a page that waited for an
  answer shows another chat by then.
- **Partial failure and restart.** Every pass, run and delete is several statements
  without a transaction around them; a provider rotates a refresh token before the
  row that holds it is written.
- **Time as evidence.** Two instants decide whether a document is stale, and ten
  minutes decide that a run is dead.
- **Limits.** A chunk, a batch, a tool's text and a listing page are each cut at a
  limit, and what lies on the cut is easily lost.

What makes each part correct is stated as the properties of section 3.

## 2. The modules

| Module | Models | State |
| --- | --- | --- |
| `SyncPass` | `sync/sync.service.ts` with the writes of `documents/*.repository.ts` over an abstract provider | `clock`, `remote` (what the provider serves), `source`, `row` (a document and the version its chunks hold), `pass` |
| `UploadSync` | the upload source: extends `SyncPass`, whose `remote` becomes the table `uploaded_files`; `saveUploads`, `syncSource`, `deleteDocument`, `deleteSource`, the walk by file name | `upload`, `deletion`, `sourceIds` besides |
| `Ingest` | one pass from the provider's side: the walk of Notion and of Confluence with `connector.http.ts` and its retries, the existence checks, and one document from fetch to stored rows with `embedding/embedding.service.ts`; extends `Markdown` | `edited`, `scope` (where each page is), `cursor`, `todo`, `seen`, `request` (the retries), `doc` (the document in hand), `gone`, `deleted` |
| `Rendering` | the text that `notion.connector.ts` and `confluence.connector.ts` make of a tree of blocks; operators only | |
| `Chunking` | `chunking/chunking.ts` from the parsed nodes on, and the fence of `connector.markdown.ts`; operators only | |
| `Markdown` | what the Markdown parser, a library, makes of a rendered page: the nodes of `Chunking` from the text of `Rendering`; operators only | |
| `Texts` | what is left of a text without some of its tokens, for both | |
| `ChatTurns` | the turns of one chat: guard, stale rule, `createTurn`, compaction, `completeTurn`, `deleteChat`, boot sweep | `up`, `chat`, `turns`, `run`; `overrun` (history) |
| `Ask` | one page and the answers it streams: `web/features/ask/open-chat.ts`, `web/lib/api-client.ts`, `chat/chat.controller.ts`, `chat/agent.loop.ts`, the citations of `tools/tool.session.ts`; extends `DatabaseTools` | `page` (the signals of `OpenChat`), `run`, `reads`, `stored` (chats and turns), `leaving`, `answer`, `wire` (frames in flight); `undone` (history) |
| `DatabaseTools` | `tools/database.tools.ts`: what the texts of `list_databases`, `list_tables`, `describe_tables` and `execute_sql` state; operators only | |
| `Workspaces` | one workspace: `createWorkspace`, `joinWorkspace`, `leaveWorkspace` and its MCP tokens, statement by statement | `stage`, `member`, `tokens`, the two lock modes, `request` |
| `Membership` | what a workspace promises: open, join, leave and close, each in one step | `stage`, `members` |
| `Sessions` | who a request acts for: sign-in, session rows, the guard and the cookies of `auth/`, the workspace a browser reads, MCP tokens as credentials | `signIns`, `sessions`, `tokens`, `browser` (the cookies), `joined`, `request` |
| `Credentials` | one provider credential: `auth/token.service.ts` in several processes, the provider's rotation, `startAuthorization` and `completeAuthorization` of `sources/sources.service.ts` | `cred`, `source`, `lock`, `pending` (the in-memory requests), `call`, `grant`, `live` and `issued` (the provider) |
| `DatabasePools` | one registered business database: `createDatabaseConnection`, `testDatabaseConnection`, `deleteDatabaseConnection`, `executeSql` and the pool map | `row`, `lastId`, `pool`, `accepted` (the logins the database accepts), `opened`, `query`, `edit`; `overtaken`, `late` (histories) |
| `SyncPassProofs` (also of `UploadSync`), `IngestProofs`, `ChatTurnsProofs`, `AskProofs`, `WorkspacesProofs`, `SessionsProofs`, `CredentialsProofs`, `DatabasePoolsProofs` | theorems and proofs | |
| `RenderedPages` | the vocabulary of the part of `IngestProofs` that is about rendered pages; no operation of the code | |
| `MC...` | one per checked module: constants and symmetry for TLC; `MCSyncPass` also a history variable, `MCAsk` and `MCSessions` a state constraint | `alone` in `MCSyncPass` |

A request is a record with a `phase`, and an action is what the code does between
two awaits (in `Workspaces`, between two statements of a transaction; its writes
become visible with the last one). A thrown error or a stopped process is an action
of its own (`FailPass`, `FailUpload`, `FailDeletion`, `FailRun`, `RollBack`, `FailRefresh`,
`Crash`, `Lose`, `DropStream`, `Restart`). An operation the code refuses without a write
(a conflict, a missing row) is the absence of a step, or the end of the request where
it had begun. The modules meet where their states overlap: `Sessions` takes a join and
a leave as one step because `Workspaces` implements `Membership`; `Ask` claims a turn in
one step because `ChatTurns` has the race for it; `SyncPass` takes a page of a listing and
a body as given, and `Ingest` has how they come about.

A history variable records what happened and no guard or other variable's step reads it,
so it takes no behaviour away; a property names with it the case in which the code does not
keep a promise, and says that it is the only one. `overrun` holds the turns whose own
run was at work when its ten minutes were over or a process booted, while a run is left that
may write them; `overtaken` the queries
that had read the row before a write and had no pool yet when the pool was closed, and `late`
the ids whose pool such a query built; `undone` that a created chat undid the last switch.
`dropped`, `crossed`, `live` and `mine` below are histories too.

Abstractions, module by module:

- `SyncPass`: an instant is a natural number, 0 is null, and one clock stamps the API
  and the provider. Two successive stamps differ. A document's chunks are the
  version of the body they were cut from; chunking and embedding work on local data
  and belong to the step that fetched. A Notion body that takes several HTTP
  requests is fetched in one step, so a body torn by an edit in between is not
  modelled. A page of a listing is any set of served documents: it may leave one
  out and repeat one. `ServesGone` says that a fetch answers for a document that is
  gone, which a trashed Notion page does.
- `UploadSync`: a file name is a number, so that names are ordered. `updatedAt` is the
  instant the statement is built and `since` the instant the transaction commits.
- `Ingest`: one pass and one document in hand; the rows' stamps and overlapping passes
  are in `SyncPass`. A page is in scope, trashed, moved out of it or purged. A request
  fails with a retry, a `Retry-After` over the limit, or for good; a search result is a
  page of a walk that edits reorder. The trees are the finite sets of `MCIngest`.
- `Rendering`: a page is a sequence of nodes with a type and a parent. A rendered text is
  the node it came from with its prefixes, so bold, links and code marks inside a line
  are left out. `PagesAssumption` has of the providers' schemas what the renderers rely on:
  the nodes are a tree in document order, rows lie in tables, lists hold items, rows hold
  cells, and nothing hangs on a leaf. Task and decision items of Confluence are not in the
  trees of `MCIngest`.
- `Chunking`: a text is a sequence of tokens, each named by the node it comes from, and
  joining two texts costs a number of tokens the encoder chooses, also a negative one
  (`Joins`). The fence of an empty code block counts one token; around a text it costs a
  join besides (`FenceTokens`), and one token more when the text holds three backticks in
  a row (`ticks`), for which `formatMarkdownCodeBlock` lengthens it. Counting tokens is a
  library.
- `Markdown`: `fromMarkdown` is a library as well. It tells headings, code, lists, tables
  and the rest apart, and joins lists with nothing between them. A Notion table is one when
  it has a column header, a Confluence table when a delimiter row follows its first; the
  blocks of `MCIngest` have a count of their own, among them headers over the ceiling.
- `ChatTurns`: turn *i* is `turnIndex` *i - 1*. `old` says that ten minutes have passed
  since `updatedAt`. Which chats reach the token limit is left open, so a run may
  compact whenever there is a turn to compact. The notes are the set of turns folded
  into them, each with or without its answer. Ten minutes may pass whatever the run of
  a turn does, and a process may boot beside a live one.
- `Ask`: the model is a choice of text, citations and tool calls; a piece of text is the
  citation number it writes, or 0. A frame arrives whole or the stream is lost. The list
  of chats beside the thread is left out; a deletion of a chat is a request whose answer
  moves the page.
- `DatabaseTools`: a text is the sequence of facts it states, and a budget a number of facts.
  The budget of `execute_sql` is in characters, so how many rows it has room for varies
  (`RowBudgets`). Of rows past its limit of 1000 the answer says nothing but the count 1000;
  `RowsAreCounted` allows for that.
- `Workspaces`: one workspace; the lock waits of PostgreSQL are guards on `updating`
  and `sharing`. The foreign key of a token waits for a transaction that has deleted
  the membership (`BeingRemoved`). Slugs and join codes are left out.
- `Sessions`: a secret, a `state` value and its hash are the index of their row. What
  Google answers is the person who returned. An expiry is an event, not an instant.
  `live` and `mine` of a request are history.
- `Credentials`: an access token and a refresh token are one number, the n-th pair the
  provider issued; it takes each refresh token once. What a call returns is left out.
  `dropped` and `crossed` are history: the successor was lost, and a mark fell between
  the two saves of a grant. `SlowTransactions` lets the fifteen seconds of the
  transaction end while the request to the provider still runs. `refreshAccessToken` has
  no caller and stays out.
- `DatabasePools`: one name of one workspace in one process. Host, port, user and
  password are one value of `Creds`. Whether a login works depends on `accepted`, which
  the owner of the database changes at will; a pool may still answer from a session it
  kept open. The three clients of a pool, its idle timeout and the read-only transaction
  are not modelled: a wait for a client that runs out is one of the failures. The write of
  a correction and the closing of the pool are two steps, as are the read of a row and the
  taking of its pool, in any order.

## 3. What the runs show

TLC runs each `MC` module with the named configuration. Deadlock is not checked:
every system here may stop when the bounds are reached and nobody acts, and an `Ingest`
pass ends.

| Run | Properties | Bounds |
| --- | --- | --- |
| `SyncPass_overlap` | `StaleIndexDetectable`: chunks that no longer match the provider have an index time before the edit time, so the next pass repairs them. `SweptStaysUnsearchable`: no document outlives its source, and what was gone before the last finished pass began has no chunk. `CompletedPassIsFresh`: a pass that ran alone left each settled document it listed at the served version. `LastSyncedAtAdvances`. `SweepSparesLiveDocuments`: the sweep deletes nothing served all through the pass. | a page and an attachment, 2 passes, 5 instants, 3 rows, 2 pages |
| `UploadSync_walks` | `ListingMissesNoFile`: the walk by name misses no file stored all through the pass. `PassEnds`: a pass ends although files arrive while it walks. | 2 file names, pages of 1, 2 uploads, 1 delete, 5 instants |
| `Ingest_pass` | `WalkMissesNoPage`, `SweepIsExact`: of the pages that stayed where they were, the walk lists all in scope, and the sweep deletes the rows of exactly those out of it; an aborted pass deletes none. `RenderingKeepsText`: every block's text is in the body, in order. `OnlyLoneHeadersAreLost`: every token is in one chunk, but for tables that are a header row over the ceiling. `MergesAreSound`: sections are not mixed, and what is over the ceiling is one piece of a table, a list, or a code block whose fence alone takes it over. `EmbeddingIsSound`: a request keeps the three limits, and every row has its own vector. `IngestTypeOK`, which also bounds the retries. | 3 pages, listing pages of 1, 3 edits or moves; trees of 3 blocks and tables of 3 rows; files of up to 3 nodes; ceilings 4 (chunk), 7 (input), 2 inputs and 8 tokens (request) |
| `ChatTurns_runs` | `TurnsHaveOneWriter`. `NotesMatchCount`: the notes cover exactly the turns the count leaves out, and never the two newest. `SettledTurnIsFinal`: an outcome that was written stays, but for a turn in `overrun`. `ChatUnlocks`: a lost run does not lock a chat for ever. | 2 runs, 4 turns |
| `Ask_pass` | `OnlyCreationUndoes`: the turns shown are those of the chat the next question goes to, unless a created chat undid the last switch. `ShownTextIsItsAnswers`, `PageTellsWhatItDoes`: an abandoned run or an overtaken read changes nothing on the page. `CitationsResolve`: a number in an answer names the chunk the model read under it. `StoredTurnsAreWhole`: a turn stored as done has all its text, also when the reader left. `ToolTextsAccount`: a database tool's text states all it was asked for or says that it is partial; of `execute_sql` its count is the limit otherwise. | 2 chats, 2 questions, 2 chunks, 2 model calls in all, 1 piece of text, 3 reads, 1 loss or deletion |
| `Workspaces_membership` | `NeverMemberless`, `DeletionIsConfirmed`, `TokensBelongToMembers`. `ImplementsMembership`: the transactions implement `Membership`. | 3 people, 3 requests, 4 memberships |
| `Sessions_requests` | `ServesOnlyMembers`: a request acts with a credential that was valid when it came, and never in a workspace its person had left before. `SignInStaysInItsBrowser`: a browser holds only sessions of sign-ins it started. `RowsFollowTheirBrowser`: only its own browser ends or moves a session, and what was signed out or revoked does not come back. `SessionsTypeOK`, where an active workspace is one that exists. | 2 people, 2 browsers, 1 workspace, 2 requests, 2 sign-ins, 1 token, 3 memberships, 1 loss or expiry; `MCMeets`, `MCFewEnd` |
| `Credentials_refresh` | `OneOpenRefresh`: no two calls refresh under open transactions, of one process or two. `NoNeedlessReauth`: a new grant is asked for only when the stored one is dead. `StoredGrantIsLive`: the stored pair works, or the call that rotated it is about to store the next, or that one was lost. `ActiveSourceHasActiveGrant`. `WaitersAreServed`: nobody waits for a call that will not come. | 2 processes, 3 calls, 1 source, 1 authorization, 3 pairs, slow transactions |
| `DatabasePools_follow` | `StoredCredsConnected`: what is stored once opened a connection. `PoolFollowsRow`: a held pool logs in with the stored credentials, or a request that will close it is in flight, or it is `late`. `ErrorClears`: a working connection does not stay marked broken, unless a late query built its pool. | 1 query at a time, 2 requests that write, 2 credentials, 1 row |

Two passes, two runs, two processes, or three people and three requests are the smallest
numbers at which the races of the code exist: the second actor overwrites the first, and
the third person is the one who joins while two leave. Three token calls are a leader, a
call that joins it, and a leader in the other process. Five instants let a pass start, its
document change and a second pass start and overtake the first; the theorems of section 4
have no such bound. Four turns are two compactions of one turn each by runs with
different views; the rule that keeps two turns below 21 is the one exercised, and the
rounded-up tenth above it is covered by the proof only. One id is one database row from its
creation to its deletion; that a later row of the same name is not served by the pool of an
earlier one is covered by `PoolsAlwaysFollowRow`, for any number of rows. The limits
of `Ingest_pass` are chosen so that a paragraph, a list item, a row and a header each fall below, on and above
the ceiling, and that a batch closes by its count and by its tokens.

Each bound stops the growth of one counter (`MaxClock`, `MaxRows`, `MaxPages`,
`MaxSources`, `MaxTurns`, `MaxMemberships`, `MaxTokens`, `MaxSignIns`, `MaxMishaps`,
`MaxReads`, `MaxWire`; `MaxRows` bounds the ids of `DatabasePools` too) and no bound
disables an action altogether. Two runs have a state constraint besides. `MCMeets` drops
the states of `Sessions` in which the two requests in flight neither write what the other
reads, and `MCFewEnd` those in which more than two rows or memberships have ended;
`MCFewSteps` sums the model calls and the text over both answers of `Ask`. Symmetry is used
only in runs without a liveness property.

Every property of these runs is broken by a mutant of the code it is about (for
example `TrustTheListing`, which deletes what a listing left out, or `JoinUnlocked`,
a join without its lock); the mutants stand beside the definitions they replace.

**Where the code and its own text disagree.** Three runs each check one sentence of a
comment and find a behaviour that contradicts it:

| Run | Sentence | What happens |
| --- | --- | --- |
| `UploadSync_stamp` | `uploaded-file.repository.ts:51`, a replaced file gets a new `updatedAt`, "which is how the next sync pass learns to re-embed it" | `updatedAt` is taken before the commit; a pass that starts in between stores the old text with a later index time, and no later pass repairs it |
| `Ingest_header` | `chunking.ts:265`, "The packer keeps the chunk order and drops no text" | a table that is only a header row, longer than a chunk, is cut into no chunk |
| `Ask_switch` | `open-chat.ts:23`, a chat switch "makes that answer inert in the browser" | a person who opens another chat while the first question of a new one is being created is taken back: `openChatId` is the new chat, over the turns of the other |

The passing runs have the last two cases as well: `OnlyLoneHeadersAreLost` and
`OnlyCreationUndoes` say that beyond them nothing goes wrong.

Other behaviour met while modelling:

- `chat.service.ts:145` says "A running turn older than 10 minutes belongs to no live run,
  because the loop stops at 50 model calls of a few seconds each". Nothing ends a run then,
  and one SQL statement of a tool may take a minute (`database-connection.pool.ts:61`): the
  next question fails the turn of a run at work, which later writes over it.
- `chat.service.ts:46` says "a running turn at startup belongs to a run that a restart
  ended. One API container runs". A release starts the new process beside the old one
  (`docs/azure.md:179`), and its boot sweep fails turns that the old one is answering.
  `ChatTurns` has both cases, and `SettledTurnIsFinal` says that they reach no other turn.
- `chunking.ts:131` says of a code block "Every piece is re-fenced, so the fence and the
  language must come out of each piece's budget". Only an empty block's fence comes out of
  it: a piece with backticks gets a longer one (`connector.markdown.ts:46`) and may be over
  the ceiling. `MergesAreSound` says that the fence alone takes a piece of code there.
- Of two questions that pass the guard together the second to count takes the next index
  and both answer (`chat.repository.ts:63`), although `chat.service.ts:147` says the loser
  throws.
- A query that read the row before a correction and takes its pool after `closePool`
  (`database-connection.pool.ts:151`) builds one from the replaced credentials
  (`database-connection.pool.ts:45`), and later queries take it until the next correction
  or restart (`late`). A second API process keeps pools that nobody closes from outside;
  it is not modelled.
- `deleteDocument` removes the file and then the row in two calls
  (`sources.service.ts:205`). `UploadSync` has both and the stop between them, but no property
  speaks of that moment: the row stays searchable until the next pass.
- With `ServesGone` TRUE in the configuration and two passes, an older pass gives a swept
  Notion page its row and chunks back until the next pass sweeps it.
- A piece of a table or a list may pass the ceiling by its line ends, which
  `packSourceUnits` does not count (`chunking.ts:93`); two neighbouring sections with the
  same heading text count as one.
- Two tabs that sign in share one state cookie: the first callback is refused and clears
  the state of the second. `createWorkspace` and `joinWorkspace` commit before
  `selectWorkspace`, which can fail. A leave keeps the session's active workspace, which
  reads as none until the person rejoins. A second sign-in leaves the first row to expire.
- `renderAtlassianNode` ends neither a `blockCard` nor, in its default branch
  (`confluence.connector.ts:230`), the items of a `taskList` with a line end: at the top
  level of a Confluence page they run into the block after them. `TextLiesInBlocks` is what
  a page without them has.
- The state of an authorization is kept in memory and taken out at once: a restart between
  the two halves loses it, and the person begins again.

Two comments are imprecise and have no run of their own. `document.prisma:106` calls
`lastIndexedAt` the "Time the chunks were last written"; it is the start of the pass,
and the choice is what makes `StaleIndexDetectable` hold. `notion.connector.ts:386`
says the sweep reads an omission "as a deletion"; it asks about every omitted document
and keeps the live ones (`TrustTheListing` is the mutant that does what it says).

**Fairness.** `PassEnds` assumes weak fairness of every step of a pass: an await of
Node.js returns or throws. It assumes nothing of uploads. `ChatUnlocks` assumes the
same of a run, that ten minutes pass, that the platform restarts a stopped process,
and two things that are not the code's: that the person keeps asking (the code fails
a stale turn only when a question arrives) and that `failTurn`, tried again and again,
succeeds in the end (strong fairness of `FailStaleTurn`). `ErrorClears` assumes that awaits
return, that questions keep coming and are not all wrong SQL, so that of the queries whose
pool logs in with credentials the database accepts one succeeds in the end, and that
restarts do not interrupt the same step every time. A query through a pool that the
database refuses is owed nothing: `CorrectWithoutClose`, which leaves such a pool, breaks it.

## 4. What is proved

The proofs hold for every value of the constants that the named assumptions admit
(bounds are naturals, `Nobody` is not a person, flags are Booleans): any number of
passes, pages, files, runs, people, processes and requests. The type invariants are
theorems; those of `Sessions` and `Ingest` are in a run as well.

- `SyncPassProofs`, in three parts over one set of lemmas.
  - `TypeCorrect`, `StaleIndexIsDetectable`, `LastSyncedAtIsMonotone`.
    `StaleIndexDetectable` alone is not inductive: a pass that holds a body in hand
    may be about to write it. The invariant adds that what a pass holds, if it is no
    longer what the provider serves, was edited after the pass began, and that no
    stamp lies ahead of the clock. `LonePassLeavesAllFresh` (`CompletedPassIsFresh`) carries
    the history variable of `MCSyncPass` and says at each point of a pass which of its
    documents are behind it.
  - `RowsNeverOutliveSource`, `SweepAlwaysSparesLiveDocuments` and, where `ServesGone` is
    FALSE, `SweptAlwaysUnsearchable`. Row ids are given out once, so the rows a sweep
    deletes are the ones it asked about; what a pass lists as stale was last seen
    before it began; and a document that is gone cannot be fetched, so an older pass has
    nothing in hand with which to make it searchable after a newer one finished.
  - `UploadTypeCorrect` and `ListingNeverMissesAFile`, for every page size and any set of
    names. Lemmas about finite sets of numbers show that a page is the first names after
    the cursor, that the cursor is its greatest, and that a page without a successor is
    all that is left. The invariant says what a pass has seen, or holds of the page in
    hand: every file it owes up to its cursor, and after the last page every file it
    owes. A file stored or deleted meanwhile is owed by no running pass.
- `IngestProofs`: `IngestTypeCorrect`, `WalkNeverMissesAPage` and `SweepIsAlwaysExact`. A
  page's rank among the listed ones is an injection into as many numbers, hence onto them:
  so the listing's order holds every page, and a served page is the part of it before the
  new cursor. What stood in the source all along and is unseen lies past the cursor of a
  walk that goes on; an edit only moves it further.
  `EmbeddingIsAlwaysSound`, for every document that a parser may make (`ParserAssumption`: a
  list of nodes, and no table without a row) and any limits with `MaxTokens` above 1, what
  a fenced piece needs, and `MaxInputTokens` at most `MaxRequestTokens`: chunks, vectors and
  rows keep their places. The recursion behind a fold is unfolded once, by induction over
  a set of numbers (`FoldExists`, `FoldStays`); then each fold of `Chunking` is run turn by
  turn (`StackRuns`, `PackUnitsRuns`, `SharedPathRuns`, `PackingRuns`). `DocInv` follows
  one document: its vectors are those of its first chunks.
  `MergesAreAlwaysSound`, under the same assumptions, has chunks of a kind, `SoundChunks`:
  every token stands under the chunk's headings, and what is above the ceiling holds tokens
  of one table or list in rising order, hence none twice, or of a code block with room for
  them and an empty fence. Cutting a node gives such chunks (`NodeIsSound`: the places of its
  units rise, and a header row lies before all of them), whatever the fence of a piece comes
  to, and a merge within a section and under the ceiling leads from such chunks to such
  chunks (`SoundChunksMerge`), so `packChunks` never leaves them. The invariant it needs of
  the loop is that the chunks which wait for a merge have one heading path (`Packing`).
  `ChunksAlwaysKeepTheRest` says that nothing is cut off but the tables of a header row alone
  that are over the ceiling, in files and in pages: a text keeps another (`AlikeConcat`,
  `WithoutConcat`) when both are equal without the header tokens, and that relation survives
  the cut of a node (`NodeKeeps`), the flattening of the nodes (`MarkdownKeeps`) and each
  merge. A lone header that fits is a chunk of its own (`HeaderIsWhole`), and one that does not
  is cut into no piece (`LoneHeaderIsLost`), as the run `Ingest_header` shows. It has no
  hypothesis on the documents.
  `EveryTextIsRendered` and `RenderingAlwaysKeepsText` are about the renderers, for trees of
  any shape and depth. Since a page lists a node before what hangs on it, all that lies
  below a node is an interval of the list (`EndIsEnd`). Both renderers are recursive
  functions: that one exists with the equation the code gives it is shown by building it
  rank by rank (`RecursionSolves`), and nothing else of it is used. Then, from the last node
  to the first, what the recursion makes of a node is what is expected of its interval:
  for Notion the lines of the blocks, with the list depth, the quote depth and the delimiter
  row that their ancestors give them (`NotionBelow`); for Confluence the leaves, once the
  marks are left out (`ConfluenceBelow`), which joining, trimming, indenting and the final
  replacement of line ends all keep. For the blank lines of Confluence a token is open while
  no blank line follows it: a block of the top level leaves none open (`NodeIsSealed`), a
  block's tokens stay together (`TokensLieTogether`), and so two blocks have a blank line
  between them (`DocumentIsApart`), which the replacement keeps (`SqueezeKeeps`). This last
  part has a hypothesis on the pages, `TextLiesInBlocks`, for the reason given in section 3;
  `EveryTextIsRendered` has none.
- `ChatTurnsProofs`: `ChatTypeCorrect`, `TurnsAlwaysHaveOneWriter`,
  `NotesAlwaysMatchCount`. A run holds a turn that exists and no two hold the same
  one; the primary key is what keeps this when two runs have counted alike. For the
  notes, each run's view has its notes equal to its count, and its count two or more
  below the turns that exist. For `SettledTurnsAreFinal`, which has no
  hypothesis, the turn of a run at work is running or in `overrun`, and the turn that a
  question is about to fail has run for ten minutes, has failed already, or is in
  `overrun`; so what is in flight can only write over a turn of that set, which forgets a
  turn as soon as nothing in flight can write it.
- `AskProofs`: `PageStateFollowsTheLatest`, `DoneTurnsAreWhole`, `ShownTextIsTheAnswers`,
  `ShownCitationsResolve` and `ThreadStaysTheOpenChat`, which has no hypothesis: as long as no
  created chat has undone a switch, what the page waits for belongs to the open chat.
  A turn on the page is one of two: the turn the latest call writes, of which the invariant
  says that its text and the deltas on the wire make up the answer's text while the
  connection holds, or a copy of a stored turn, which is a prefix of its answer. A session
  numbers its chunks one to one, and the citations on the page and on the wire are all of its pairs that the text can name.
  `ToolTextsAlwaysAccount` is about what the model reads meanwhile: a text of any length
  either fits its budget or ends in a line that says it was cut (`CutAccounts`), and a list
  of the first names is all of them or comes with the word that there are more
  (`FirstAreAll`); `NamesAssumption` says that a database's tables have an order.
- `WorkspacesProofs`: `WorkspaceTypeCorrect`, `WorkspaceIsNeverMemberless`,
  `DeletionIsAlwaysConfirmed`, `TokensAlwaysBelongToMembers` and
  `WorkspacesImplementMembership`. The invariant relates locks to phases: a leave
  from its first statement on holds the row alone, so what it has read (that the
  person is a member, that nobody else is) stays true until it commits. The
  refinement maps each commit to one step of `Membership` and every other statement
  to a stutter.
- `SessionsProofs`: `SessionsTypeCorrect`, `OnlyMembersAreServed`, `SignInsStayInTheirBrowser`
  and `RowsAlwaysFollowTheirBrowser`, an action property. The invariant keeps for each request
  what it read (whether its credential was valid when it came, whose memberships were live
  since) and for each row the sign-in and the browser it came from.
- `CredentialsProofs`: `TypeCorrect`, `RefreshesAreAlone`, `WaitersAreAlwaysServed`,
  `ReauthIsNeverNeedless`, `ActiveSourcesAreGranted` and `StoredGrantStaysLive`. A call that
  refreshes holds the row lock, and the row still holds the token it sent. Pairs are
  numbered as they are issued, so a new one was neither stored, sent nor live before; a
  token answered with `invalid_grant` is dead for good; and a pair that came back has been
  sent by nobody.
- `DatabasePoolsProofs`: `PoolsTypeCorrect`, `StoredCredsAlwaysConnected` and
  `PoolsAlwaysFollowRow`, none with a hypothesis. A query that has read the row and has no
  pool yet either read it as it stands, or a request is still to close the pool, or the
  closing overtook the query (`ReadsAreCovered`); so a pool that none of this accounts for
  is `late`.

A proof attempt changed a model: `WalkMissesNoPage` fails for page numbers with gaps, where
an edit could move a Notion page before the cursor; `IngestAssumption` now says that pages
are numbered from 1 without gaps.

Only model-checked: the three liveness properties, which are outside the prover. An
induction over data as the library states it is outside the prover too, since its theorems
take a predicate as a parameter; one over a set of numbers, for one fold or one recursion
at a time, is not, and that is how `IngestProofs` and `AskProofs` have theirs. Where a
statement filters a sequence it does so with `FlattenSeq`, a fold; no backend opens
`SelectSeq`.

## 5. Not modelled

- Configuration, contracts, deployment and demo data have no state of their own.
- Of the workspaces: `createSlug`, whose race between reading the taken slugs and
  inserting only costs one of two equal names an error (`workspaces.service.ts:35`), and
  the making of join codes.
- Of the tools: which chunks a search finds (`documents/document.repository.ts`, a
  similarity query of the database) and how rows of SQL are laid out.
- Of the web client: the pages other than the open chat render what one request returned;
  `ChatRows` is not modelled.
- Libraries: Markdown parsing, tokenisation, encryption, the login of Google.

`PROJECT.json` lists each component with its reason, and under `hazards` what can go wrong
in this code at which line and which property would catch it.

## 6. Plan

Done, in this order because it is what the system is for: `SyncPass`, then `UploadSync`
(which composes it with the upload source), `ChatTurns`, `Workspaces` over `Membership`,
`DatabasePools`, `Credentials`, `Sessions`, `Ingest` over `Rendering` and `Chunking`, `Ask` over
`DatabaseTools`, and the proofs of section 4. Next:

1. `ChatRows` beside `Ask`: the list of chats, its refreshes and the deletion from it.
