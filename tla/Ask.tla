-------------------------------- MODULE Ask --------------------------------
(***************************************************************************)
(* One person's page and the answers it streams: the open chat of          *)
(* web/features/ask/open-chat.ts, the requests it sends through            *)
(* web/lib/api-client.ts, and the answer as chat/chat.controller.ts,       *)
(* chat/agent.loop.ts and the tools of tools/ make it, frame by frame.     *)
(*                                                                         *)
(* The page is one thread: what it does between two awaits is one action.  *)
(* Chats switch while questions are sent, chats are read and answers       *)
(* stream, and every request arrives or fails at its own time.  How two    *)
(* answers of one chat meet in the database is ChatTurns's; here streamTurn *)
(* claims the next turn in one step.                                       *)
(***************************************************************************)
EXTENDS Integers, FiniteSets, Sequences, DatabaseTools

CONSTANTS
    Chats,         \* ids the API may give to new chats
    NoChat,        \* the empty chat at `/`
    Runs,          \* the calls of askQuestion
    Chunks,        \* stored chunks a search may return
    MaxModelCalls, \* model calls of one answer, 50 in the code
    MaxResults,    \* chunks one search returns, 6 in the code
    MaxPieces,     \* bound on the pieces of an answer's text
    MaxWire,       \* bound on the frames of an answer in flight
    MaxReads,      \* bound on latestReadId
    MaxMishaps     \* bound on requests and streams lost and chats deleted

ASSUME AskAssumption ==
    /\ NoChat \notin Chats
    /\ {MaxModelCalls, MaxResults, MaxPieces, MaxWire, MaxReads, MaxMishaps}
           \subseteq Nat

VARIABLES
    page,    \* the signals of OpenChat
    run,     \* each call of askQuestion, in the page
    reads,   \* the reads of chats in flight
    stored,  \* the chats and their turns
    leaving, \* deletions in flight
    answer,  \* each answer, in the API
    wire,    \* the frames sent and not yet read, per run
    mishaps, \* requests and streams lost and chats deleted so far
    undone   \* a history, which no step reads: a chat created for a question
             \* of before the last switch has undone that switch

vars == <<page, run, reads, stored, leaving, answer, wire, mishaps, undone>>

-----------------------------------------------------------------------------
(* A turn, in the page and in the database: the call that asked it, the    *)
(* pieces of its text, each the citation number it writes or 0, and its    *)
(* citations as pairs of number and chunk, in no order.                    *)
NewTurn(r) == [run |-> r, text |-> <<>>, citations |-> {}, state |-> "running"]

IdleRun == [phase |-> "idle", runId |-> 0, turnIndex |-> 0, chat |-> NoChat,
            sawDone |-> FALSE]

(* A session is the number of each chunk that has one.                     *)
NoSession == [k \in {} |-> 0]

NoAnswer == [phase |-> "none", chat |-> NoChat, index |-> 0, calls |-> 0,
             session |-> NoSession, text |-> <<>>,
             citations |-> {}, finished |-> FALSE, closed |-> FALSE]

NoTurns == [state |-> "free", turns |-> <<>>]

Init ==
    /\ page = [openChatId |-> NoChat, turns |-> <<>>, isRunning |-> FALSE,
               isLoadingChat |-> FALSE, latestReadId |-> 0]
    /\ run = [r \in Runs |-> IdleRun]
    /\ reads = {}
    /\ stored = [c \in Chats |-> NoTurns]
    /\ leaving = {}
    /\ answer = [r \in Runs |-> NoAnswer]
    /\ wire = [r \in Runs |-> <<>>]
    /\ mishaps = 0
    /\ undone = FALSE

Open(c) == c \in Chats /\ stored[c].state = "open"

Current(r) == page.latestReadId = run[r].runId

(* Mutant: an answer the person left still writes.                         *)
ChangeTurnAlways(r, turn) ==
    IF run[r].turnIndex \in DOMAIN page.turns
    THEN [page.turns EXCEPT ![run[r].turnIndex] = turn] ELSE page.turns

(* changeTurn: the turns after a call writes its own, which it does only   *)
(* as long as no read and no question came after it.                       *)
ChangeTurn(r, turn) ==
    IF Current(r) THEN [page.turns EXCEPT ![run[r].turnIndex] = turn]
                  ELSE page.turns

(* The turn a call writes; any turn when it is not the latest any more.    *)
OwnTurn(r) == IF run[r].turnIndex \in DOMAIN page.turns
              THEN page.turns[run[r].turnIndex] ELSE NewTurn(r)

EndedRun == [IdleRun EXCEPT !.phase = "ended"]

(* Mutant: the finally block does not ask whether the call is the latest.  *)
EndEveryRun(r, state) ==
    /\ page' = [page EXCEPT
                  !.turns = ChangeTurn(r, [OwnTurn(r) EXCEPT !.state = state]),
                  !.isRunning = FALSE]
    /\ run' = [run EXCEPT ![r] = EndedRun]

(* The end of askQuestion: the state of the turn and, in the finally       *)
(* block, the run state.                                                   *)
EndRun(r, state) ==
    /\ page' = [page EXCEPT
                  !.turns = ChangeTurn(r, [OwnTurn(r) EXCEPT !.state = state]),
                  !.isRunning = IF Current(r) THEN FALSE ELSE @]
    /\ run' = [run EXCEPT ![r] = EndedRun]

-----------------------------------------------------------------------------
(* The person asks; the composer takes a question only when nothing runs   *)
(* and nothing loads.  The first question of a chat creates it.            *)
AskQuestion(r) ==
    LET runId == page.latestReadId + 1
    IN  /\ run[r].phase = "idle"
        /\ ~page.isRunning /\ ~page.isLoadingChat
        /\ runId <= MaxReads
        /\ page' = [page EXCEPT !.turns = Append(@, NewTurn(r)),
                                !.isRunning = TRUE, !.latestReadId = runId]
        /\ run' = [run EXCEPT ![r] =
                      [IdleRun EXCEPT
                         !.phase = IF page.openChatId = NoChat THEN "create"
                                   ELSE "post",
                         !.runId = runId,
                         !.turnIndex = Len(page.turns) + 1,
                         !.chat = page.openChatId]]
        /\ UNCHANGED <<reads, stored, answer, wire, mishaps, leaving, undone>>

(* POST /chat. *)
CreateChat(r, c) ==
    /\ run[r].phase = "create"
    /\ stored[c].state = "free"
    /\ stored' = [stored EXCEPT ![c] = [@ EXCEPT !.state = "open"]]
    /\ run' = [run EXCEPT ![r] = [@ EXCEPT !.phase = "created", !.chat = c]]
    /\ UNCHANGED <<page, reads, answer, wire, mishaps, leaving, undone>>

(* Its answer: the page takes the new chat for the open one, whatever the  *)
(* person opened since.                                                    *)
OpenCreatedChat(r) ==
    /\ run[r].phase = "created"
    /\ page' = [page EXCEPT !.openChatId = run[r].chat]
    /\ run' = [run EXCEPT ![r] = [@ EXCEPT !.phase = "post"]]
    /\ undone' = ~Current(r)
    /\ UNCHANGED <<reads, stored, answer, wire, mishaps, leaving>>

(* POST /chat/:chatId/turns. *)
PostTurn(r) ==
    /\ run[r].phase = "post"
    /\ run' = [run EXCEPT ![r] = [@ EXCEPT !.phase = "stream"]]
    /\ answer' = [answer EXCEPT ![r] = [NoAnswer EXCEPT !.phase = "sent",
                                                        !.chat = run[r].chat]]
    /\ UNCHANGED <<page, reads, stored, wire, mishaps, leaving, undone>>

(* sendRequest throws: an error status, or no answer.                      *)
FailRequest(r) ==
    /\ run[r].phase \in {"create", "created", "post"}
    /\ mishaps < MaxMishaps /\ mishaps' = mishaps + 1
    /\ EndRun(r, "error")
    /\ UNCHANGED <<reads, stored, answer, wire, leaving, undone>>

-----------------------------------------------------------------------------
(* The API: one generator of frames.  A frame reaches the wire unless the  *)
(* socket is closed.                                                       *)
Send(r, frame) ==
    /\ Len(wire[r]) < MaxWire
    /\ wire' = IF answer[r].closed THEN wire
               ELSE [wire EXCEPT ![r] = Append(@, frame)]

Frame(type, value) == [type |-> type, value |-> value]

(* streamTurn: the chat is there and its newest turn does not run.  Both   *)
(* refusals leave as an error frame.                                       *)
StartTurn(r) ==
    LET c == answer[r].chat
        turns == stored[c].turns
        busy == turns # <<>> /\ Last(turns).state = "running"
    IN  /\ answer[r].phase = "sent"
        /\ IF Open(c) /\ ~busy
           THEN /\ stored' = [stored EXCEPT ![c] =
                                 [@ EXCEPT !.turns = Append(turns, NewTurn(r))]]
                /\ answer' = [answer EXCEPT ![r] =
                                 [@ EXCEPT !.phase = "model",
                                           !.index = Len(turns) + 1]]
                /\ UNCHANGED wire
           ELSE /\ answer' = [answer EXCEPT ![r] = [@ EXCEPT !.phase = "over"]]
                /\ Send(r, Frame("error", <<>>))
                /\ UNCHANGED stored
        /\ UNCHANGED <<page, run, reads, mishaps, leaving, undone>>

NumbersOf(session) == {session[k] : k \in DOMAIN session}

(* The model writes a piece of text, with or without the number of a       *)
(* search result it has read.                                              *)
StreamDelta(r, number) ==
    /\ answer[r].phase = "model"
    /\ answer[r].calls < MaxModelCalls
    /\ Len(answer[r].text) < MaxPieces
    /\ number \in {0} \union NumbersOf(answer[r].session)
    /\ answer' = [answer EXCEPT ![r] =
                     [@ EXCEPT !.text = Append(answer[r].text, number)]]
    /\ Send(r, Frame("delta", <<number>>))
    /\ UNCHANGED <<page, run, reads, stored, mishaps, leaving, undone>>

(* A model call ends without a tool call, which ends the answer.           *)
EndAnswer(r) ==
    /\ answer[r].phase = "model"
    /\ answer[r].calls < MaxModelCalls
    /\ answer' = [answer EXCEPT ![r] = [@ EXCEPT !.phase = "finish",
                                                 !.finished = TRUE]]
    /\ UNCHANGED <<page, run, reads, stored, wire, mishaps, leaving, undone>>

(* One tool call of a response runs: the first ends a model call, and the  *)
(* others follow it before the next one.                                   *)
CallsTool(r) ==
    \/ answer[r].phase = "model" /\ answer[r].calls < MaxModelCalls
    \/ answer[r].phase = "tools"

AfterTool(a, more) ==
    [a EXCEPT !.calls = IF a.phase = "model" THEN @ + 1 ELSE @,
              !.phase = IF more THEN "tools" ELSE "model"]

(* Mutant: each search numbers its own results.                            *)
CiteEachSearch(session, results) ==
    [k \in ToSet(results) |-> CHOOSE i \in DOMAIN results : results[i] = k]

(* ToolSession.cite, of one result after the other: a chunk gets the next  *)
(* number the first time an answer finds it, and keeps it.                 *)
Cite(session, results) ==
    LET new     == ToSet(results) \ DOMAIN session
        UpTo(k) == {n \in new : \E i, j \in DOMAIN results :
                        i <= j /\ results[i] = n /\ results[j] = k}
    IN  [k \in DOMAIN session \union new |->
             IF k \in DOMAIN session THEN session[k]
             ELSE Cardinality(DOMAIN session) + Cardinality(UpTo(k))]

Numbered(session, chunks) == {<<session[k], k>> : k \in chunks}

(* The citations a turn holds, in the page and in the database, after more *)
(* arrive: one for each number.                                            *)
AddCitations(held, more) ==
    held \union {m \in more : \A h \in held : h[1] # m[1]}

(* search_document_chunks: the chunks found, nearest first.                *)
SearchDocumentChunks(r, results, more) ==
    LET session == Cite(answer[r].session, results)
        cited   == Numbered(session, ToSet(results))
    IN  /\ CallsTool(r)
        /\ answer' = [answer EXCEPT ![r] =
                         [AfterTool(answer[r], more) EXCEPT
                            !.session = session,
                            !.citations = AddCitations(answer[r].citations,
                                                       cited)]]
        /\ Send(r, Frame("citations", cited))
        /\ UNCHANGED <<page, run, reads, stored, mishaps, leaving, undone>>

(* A database tool (DatabaseTools says what the model reads), or a call    *)
(* that cannot run: the page gets nothing that bears on the answer.        *)
RunTool(r, more) ==
    /\ CallsTool(r)
    /\ answer' = [answer EXCEPT ![r] = AfterTool(answer[r], more)]
    /\ UNCHANGED <<page, run, reads, stored, wire, mishaps, leaving, undone>>

(* The last model call asked for tools: the answer says so.                *)
NotSettled(r) ==
    /\ answer[r].phase = "model"
    /\ answer[r].calls = MaxModelCalls
    /\ answer' = [answer EXCEPT ![r] =
                     [@ EXCEPT !.text = Append(answer[r].text, 0),
                               !.finished = TRUE, !.phase = "finish"]]
    /\ Send(r, Frame("delta", <<0>>))
    /\ UNCHANGED <<page, run, reads, stored, mishaps, leaving, undone>>

(* Mutant: the socket decides nothing, an answer that stops is done.       *)
OutcomesOfGenerator(r) == {"done"}

(* The generator ends by itself; or the model, a search or a write throws, *)
(* or the loop leaves it after a frame the closed socket did not take.     *)
Outcomes(r) ==
    IF answer[r].phase # "finish" THEN {"error"}
    ELSE IF answer[r].closed THEN {"done", "error"} ELSE {"done"}

(* The finally block of streamTurn stores the turn, and the controller     *)
(* sends the last frame.                                                   *)
CompleteTurn(r, outcome) ==
    LET c    == answer[r].chat
        turn == [run |-> r, text |-> answer[r].text,
                 citations |-> answer[r].citations, state |-> outcome]
    IN  /\ answer[r].phase \in {"model", "tools", "finish"}
        /\ outcome \in Outcomes(r)
        /\ stored' = IF Open(c)
                     THEN [stored EXCEPT ![c] =
                              [@ EXCEPT !.turns =
                                  [stored[c].turns EXCEPT
                                      ![answer[r].index] = turn]]]
                     ELSE stored
        /\ answer' = [answer EXCEPT ![r] = [@ EXCEPT !.phase = "over"]]
        /\ Send(r, Frame(IF outcome = "done" /\ Open(c) THEN "done"
                         ELSE "error", <<>>))
        /\ UNCHANGED <<page, run, reads, mishaps, leaving, undone>>

(* The connection goes, and what is on the wire is lost.                   *)
DropStream(r) ==
    /\ answer[r].phase # "none" /\ run[r].phase = "stream"
    /\ ~answer[r].closed
    /\ mishaps < MaxMishaps /\ mishaps' = mishaps + 1
    /\ answer' = [answer EXCEPT ![r] = [@ EXCEPT !.closed = TRUE]]
    /\ wire' = [wire EXCEPT ![r] = <<>>]
    /\ UNCHANGED <<page, run, reads, stored, leaving, undone>>

-----------------------------------------------------------------------------
(* The page reads one frame.                                               *)
ApplyFrame(turn, frame) ==
    CASE frame.type = "delta" -> [turn EXCEPT !.text = @ \o frame.value]
      [] frame.type = "citations" ->
             [turn EXCEPT !.citations = AddCitations(@, frame.value)]
      [] OTHER -> turn

ReadFrame(r) ==
    LET frame == Head(wire[r])
    IN  /\ run[r].phase = "stream"
        /\ wire[r] # <<>>
        /\ wire' = [wire EXCEPT ![r] = Tail(@)]
        /\ IF frame.type = "error"
           THEN EndRun(r, "error")
           ELSE /\ page' = [page EXCEPT !.turns =
                               ChangeTurn(r, ApplyFrame(OwnTurn(r), frame))]
                /\ run' = [run EXCEPT ![r] =
                              [@ EXCEPT !.sawDone = \/ frame.type = "done"
                                                    \/ run[r].sawDone]]
        /\ UNCHANGED <<reads, stored, answer, mishaps, leaving, undone>>

(* Only the done frame proves the answer finished.                         *)
StateAtEnd(r) == IF run[r].sawDone THEN "done" ELSE "error"

EndStream(r) ==
    /\ run[r].phase = "stream"
    /\ wire[r] = <<>>
    /\ answer[r].closed \/ answer[r].phase = "over"
    /\ EndRun(r, StateAtEnd(r))
    /\ UNCHANGED <<reads, stored, leaving, answer, wire, mishaps, undone>>

-----------------------------------------------------------------------------
(* readChat: the thread is cleared and the next one asked for.             *)
Switched(c) ==
    [page EXCEPT !.openChatId = c, !.turns = <<>>, !.isRunning = FALSE,
                 !.isLoadingChat = (c # NoChat), !.latestReadId = @ + 1]

(* Bound. *)
MaySwitch == page.latestReadId < MaxReads

(* openChat, the back button and the first read of the page.               *)
OpenChat(c) ==
    /\ MaySwitch
    /\ c = NoChat \/ Open(c)
    /\ page' = Switched(c)
    /\ reads' = IF c = NoChat THEN reads
                ELSE reads \union {[readId |-> page.latestReadId + 1, chat |-> c]}
    /\ undone' = FALSE
    /\ UNCHANGED <<run, stored, answer, wire, mishaps, leaving>>

(* Mutant: the answers to reads arrive as if each were the latest.         *)
AnyRead(read) == TRUE

LatestRead(read) == read.readId = page.latestReadId

(* A read is answered, or refused when its chat is gone.                   *)
ReceiveChat(read) ==
    /\ read \in reads
    /\ reads' = reads \ {read}
    /\ page' = IF LatestRead(read)
               THEN [page EXCEPT
                       !.turns = IF Open(read.chat)
                                 THEN stored[read.chat].turns ELSE @,
                       !.isLoadingChat = FALSE]
               ELSE page
    /\ UNCHANGED <<run, stored, answer, wire, mishaps, leaving, undone>>

(* The person deletes a chat in the list.  Whether it is the open one is   *)
(* read before the request ...                                             *)
DeleteChat(c) ==
    /\ Open(c)
    /\ stored' = [stored EXCEPT ![c] = [NoTurns EXCEPT !.state = "deleted"]]
    /\ leaving' = leaving \union {[chat |-> c, wasOpen |-> c = page.openChatId]}
    /\ mishaps < MaxMishaps /\ mishaps' = mishaps + 1
    /\ UNCHANGED <<page, run, reads, answer, wire, undone>>

(* ... and after its answer the page starts an empty chat if it was,       *)
(* whatever the person opened since.                                       *)
LeaveDeletedChat(d) ==
    /\ d \in leaving
    /\ leaving' = leaving \ {d}
    /\ IF d.wasOpen
       THEN MaySwitch /\ page' = Switched(NoChat) /\ undone' = FALSE
       ELSE UNCHANGED <<page, undone>>
    /\ UNCHANGED <<run, reads, stored, answer, wire, mishaps>>

-----------------------------------------------------------------------------
(* A search returns the nearest chunks, none twice.                        *)
Results == {s \in SeqOf(Chunks, MaxResults) : IsInjective(s)}

AnswerStep(r) ==
    \/ StartTurn(r)
    \/ \E number \in 0..Cardinality(Chunks) : StreamDelta(r, number)
    \/ \E more \in BOOLEAN :
          \/ \E results \in Results : SearchDocumentChunks(r, results, more)
          \/ RunTool(r, more)
    \/ EndAnswer(r) \/ NotSettled(r)
    \/ \E outcome \in {"done", "error"} : CompleteTurn(r, outcome)

PageStep(r) ==
    \/ \E c \in Chats : CreateChat(r, c)
    \/ OpenCreatedChat(r) \/ PostTurn(r) \/ FailRequest(r)
    \/ ReadFrame(r) \/ EndStream(r)

Next ==
    \/ \E r \in Runs : \/ AskQuestion(r) \/ PageStep(r) \/ AnswerStep(r)
                       \/ DropStream(r)
    \/ \E c \in Chats \union {NoChat} : OpenChat(c)
    \/ \E read \in reads : ReceiveChat(read)
    \/ \E c \in Chats : DeleteChat(c)
    \/ \E d \in leaving : LeaveDeletedChat(d)

Spec == Init /\ [][Next]_vars

-----------------------------------------------------------------------------
(* "A chat switch during an answer makes that answer inert in the browser" *)
(* (open-chat.ts, line 23): every turn on the page is a turn of the chat   *)
(* the page calls open, and the next question goes where the person reads. *)
(* A chat that is created while the person switches breaks it.             *)
ThreadIsTheOpenChat ==
    \A i \in DOMAIN page.turns :
        LET r == page.turns[i].run
        IN  answer[r].phase # "none" => answer[r].chat = page.openChatId

(* That is the only way to break it, and the next switch mends it: however *)
(* reads, answers, deletions and created chats of several questions cross  *)
(* the switches of the person.                                             *)
OnlyCreationUndoes == undone \/ ThreadIsTheOpenChat

(* The text of a turn on the page is what its own answer streamed, all of  *)
(* it when the page calls it done, whatever was switched or lost.          *)
ShownTextIsItsAnswers ==
    \A i \in DOMAIN page.turns :
        LET turn == page.turns[i]
        IN  /\ IsPrefix(turn.text, answer[turn.run].text)
            /\ turn.state = "done" =>
                   /\ turn.text = answer[turn.run].text
                   /\ answer[turn.run].phase = "over"

(* Every number a shown answer cites resolves, among the citations shown   *)
(* beside it, to the chunk the model read under that number.               *)
CitationsResolve ==
    \A i \in DOMAIN page.turns :
        LET turn == page.turns[i]
        IN  \A n \in ToSet(turn.text) \ {0} :
                \E k \in DOMAIN answer[turn.run].session :
                    /\ answer[turn.run].session[k] = n
                    /\ {c \in turn.citations : c[1] = n} = {<<n, k>>}

(* The page says that it answers exactly while its latest question is      *)
(* unanswered, and that it reads exactly while its latest read is under    *)
(* way: neither an abandoned run nor an overtaken read ends what came      *)
(* after it (open-chat.ts, latestReadId).                                  *)
PageTellsWhatItDoes ==
    /\ page.isRunning <=> \E r \in Runs : /\ run[r].phase \notin {"idle", "ended"}
                                          /\ Current(r)
    /\ page.isLoadingChat <=> \E read \in reads : LatestRead(read)

(* A stored turn that is done holds all its answer wrote.                  *)
StoredTurnsAreWhole ==
    \A c \in Chats : \A i \in DOMAIN stored[c].turns :
        LET turn == stored[c].turns[i]
        IN  turn.state = "done" => /\ answer[turn.run].finished
                                   /\ turn.text = answer[turn.run].text

(* Whatever tools a response calls, what the model reads accounts for all  *)
(* it asked for or says that it is partial: what is missing without a word *)
(* the model takes for what does not exist.  Of a statement that matches   *)
(* more rows than the limit, the count alone, which is the limit, says so. *)
ToolTextsAccount ==
    (\E r \in Runs : answer[r].phase = "tools") =>
        /\ DatabasesAreListed /\ TablesAreListed /\ TablesAreDescribed
        /\ RowsAreCounted
=============================================================================
