----------------------------- MODULE AskProofs -----------------------------
(***************************************************************************)
(* What the page shows, for any number of chats, questions and chunks, and *)
(* however many frames an answer has and the page has not read.            *)
(***************************************************************************)
EXTENDS Ask, SequenceTheorems, FiniteSetTheorems, WellFoundedInduction,
        NaturalsInduction, TLAPS

-----------------------------------------------------------------------------
States == {"running", "done", "error"}

Citation == Nat \X Chunks

Turn == [run: Runs, text: Seq(Nat), citations: SUBSET Citation, state: States]

Page == [openChatId: Chats \union {NoChat}, turns: Seq(Turn),
         isRunning: BOOLEAN, isLoadingChat: BOOLEAN, latestReadId: Nat]

RunPhases == {"idle", "create", "created", "post", "stream", "ended"}

Run == [phase: RunPhases, runId: Nat, turnIndex: Nat,
        chat: Chats \union {NoChat}, sawDone: BOOLEAN]

Read == [readId: Nat, chat: Chats]

Chat == [state: {"free", "open", "deleted"}, turns: Seq(Turn)]

Session == {s \in UNION {[S -> Nat] : S \in SUBSET Chunks} :
                IsFiniteSet(DOMAIN s)}

AnswerPhases == {"none", "sent", "model", "tools", "finish", "over"}

Answer == [phase: AnswerPhases, chat: Chats \union {NoChat}, index: Nat,
           calls: Nat, session: Session, text: Seq(Nat),
           citations: SUBSET Citation, finished: BOOLEAN, closed: BOOLEAN]

DeltaFrame == {Frame("delta", <<n>>) : n \in Nat}

CitationsFrame == {Frame("citations", s) : s \in SUBSET Citation}

LastFrame == {Frame(t, <<>>) : t \in {"done", "error"}}

FrameSet == DeltaFrame \union CitationsFrame \union LastFrame

AskTypeInv ==
    /\ page \in Page
    /\ run \in [Runs -> Run]
    /\ reads \subseteq Read
    /\ stored \in [Chats -> Chat]
    /\ leaving \subseteq [chat: Chats, wasOpen: BOOLEAN]
    /\ answer \in [Runs -> Answer]
    /\ wire \in [Runs -> Seq(FrameSet)]

-----------------------------------------------------------------------------
Active(r) == run[r].phase \notin {"idle", "ended"}

(* The question the page is waiting for.                                   *)
Live(r) == Active(r) /\ Current(r)

(* An id is given out once, to a question or to a read, and the latest one *)
(* says what the page does.                                                *)
IdsHold ==
    /\ \A r \in Runs : IF Active(r) THEN run[r].runId \in 1..page.latestReadId
                                    ELSE run[r] \in {IdleRun, EndedRun}
    /\ \A read \in reads : read.readId \in 1..page.latestReadId
    /\ \A r, q \in Runs : Live(r) /\ Live(q) => r = q
    /\ \A a, b \in reads : LatestRead(a) /\ LatestRead(b) => a = b
    /\ \A r \in Runs, read \in reads : Live(r) => ~LatestRead(read)
    /\ PageTellsWhatItDoes

(* A question is answered after it is posted, by one answer, in its chat.  *)
AnswerFollows(r) ==
    /\ run[r].phase \in {"idle", "create", "created", "post"} =>
           answer[r].phase = "none"
    /\ run[r].phase = "stream" => /\ answer[r].phase # "none"
                                  /\ answer[r].chat = run[r].chat
    /\ run[r].phase \in {"created", "post", "stream"} => run[r].chat \in Chats
    /\ answer[r].phase = "none" => answer[r] = NoAnswer /\ wire[r] = <<>>
    /\ answer[r].phase # "none" => answer[r].chat \in Chats
    /\ answer[r].closed => wire[r] = <<>>

AnswersFollow == \A r \in Runs : AnswerFollows(r)

(* A turn on the page is the one its question writes, or nothing writes it *)
(* any more.                                                               *)
TurnOfARun(i) ==
    LET r == page.turns[i].run
    IN  \/ Live(r) /\ run[r].turnIndex = i
        \/ run[r].phase = "ended"
        \/ answer[r].phase # "none"

TurnsHold ==
    /\ \A r \in Runs : Live(r) =>
           /\ run[r].turnIndex \in DOMAIN page.turns
           /\ page.turns[run[r].turnIndex].run = r
    /\ \A i \in DOMAIN page.turns : TurnOfARun(i)

(* A stored turn is empty while its answer runs, and all of it after.      *)
StoredTurnHolds(c, turn) ==
    LET a == answer[turn.run]
    IN  /\ a.phase \notin {"none", "sent"} /\ a.chat = c
        /\ turn.state = "running" => turn.text = <<>> /\ turn.citations = {}
        /\ turn.state # "running" => /\ a.phase = "over"
                                     /\ turn.text = a.text
                                     /\ turn.citations = a.citations
        /\ turn.state = "done" => a.finished

StoredHold ==
    \A c \in Chats : \A i \in DOMAIN stored[c].turns :
        StoredTurnHolds(c, stored[c].turns[i])

(* Each chunk of a session has a number of its own, all of them are among  *)
(* the citations, and the text cites no other.                             *)
SessionIsSound(session) ==
    /\ \A k \in DOMAIN session :
           session[k] \in 1..Cardinality(DOMAIN session)
    /\ \A k, l \in DOMAIN session : session[k] = session[l] => k = l

AnswerHolds(a) ==
    /\ SessionIsSound(a.session)
    /\ a.citations = Numbered(a.session, DOMAIN a.session)
    /\ \A i \in DOMAIN a.text : a.text[i] \in {0} \union NumbersOf(a.session)
    /\ a.phase = "finish" => a.finished

AnswersHold == \A r \in Runs : AnswerHolds(answer[r])

(* What is shown of an answer is where it starts, with the chunks it cites. *)
Resolved(n, a, citations) ==
    n # 0 => \E k \in DOMAIN a.session :
                 a.session[k] = n /\ <<n, k>> \in citations

Starts(text, whole) ==
    /\ Len(text) <= Len(whole)
    /\ \A i \in DOMAIN text : text[i] = whole[i]

ShownTurnHolds(turn) ==
    LET a == answer[turn.run]
    IN  /\ Starts(turn.text, a.text)
        /\ turn.citations \subseteq a.citations
        /\ \A i \in DOMAIN turn.text : Resolved(turn.text[i], a, turn.citations)
        /\ turn.state = "done" => turn.text = a.text /\ a.phase = "over"

ShownHold == \A i \in DOMAIN page.turns : ShownTurnHolds(page.turns[i])

(* The frames on the way continue the turn to the end of the answer, and   *)
(* bring each chunk before the text that cites it.  at[j] is where the     *)
(* text is when frame j is read.                                           *)
Sent(w, j) == IF w[j].type = "citations" THEN w[j].value ELSE {}

SentBefore(w, j) == UNION {Sent(w, i) : i \in 1..(j - 1)}

Continues(text, w, whole) ==
    \E at \in [1..(Len(w) + 1) -> 0..Len(whole)] :
        /\ at[1] = Len(text) /\ at[Len(w) + 1] = Len(whole)
        /\ \A j \in DOMAIN w :
               IF w[j].type = "delta"
               THEN at[j + 1] = at[j] + 1 /\ w[j].value = <<whole[at[j] + 1]>>
               ELSE at[j + 1] = at[j]

InStep(turn, a, w) ==
    /\ Continues(turn.text, w, a.text)
    /\ turn.citations \union SentBefore(w, Len(w) + 1) = a.citations
    /\ \A j \in DOMAIN w : w[j].type = "delta" =>
           Resolved(w[j].value[1], a, turn.citations \union SentBefore(w, j))

LiveTurnHolds(r) ==
    LET turn == page.turns[run[r].turnIndex]
    IN  /\ turn.state = "running"
        /\ ~answer[r].closed => InStep(turn, answer[r], wire[r])
        /\ run[r].sawDone => /\ turn.text = answer[r].text
                             /\ answer[r].phase = "over"
                             /\ wire[r] = <<>>

LiveHold == \A r \in Runs : Live(r) => LiveTurnHolds(r)

(* The done frame is the last.                                             *)
DoneIsLast ==
    \A r \in Runs : \A j \in DOMAIN wire[r] :
        wire[r][j].type = "done" => j = Len(wire[r]) /\ answer[r].phase = "over"

ShowInv == /\ AnswersFollow /\ TurnsHold /\ StoredHold /\ AnswersHold
           /\ ShownHold /\ LiveHold /\ DoneIsLast

-----------------------------------------------------------------------------
(* The invariant behind OnlyCreationUndoes.  A question that creates its   *)
(* chat and is still the latest stands in a thread nothing has answered:   *)
(* so its chat, whatever the page called open before, is the thread's.     *)
CreatedIsBlank ==
    \A r \in Runs : run[r].phase \in {"create", "created"} /\ Current(r) =>
        \A i \in DOMAIN page.turns : answer[page.turns[i].run].phase = "none"

LiveIsOpen ==
    /\ \A r \in Runs : Live(r) /\ run[r].phase \in {"post", "stream"} =>
           run[r].chat = page.openChatId
    /\ \A read \in reads : LatestRead(read) => read.chat = page.openChatId

ThreadInv == /\ CreatedIsBlank
             /\ undone => page.openChatId # NoChat
             /\ undone \/ (LiveIsOpen /\ ThreadIsTheOpenChat)

-----------------------------------------------------------------------------
LEMMA SearchesFindChunks ==
    ASSUME NEW results \in Results
    PROVE  /\ results \in Seq(Chunks)
           /\ \A i, j \in DOMAIN results : results[i] = results[j] => i = j
           /\ IsFiniteSet(ToSet(results))
           /\ ToSet(results) \subseteq Chunks
<1>1. PICK m \in 0..MaxResults : results \in [1..m -> Chunks]
    BY DEF Results, SeqOf
<1>2. m \in Nat
    BY AskAssumption
<1>3. results \in Seq(Chunks)
    BY <1>1, <1>2, SeqDef
<1>4. \A i, j \in DOMAIN results : results[i] = results[j] => i = j
    BY DEF Results, IsInjective
<1>5. results \in Surjection(1..m, ToSet(results))
    BY <1>1 DEF Surjection, ToSet
<1>6. IsFiniteSet(1..m)
    BY <1>2, FS_Interval
<1>7. IsFiniteSet(ToSet(results))
    BY <1>5, <1>6, FS_Surjection
<1>8. ToSet(results) \subseteq Chunks
    BY <1>1 DEF ToSet
<1> QED BY <1>3, <1>4, <1>7, <1>8

LEMMA SessionType ==
    ASSUME NEW s \in Session
    PROVE  /\ s \in [DOMAIN s -> Nat]
           /\ DOMAIN s \subseteq Chunks
           /\ IsFiniteSet(DOMAIN s)
    BY DEF Session

LEMMA CiteIsSound ==
    ASSUME NEW session \in Session, SessionIsSound(session),
           NEW results \in Results
    PROVE  LET s == Cite(session, results)
           IN  /\ s \in Session
               /\ SessionIsSound(s)
               /\ DOMAIN s = DOMAIN session \union ToSet(results)
               /\ \A k \in DOMAIN session : s[k] = session[k]
<1> DEFINE new == ToSet(results) \ DOMAIN session
           UpTo(k) == {n \in new : \E i, j \in DOMAIN results :
                           i <= j /\ results[i] = n /\ results[j] = k}
           held == Cardinality(DOMAIN session)
           s == Cite(session, results)
<1>1. /\ IsFiniteSet(DOMAIN session) /\ DOMAIN session \subseteq Chunks
      /\ session \in [DOMAIN session -> Nat]
    BY SessionType
<1>2. /\ IsFiniteSet(new) /\ new \subseteq Chunks
    BY SearchesFindChunks, FS_Subset
<1>3. held \in Nat /\ Cardinality(new) \in Nat
    BY <1>1, <1>2, FS_CardinalityType
<1>4. s = [k \in DOMAIN session \union new |->
               IF k \in DOMAIN session THEN session[k]
               ELSE held + Cardinality(UpTo(k))]
    BY DEF Cite
<1>5. DOMAIN s = DOMAIN session \union new
    BY <1>4
<1>6. ASSUME NEW k \in new
      PROVE  /\ IsFiniteSet(UpTo(k))
             /\ Cardinality(UpTo(k)) \in 1..Cardinality(new)
  <2>1. UpTo(k) \in SUBSET new
    OBVIOUS
  <2>2. /\ IsFiniteSet(UpTo(k)) /\ Cardinality(UpTo(k)) \in Nat
        /\ Cardinality(UpTo(k)) <= Cardinality(new)
    BY <2>1, <1>2, FS_Subset, FS_CardinalityType
  <2>3. PICK i \in DOMAIN results : results[i] = k
    BY DEF ToSet
  <2>4. i \in Nat
    BY <2>3, SearchesFindChunks, LenProperties
  <2>5. k \in UpTo(k)
    BY <2>3, <2>4
  <2>6. Cardinality(UpTo(k)) # 0
    BY <2>5, <2>2, FS_EmptySet
  <2> HIDE DEF UpTo, new
  <2> QED BY <2>2, <2>6, <1>3
<1>7. ASSUME NEW k \in new, NEW l \in new, k # l
      PROVE  Cardinality(UpTo(k)) # Cardinality(UpTo(l))
  <2>1. PICK i, j \in DOMAIN results : results[i] = k /\ results[j] = l
    BY DEF ToSet
  <2>2. i \in Nat /\ j \in Nat /\ DOMAIN results \subseteq Nat
    BY <2>1, SearchesFindChunks, LenProperties
  <2>3. \A a, b \in DOMAIN results : results[a] = results[b] => a = b
    BY SearchesFindChunks
  <2>4. ASSUME NEW a \in DOMAIN results, NEW b \in DOMAIN results, a < b,
               results[a] \in new, results[b] \in new
        PROVE  Cardinality(UpTo(results[a])) # Cardinality(UpTo(results[b]))
    <3> DEFINE x == results[a]
               y == results[b]
    <3>1. UpTo(x) \in SUBSET UpTo(y)
      <4> SUFFICES ASSUME NEW n \in UpTo(x) PROVE n \in UpTo(y)
        OBVIOUS
      <4>1. PICK c, d \in DOMAIN results :
                c <= d /\ results[c] = n /\ results[d] = x
        OBVIOUS
      <4>2. d = a
        BY <4>1, <2>3
      <4>3. c <= b
        BY <4>1, <4>2, <2>2, <2>4
      <4> QED BY <4>1, <4>3
    <3>2. y \in UpTo(y)
      BY <2>4, <2>2
    <3>3. y \notin UpTo(x)
      <4> SUFFICES ASSUME y \in UpTo(x) PROVE FALSE
        OBVIOUS
      <4>1. PICK c, d \in DOMAIN results :
                c <= d /\ results[c] = y /\ results[d] = x
        OBVIOUS
      <4>2. c = b /\ d = a
        BY <4>1, <2>3
      <4> QED BY <4>1, <4>2, <2>2, <2>4
    <3>4. IsFiniteSet(UpTo(y))
      BY <1>6, <2>4
    <3>5. Cardinality(UpTo(y)) = Cardinality(UpTo(x)) => UpTo(y) = UpTo(x)
      BY <3>1, <3>4, FS_Subset
    <3> HIDE DEF UpTo
    <3> QED BY <3>2, <3>3, <3>5
  <2>5. i < j \/ j < i
    BY <2>1, <2>2, <1>7
  <2> HIDE DEF UpTo
  <2> QED BY <2>1, <2>4, <2>5
<1>8. /\ IsFiniteSet(DOMAIN s)
      /\ Cardinality(DOMAIN s) = held + Cardinality(new)
  <2>1. DOMAIN session \cap new = {}
    OBVIOUS
  <2>2. Cardinality(DOMAIN session \cap new) = 0
    BY <2>1, FS_EmptySet
  <2> HIDE DEF new, s
  <2> QED BY <2>2, <1>1, <1>2, <1>3, <1>5, FS_Union
<1>9. ASSUME NEW k \in DOMAIN s
      PROVE  /\ k \in DOMAIN session => s[k] = session[k] /\ s[k] \in 1..held
             /\ k \notin DOMAIN session =>
                    /\ k \in new
                    /\ s[k] = held + Cardinality(UpTo(k))
                    /\ s[k] \in (held + 1)..(held + Cardinality(new))
  <2>1. k \in DOMAIN session => s[k] = session[k] /\ s[k] \in 1..held
    BY <1>4, <1>5 DEF SessionIsSound
  <2>2. ASSUME k \notin DOMAIN session
        PROVE  /\ k \in new
               /\ s[k] = held + Cardinality(UpTo(k))
    BY <1>4, <1>5, <2>2
  <2> HIDE DEF s, new, UpTo, held
  <2>3. ASSUME k \notin DOMAIN session
        PROVE  s[k] \in (held + 1)..(held + Cardinality(new))
    BY <2>2, <2>3, <1>3, <1>6
  <2> QED BY <2>1, <2>2, <2>3
<1> HIDE DEF s, UpTo, held
<1>10. s \in Session
  <2>1. \A k \in DOMAIN s : s[k] \in Nat
    BY <1>9, <1>3
  <2>2. s \in [DOMAIN s -> Nat]
    BY <2>1, <1>4
  <2>3. DOMAIN s \subseteq Chunks
    BY <1>5, <1>1, <1>2
  <2> QED BY <2>2, <2>3, <1>8 DEF Session
<1>11. SessionIsSound(s)
  <2>1. \A k \in DOMAIN s : s[k] \in 1..Cardinality(DOMAIN s)
    BY <1>9, <1>8, <1>3
  <2>2. ASSUME NEW k \in DOMAIN s, NEW l \in DOMAIN s, s[k] = s[l]
        PROVE  k = l
    <3>1. CASE k \in DOMAIN session /\ l \in DOMAIN session
      BY <3>1, <2>2, <1>9 DEF SessionIsSound
    <3>2. CASE k \in DOMAIN session /\ l \notin DOMAIN session
      <4>1. s[k] \in 1..held /\ s[l] \in (held + 1)..(held + Cardinality(new))
        BY <3>2, <1>9
      <4> QED BY <4>1, <2>2, <1>3
    <3>3. CASE k \notin DOMAIN session /\ l \in DOMAIN session
      <4>1. s[l] \in 1..held /\ s[k] \in (held + 1)..(held + Cardinality(new))
        BY <3>3, <1>9
      <4> QED BY <4>1, <2>2, <1>3
    <3>4. CASE k \notin DOMAIN session /\ l \notin DOMAIN session
      <4>1. /\ k \in new /\ l \in new
            /\ held + Cardinality(UpTo(k)) = held + Cardinality(UpTo(l))
        BY <3>4, <1>9, <2>2
      <4>2. /\ Cardinality(UpTo(k)) \in 1..Cardinality(new)
            /\ Cardinality(UpTo(l)) \in 1..Cardinality(new)
        BY <4>1, <1>6
      <4>3. Cardinality(UpTo(k)) = Cardinality(UpTo(l))
        BY <4>1, <4>2, <1>3
      <4> QED BY <4>1, <4>3, <1>7
    <3> QED BY <3>1, <3>2, <3>3, <3>4
  <2> QED BY <2>1, <2>2 DEF SessionIsSound
<1>12. DOMAIN s = DOMAIN session \union ToSet(results)
    BY <1>5
<1>13. \A k \in DOMAIN session : s[k] = session[k]
    BY <1>9, <1>5
<1> QED BY <1>10, <1>11, <1>12, <1>13 DEF s

(* Citations of one session that meet are the same.                        *)
LEMMA AddIsUnion ==
    ASSUME NEW session \in Session, SessionIsSound(session),
           NEW held, held \subseteq Numbered(session, DOMAIN session),
           NEW more, more \subseteq Numbered(session, DOMAIN session)
    PROVE  AddCitations(held, more) = held \union more
<1> SUFFICES ASSUME NEW m \in more, NEW h \in held, h[1] = m[1]
             PROVE  m \in held
    BY DEF AddCitations
<1>1. PICK k \in DOMAIN session : m = <<session[k], k>>
    BY DEF Numbered
<1>2. PICK l \in DOMAIN session : h = <<session[l], l>>
    BY DEF Numbered
<1>3. k = l
    BY <1>1, <1>2 DEF SessionIsSound
<1> QED BY <1>1, <1>2, <1>3

LEMMA NumberedType ==
    ASSUME NEW session \in Session, NEW S \in SUBSET DOMAIN session
    PROVE  Numbered(session, S) \subseteq Citation
<1>1. /\ session \in [DOMAIN session -> Nat]
      /\ DOMAIN session \subseteq Chunks
    BY SessionType
<1> QED BY <1>1 DEF Numbered, Citation

LEMMA SearchCites ==
    ASSUME NEW session \in Session, SessionIsSound(session),
           NEW results \in Results
    PROVE  LET s == Cite(session, results)
               cited == Numbered(s, ToSet(results))
           IN  /\ cited \subseteq Citation
               /\ AddCitations(Numbered(session, DOMAIN session), cited)
                      = Numbered(s, DOMAIN s)
               /\ Numbered(session, DOMAIN session) \union cited
                      = Numbered(s, DOMAIN s)
               /\ NumbersOf(session) \subseteq NumbersOf(s)
<1> DEFINE s == Cite(session, results)
           held == Numbered(session, DOMAIN session)
           cited == Numbered(s, ToSet(results))
<1>1. /\ s \in Session /\ SessionIsSound(s)
      /\ DOMAIN s = DOMAIN session \union ToSet(results)
      /\ \A k \in DOMAIN session : s[k] = session[k]
    BY CiteIsSound
<1> HIDE DEF s
<1>2. held = Numbered(s, DOMAIN session)
    BY <1>1 DEF Numbered
<1>3. held \union cited = Numbered(s, DOMAIN s)
    BY <1>1, <1>2 DEF Numbered
<1>4. AddCitations(held, cited) = held \union cited
  <2>1. /\ held \subseteq Numbered(s, DOMAIN s)
        /\ cited \subseteq Numbered(s, DOMAIN s)
    BY <1>3
  <2>2. s \in Session /\ SessionIsSound(s)
    BY <1>1
  <2> HIDE DEF held, cited
  <2>3. \A a, b : /\ a \subseteq Numbered(s, DOMAIN s)
                  /\ b \subseteq Numbered(s, DOMAIN s)
                  => AddCitations(a, b) = a \union b
    BY <2>2, AddIsUnion
  <2> QED BY <2>1, <2>3
<1>5. cited \subseteq Citation
    BY <1>1, NumberedType
<1>6. NumbersOf(session) \subseteq NumbersOf(s)
    BY <1>1 DEF NumbersOf
<1> QED BY <1>3, <1>4, <1>5, <1>6 DEF s

LEMMA NumbersType ==
    ASSUME NEW session \in Session
    PROVE  NumbersOf(session) \subseteq Nat
    BY SessionType DEF NumbersOf

-----------------------------------------------------------------------------
LEMMA FrameKinds ==
    ASSUME NEW f \in FrameSet
    PROVE  \/ f.type = "delta" /\ \E n \in Nat : f.value = <<n>>
           \/ f.type = "citations" /\ f.value \in SUBSET Citation
           \/ f.type \in {"done", "error"}
    BY DEF FrameSet, DeltaFrame, CitationsFrame, LastFrame, Frame

LEMMA OwnTurnType ==
    ASSUME AskTypeInv, NEW r \in Runs
    PROVE  OwnTurn(r) \in Turn
<1>1. page.turns \in Seq(Turn)
    BY DEF AskTypeInv, Page
<1>2. CASE run[r].turnIndex \in DOMAIN page.turns
    BY <1>1, <1>2, LenProperties, ElementOfSeq DEF OwnTurn
<1>3. CASE run[r].turnIndex \notin DOMAIN page.turns
    BY <1>3 DEF OwnTurn, NewTurn, Turn, States
<1> QED BY <1>2, <1>3

LEMMA ChangeTurnType ==
    ASSUME AskTypeInv, NEW r \in Runs, NEW turn \in Turn
    PROVE  LET turns == ChangeTurn(r, turn)
           IN  /\ turns \in Seq(Turn)
               /\ DOMAIN turns = DOMAIN page.turns
               /\ \A i \in DOMAIN turns :
                      turns[i] = IF Current(r) /\ i = run[r].turnIndex
                                 THEN turn ELSE page.turns[i]
<1>1. page.turns \in Seq(Turn)
    BY DEF AskTypeInv, Page
<1>2. /\ page.turns \in [1..Len(page.turns) -> Turn]
      /\ Len(page.turns) \in Nat
    BY <1>1, LenProperties
<1>3. [page.turns EXCEPT ![run[r].turnIndex] = turn]
          \in [1..Len(page.turns) -> Turn]
    BY <1>2
<1>4. [page.turns EXCEPT ![run[r].turnIndex] = turn] \in Seq(Turn)
    BY <1>2, <1>3, SeqDef
<1> QED BY <1>1, <1>2, <1>4 DEF ChangeTurn

LEMMA ApplyFrameType ==
    ASSUME NEW turn \in Turn, NEW f \in FrameSet
    PROVE  LET t == ApplyFrame(turn, f)
           IN  /\ t \in Turn
               /\ t.run = turn.run /\ t.state = turn.state
               /\ t.text = IF f.type = "delta" THEN turn.text \o f.value
                           ELSE turn.text
               /\ t.citations = IF f.type = "citations"
                                THEN AddCitations(turn.citations, f.value)
                                ELSE turn.citations
<1>0. turn.text \in Seq(Nat) /\ turn.citations \in SUBSET Citation
    BY DEF Turn
<1>1. CASE f.type = "delta"
  <2>1. PICK n \in Nat : f.value = <<n>>
    BY <1>1, FrameKinds
  <2>2. turn.text \o f.value \in Seq(Nat)
    BY <2>1, <1>0, ConcatProperties
  <2> QED BY <1>1, <2>2 DEF ApplyFrame, Turn
<1>2. CASE f.type = "citations"
  <2>1. AddCitations(turn.citations, f.value) \in SUBSET Citation
    BY <1>2, <1>0, FrameKinds DEF AddCitations
  <2> QED BY <1>2, <2>1 DEF ApplyFrame, Turn
<1>3. CASE f.type \notin {"delta", "citations"}
  BY <1>3 DEF ApplyFrame
<1> QED BY <1>1, <1>2, <1>3

-----------------------------------------------------------------------------
(* What each action does to the page, the question, the answer, the frames *)
(* and the chats.                                                          *)
OnlyRun(r) == run' \in [Runs -> Run] /\ \A q \in Runs \ {r} : run'[q] = run[q]

OnlyAnswer(r) == /\ answer' \in [Runs -> Answer]
                 /\ \A q \in Runs \ {r} : answer'[q] = answer[q]

OnlyWire(r) == /\ wire' \in [Runs -> Seq(FrameSet)]
               /\ \A q \in Runs \ {r} : wire'[q] = wire[q]

OnlyChat(c) == /\ stored' \in [Chats -> Chat]
               /\ \A d \in Chats \ {c} : stored'[d] = stored[d]

Moves(r, phase) ==
    /\ OnlyRun(r)
    /\ run'[r].phase = phase
    /\ run'[r].runId = run[r].runId
    /\ run'[r].turnIndex = run[r].turnIndex
    /\ run'[r].chat = run[r].chat
    /\ run'[r].sawDone = run[r].sawDone

Ends(r, state) ==
    /\ OnlyRun(r) /\ run'[r] = EndedRun
    /\ page' \in Page
    /\ page'.turns = ChangeTurn(r, [OwnTurn(r) EXCEPT !.state = state])
    /\ page'.isRunning = IF Current(r) THEN FALSE ELSE page.isRunning
    /\ page'.openChatId = page.openChatId
    /\ page'.isLoadingChat = page.isLoadingChat
    /\ page'.latestReadId = page.latestReadId

Sends(r, frame) ==
    IF answer[r].closed THEN wire' = wire
    ELSE OnlyWire(r) /\ wire'[r] = Append(wire[r], frame)

Switches(c) ==
    /\ page' \in Page
    /\ page'.openChatId = c /\ page'.turns = <<>>
    /\ page'.isRunning = FALSE /\ page'.isLoadingChat = (c # NoChat)
    /\ page'.latestReadId = page.latestReadId + 1

LEMMA EndRunEffect ==
    ASSUME AskTypeInv, NEW r \in Runs, NEW state \in States, EndRun(r, state)
    PROVE  Ends(r, state)
<1> DEFINE turn == [OwnTurn(r) EXCEPT !.state = state]
           turns == ChangeTurn(r, turn)
<1>1. turn \in Turn
    BY OwnTurnType DEF Turn
<1>2. turns \in Seq(Turn)
    BY <1>1, ChangeTurnType
<1>3. page' = [page EXCEPT !.turns = turns,
                           !.isRunning = IF Current(r) THEN FALSE
                                         ELSE page.isRunning]
    BY DEF EndRun
<1>4. page \in Page
    BY DEF AskTypeInv
<1> HIDE DEF turns
<1>5. /\ page' \in Page /\ page'.turns = turns
      /\ page'.isRunning = IF Current(r) THEN FALSE ELSE page.isRunning
      /\ page'.openChatId = page.openChatId
      /\ page'.isLoadingChat = page.isLoadingChat
      /\ page'.latestReadId = page.latestReadId
    BY <1>2, <1>3, <1>4 DEF Page
<1>6. EndedRun \in Run
    BY DEF EndedRun, IdleRun, Run, RunPhases
<1>7. OnlyRun(r) /\ run'[r] = EndedRun
    BY <1>6 DEF AskTypeInv, EndRun, OnlyRun
<1> QED BY <1>5, <1>7 DEF Ends, turns

LEMMA RunMoves ==
    ASSUME AskTypeInv, NEW r \in Runs, NEW phase \in RunPhases,
           run' = [run EXCEPT ![r] = [run[r] EXCEPT !.phase = phase]]
    PROVE  Moves(r, phase)
    BY DEF AskTypeInv, Run, Moves, OnlyRun

LEMMA SendEffect ==
    ASSUME AskTypeInv, NEW r \in Runs, NEW frame \in FrameSet, Send(r, frame)
    PROVE  Sends(r, frame)
<1>1. CASE answer[r].closed
    BY <1>1 DEF Send, Sends
<1>2. CASE ~answer[r].closed
  <2>1. wire' = [wire EXCEPT ![r] = Append(wire[r], frame)]
    BY <1>2 DEF Send
  <2>2. Append(wire[r], frame) \in Seq(FrameSet)
    BY AppendProperties DEF AskTypeInv
  <2> QED BY <1>2, <2>1, <2>2 DEF Sends, OnlyWire, AskTypeInv
<1> QED BY <1>1, <1>2

LEMMA SwitchEffect ==
    ASSUME AskTypeInv, NEW c \in Chats \union {NoChat}, page' = Switched(c)
    PROVE  Switches(c)
<1>1. <<>> \in Seq(Turn)
    BY EmptySeq
<1> DEFINE loads == (c # NoChat)
           id == page.latestReadId + 1
<1>2. page' = [page EXCEPT !.openChatId = c, !.turns = <<>>,
                           !.isRunning = FALSE, !.isLoadingChat = loads,
                           !.latestReadId = id]
    BY DEF Switched
<1>3. page \in Page /\ loads \in BOOLEAN
    BY DEF AskTypeInv
<1>4. id \in Nat
    BY <1>3 DEF Page
<1> HIDE DEF loads, id
<1>5. /\ page' \in Page /\ page'.openChatId = c /\ page'.turns = <<>>
      /\ page'.isRunning = FALSE /\ page'.isLoadingChat = loads
      /\ page'.latestReadId = id
    BY <1>1, <1>2, <1>3, <1>4 DEF Page
<1> QED BY <1>5 DEF Switches, loads, id

LEMMA NewTurnType ==
    ASSUME NEW r \in Runs
    PROVE  NewTurn(r) \in Turn
<1>1. <<>> \in Seq(Nat)
    BY EmptySeq
<1> QED BY <1>1 DEF NewTurn, Turn, States

LEMMA AskQuestionEffect ==
    ASSUME AskTypeInv, NEW r \in Runs, AskQuestion(r)
    PROVE  /\ run[r].phase = "idle"
           /\ ~page.isRunning /\ ~page.isLoadingChat
           /\ page' \in Page
           /\ page'.turns = Append(page.turns, NewTurn(r))
           /\ page'.openChatId = page.openChatId
           /\ page'.isRunning = TRUE
           /\ page'.isLoadingChat = page.isLoadingChat
           /\ page'.latestReadId = page.latestReadId + 1
           /\ OnlyRun(r)
           /\ run'[r].phase = IF page.openChatId = NoChat THEN "create"
                              ELSE "post"
           /\ run'[r].runId = page.latestReadId + 1
           /\ run'[r].turnIndex = Len(page.turns) + 1
           /\ run'[r].chat = page.openChatId
           /\ run'[r].sawDone = FALSE
           /\ UNCHANGED <<reads, stored, answer, wire, leaving>>
<1>1. page \in Page /\ run \in [Runs -> Run]
    BY DEF AskTypeInv
<1>2. page.turns \in Seq(Turn) /\ page.latestReadId \in Nat
    BY <1>1 DEF Page
<1>3. /\ Append(page.turns, NewTurn(r)) \in Seq(Turn)
      /\ Len(page.turns) \in Nat
    BY <1>2, NewTurnType, AppendProperties, LenProperties
<1> DEFINE turns == Append(page.turns, NewTurn(r))
           id == page.latestReadId + 1
           at == Len(page.turns) + 1
           phase == IF page.openChatId = NoChat THEN "create" ELSE "post"
<1>4. page' = [page EXCEPT !.turns = turns, !.isRunning = TRUE,
                           !.latestReadId = id]
    BY DEF AskQuestion
<1>a. /\ turns \in Seq(Turn) /\ id \in Nat /\ at \in Nat
      /\ phase \in RunPhases
    BY <1>2, <1>3 DEF RunPhases
<1>b. run' = [run EXCEPT ![r] = [IdleRun EXCEPT !.phase = phase, !.runId = id,
                                                !.turnIndex = at,
                                                !.chat = page.openChatId]]
    BY DEF AskQuestion
<1>c. IdleRun \in Run /\ IdleRun.sawDone = FALSE
    BY DEF IdleRun, Run, RunPhases
<1> HIDE DEF turns, id, at, phase
<1>5. /\ page' \in Page
      /\ page'.turns = turns
      /\ page'.openChatId = page.openChatId
      /\ page'.isRunning = TRUE
      /\ page'.isLoadingChat = page.isLoadingChat
      /\ page'.latestReadId = id
    BY <1>1, <1>a, <1>4 DEF Page
<1> DEFINE y == [IdleRun EXCEPT !.phase = phase, !.runId = id, !.turnIndex = at,
                                !.chat = page.openChatId]
<1>6. run' = [run EXCEPT ![r] = y]
    BY <1>b
<1>7. /\ y \in Run
      /\ y.phase = phase /\ y.runId = id /\ y.turnIndex = at
      /\ y.chat = page.openChatId /\ y.sawDone = FALSE
    BY <1>1, <1>a, <1>c DEF Page, Run
<1> HIDE DEF y
<1>8. OnlyRun(r) /\ run'[r] = y
    BY <1>1, <1>6, <1>7 DEF OnlyRun
<1>9. /\ run[r].phase = "idle" /\ ~page.isRunning /\ ~page.isLoadingChat
      /\ UNCHANGED <<reads, stored, answer, wire, leaving>>
    BY DEF AskQuestion
<1> QED BY <1>5, <1>7, <1>8, <1>9 DEF turns, id, at, phase

LEMMA CreateChatEffect ==
    ASSUME AskTypeInv, NEW r \in Runs, NEW c \in Chats, CreateChat(r, c)
    PROVE  /\ run[r].phase = "create"
           /\ OnlyRun(r)
           /\ run'[r].phase = "created"
           /\ run'[r].runId = run[r].runId
           /\ run'[r].turnIndex = run[r].turnIndex
           /\ run'[r].chat = c
           /\ run'[r].sawDone = run[r].sawDone
           /\ OnlyChat(c) /\ stored'[c].turns = stored[c].turns
           /\ UNCHANGED <<page, reads, answer, wire, leaving>>
<1>1. /\ run[r].phase = "create"
      /\ stored' = [stored EXCEPT ![c] = [stored[c] EXCEPT !.state = "open"]]
      /\ run' = [run EXCEPT ![r] = [run[r] EXCEPT !.phase = "created",
                                                  !.chat = c]]
      /\ UNCHANGED <<page, reads, answer, wire, leaving>>
    BY DEF CreateChat
<1>2. OnlyChat(c) /\ stored'[c].turns = stored[c].turns
    BY <1>1 DEF AskTypeInv, Chat, OnlyChat
<1> DEFINE y == [run[r] EXCEPT !.phase = "created", !.chat = c]
<1>3. run[r] \in Run
    BY DEF AskTypeInv
<1>4. /\ y \in Run
      /\ y.phase = "created" /\ y.chat = c
      /\ y.runId = run[r].runId /\ y.turnIndex = run[r].turnIndex
      /\ y.sawDone = run[r].sawDone
    BY <1>3 DEF Run, RunPhases
<1>5. run' = [run EXCEPT ![r] = y]
    BY <1>1
<1> HIDE DEF y
<1>6. OnlyRun(r) /\ run'[r] = y
    BY <1>4, <1>5 DEF AskTypeInv, OnlyRun
<1> QED BY <1>1, <1>2, <1>4, <1>6

LEMMA OpenCreatedChatEffect ==
    ASSUME AskTypeInv, NEW r \in Runs, OpenCreatedChat(r)
    PROVE  /\ run[r].phase = "created"
           /\ Moves(r, "post")
           /\ page' \in Page
           /\ page'.openChatId = run[r].chat
           /\ page'.turns = page.turns
           /\ page'.isRunning = page.isRunning
           /\ page'.isLoadingChat = page.isLoadingChat
           /\ page'.latestReadId = page.latestReadId
           /\ UNCHANGED <<reads, stored, answer, wire, leaving>>
<1>1. /\ run[r].phase = "created"
      /\ page' = [page EXCEPT !.openChatId = run[r].chat]
      /\ run' = [run EXCEPT ![r] = [run[r] EXCEPT !.phase = "post"]]
      /\ UNCHANGED <<reads, stored, answer, wire, leaving>>
    BY DEF OpenCreatedChat
<1>2. "post" \in RunPhases
    BY DEF RunPhases
<1>3. Moves(r, "post")
    BY <1>1, <1>2, RunMoves
<1>4. run[r].chat \in Chats \union {NoChat} /\ page \in Page
    BY DEF AskTypeInv, Run
<1>5. /\ page' \in Page
      /\ page'.openChatId = run[r].chat
      /\ page'.turns = page.turns
      /\ page'.isRunning = page.isRunning
      /\ page'.isLoadingChat = page.isLoadingChat
      /\ page'.latestReadId = page.latestReadId
    BY <1>1, <1>4 DEF Page
<1> QED BY <1>1, <1>3, <1>5

LEMMA NoAnswerType ==
    /\ NoAnswer \in Answer /\ NoSession \in Session
    /\ DOMAIN NoSession = {}
<1>1. NoSession \in [{} -> Nat] /\ DOMAIN NoSession = {}
    BY DEF NoSession
<1>2. IsFiniteSet({})
    BY FS_EmptySet
<1>3. NoSession \in Session
    BY <1>1, <1>2 DEF Session
<1>4. <<>> \in Seq(Nat)
    BY EmptySeq
<1> QED BY <1>1, <1>3, <1>4 DEF NoAnswer, Answer, AnswerPhases, NewTurn

LEMMA PostTurnEffect ==
    ASSUME AskTypeInv, NEW r \in Runs, PostTurn(r)
    PROVE  /\ run[r].phase = "post"
           /\ Moves(r, "stream")
           /\ OnlyAnswer(r)
           /\ answer'[r] = [NoAnswer EXCEPT !.phase = "sent",
                                            !.chat = run[r].chat]
           /\ UNCHANGED <<page, reads, stored, wire, leaving>>
<1>1. /\ run[r].phase = "post"
      /\ run' = [run EXCEPT ![r] = [run[r] EXCEPT !.phase = "stream"]]
      /\ UNCHANGED <<page, reads, stored, wire, leaving>>
    BY DEF PostTurn
<1>2. "stream" \in RunPhases
    BY DEF RunPhases
<1>3. Moves(r, "stream")
    BY <1>1, <1>2, RunMoves
<1> DEFINE y == [NoAnswer EXCEPT !.phase = "sent", !.chat = run[r].chat]
<1>4. run[r].chat \in Chats \union {NoChat}
    BY DEF AskTypeInv, Run
<1>5. y \in Answer
    BY <1>4, NoAnswerType DEF Answer, AnswerPhases
<1>6. answer' = [answer EXCEPT ![r] = y]
    BY DEF PostTurn
<1> HIDE DEF y
<1>7. OnlyAnswer(r) /\ answer'[r] = y
    BY <1>5, <1>6 DEF AskTypeInv, OnlyAnswer
<1> QED BY <1>1, <1>3, <1>7 DEF y

LEMMA FailRequestEffect ==
    ASSUME AskTypeInv, NEW r \in Runs, FailRequest(r)
    PROVE  /\ run[r].phase \in {"create", "created", "post"}
           /\ Ends(r, "error")
           /\ UNCHANGED <<reads, stored, answer, wire, leaving>>
    BY EndRunEffect DEF FailRequest, States

(* The answer after a step, field by field.                                *)
AnswerIs(r, phase, session, text, citations, finished) ==
    /\ OnlyAnswer(r)
    /\ answer'[r].phase = phase
    /\ answer'[r].chat = answer[r].chat
    /\ answer'[r].session = session
    /\ answer'[r].text = text
    /\ answer'[r].citations = citations
    /\ answer'[r].finished = finished
    /\ answer'[r].closed = answer[r].closed

LEMMA AnswerAfter ==
    ASSUME AskTypeInv, NEW r \in Runs, NEW phase \in AnswerPhases,
           NEW session \in Session, NEW text \in Seq(Nat),
           NEW citations \in SUBSET Citation, NEW finished \in BOOLEAN,
           NEW index \in Nat, NEW calls \in Nat,
           answer' = [answer EXCEPT ![r] =
                         [answer[r] EXCEPT !.phase = phase,
                                           !.session = session,
                                           !.text = text,
                                           !.citations = citations,
                                           !.finished = finished,
                                           !.index = index,
                                           !.calls = calls]]
    PROVE  AnswerIs(r, phase, session, text, citations, finished)
<1>1. answer[r] \in Answer
    BY DEF AskTypeInv
<1> DEFINE y == [answer[r] EXCEPT !.phase = phase, !.session = session,
                                  !.text = text, !.citations = citations,
                                  !.finished = finished, !.index = index,
                                  !.calls = calls]
<1>2. /\ y \in Answer
      /\ y.phase = phase /\ y.chat = answer[r].chat /\ y.session = session
      /\ y.text = text /\ y.citations = citations /\ y.finished = finished
      /\ y.closed = answer[r].closed
    BY <1>1 DEF Answer
<1>3. answer' = [answer EXCEPT ![r] = y]
    OBVIOUS
<1> HIDE DEF y
<1>4. OnlyAnswer(r) /\ answer'[r] = y
    BY <1>2, <1>3 DEF AskTypeInv, OnlyAnswer
<1> QED BY <1>2, <1>4 DEF AnswerIs

LEMMA EndFrame ==
    ASSUME NEW t \in {"done", "error"}
    PROVE  /\ Frame(t, <<>>) \in FrameSet
           /\ Frame(t, <<>>).type = t
    BY DEF FrameSet, LastFrame, Frame

LEMMA DeltaFrameType ==
    ASSUME NEW n \in Nat
    PROVE  /\ Frame("delta", <<n>>) \in FrameSet
           /\ Frame("delta", <<n>>).type = "delta"
           /\ Frame("delta", <<n>>).value = <<n>>
    BY DEF FrameSet, DeltaFrame, Frame

LEMMA CitationsFrameType ==
    ASSUME NEW s \in SUBSET Citation
    PROVE  /\ Frame("citations", s) \in FrameSet
           /\ Frame("citations", s).type = "citations"
           /\ Frame("citations", s).value = s
    BY DEF FrameSet, CitationsFrame, Frame

LEMMA StartTurnEffect ==
    ASSUME AskTypeInv, NEW r \in Runs, StartTurn(r)
    PROVE  /\ answer[r].phase = "sent"
           /\ UNCHANGED <<page, run, reads, leaving>>
           /\ \/ \E c \in Chats :
                     /\ c = answer[r].chat
                     /\ OnlyChat(c)
                     /\ stored'[c].turns = Append(stored[c].turns, NewTurn(r))
                     /\ AnswerIs(r, "model", answer[r].session, answer[r].text,
                                 answer[r].citations, answer[r].finished)
                     /\ UNCHANGED wire
              \/ /\ AnswerIs(r, "over", answer[r].session, answer[r].text,
                             answer[r].citations, answer[r].finished)
                 /\ Sends(r, Frame("error", <<>>))
                 /\ UNCHANGED stored
<1> DEFINE c == answer[r].chat
           turns == stored[c].turns
           busy == turns # <<>> /\ Last(turns).state = "running"
           a == answer[r]
<1>0. /\ answer[r] \in Answer /\ answer \in [Runs -> Answer]
      /\ a.session \in Session /\ a.text \in Seq(Nat)
      /\ a.citations \in SUBSET Citation
      /\ a.finished \in BOOLEAN /\ a.index \in Nat /\ a.calls \in Nat
    BY DEF AskTypeInv, Answer
<1>1. answer[r].phase = "sent" /\ UNCHANGED <<page, run, reads, leaving>>
    BY DEF StartTurn
<1>2. CASE Open(c) /\ ~busy
  <2>1. /\ stored' = [stored EXCEPT ![c] =
                          [stored[c] EXCEPT !.turns = Append(turns, NewTurn(r))]]
        /\ answer' = [answer EXCEPT ![r] =
                          [answer[r] EXCEPT !.phase = "model",
                                            !.index = Len(turns) + 1]]
        /\ UNCHANGED wire
    BY <1>2 DEF StartTurn
  <2>2. c \in Chats /\ stored[c] \in Chat /\ turns \in Seq(Turn)
    BY <1>2 DEF Open, AskTypeInv, Chat
  <2>3. /\ Append(turns, NewTurn(r)) \in Seq(Turn)
        /\ Len(turns) + 1 \in Nat
    BY <2>2, NewTurnType, AppendProperties, LenProperties
  <2>4. /\ OnlyChat(c)
        /\ stored'[c].turns = Append(turns, NewTurn(r))
    BY <2>1, <2>2, <2>3 DEF AskTypeInv, OnlyChat, Chat
  <2> DEFINE index == Len(turns) + 1
  <2>5. answer' = [answer EXCEPT ![r] =
                      [answer[r] EXCEPT !.phase = "model",
                                        !.session = a.session,
                                        !.text = a.text,
                                        !.citations = a.citations,
                                        !.finished = a.finished,
                                        !.index = index,
                                        !.calls = a.calls]]
    BY <2>1, <1>0 DEF Answer
  <2>6. "model" \in AnswerPhases /\ index \in Nat
    BY <2>3 DEF AnswerPhases
  <2> HIDE DEF index
  <2>7. AnswerIs(r, "model", a.session, a.text, a.citations, a.finished)
    BY <1>0, <2>5, <2>6, AnswerAfter
  <2> QED BY <1>1, <2>1, <2>2, <2>4, <2>7
<1>3. CASE ~(Open(c) /\ ~busy)
  <2>1. /\ answer' = [answer EXCEPT ![r] = [answer[r] EXCEPT !.phase = "over"]]
        /\ Send(r, Frame("error", <<>>))
        /\ UNCHANGED stored
    BY <1>3 DEF StartTurn
  <2>2. Sends(r, Frame("error", <<>>))
    BY <2>1, EndFrame, SendEffect
  <2>3. answer' = [answer EXCEPT ![r] =
                      [answer[r] EXCEPT !.phase = "over",
                                        !.session = a.session,
                                        !.text = a.text,
                                        !.citations = a.citations,
                                        !.finished = a.finished,
                                        !.index = a.index,
                                        !.calls = a.calls]]
    BY <2>1, <1>0 DEF Answer
  <2>4. "over" \in AnswerPhases
    BY DEF AnswerPhases
  <2>5. AnswerIs(r, "over", a.session, a.text, a.citations, a.finished)
    BY <1>0, <2>3, <2>4, AnswerAfter
  <2> QED BY <1>1, <2>1, <2>2, <2>5
<1> QED BY <1>2, <1>3

LEMMA StreamDeltaEffect ==
    ASSUME AskTypeInv, NEW r \in Runs, NEW number, StreamDelta(r, number)
    PROVE  /\ answer[r].phase = "model"
           /\ number \in {0} \union NumbersOf(answer[r].session)
           /\ number \in Nat
           /\ AnswerIs(r, "model", answer[r].session,
                       Append(answer[r].text, number),
                       answer[r].citations, answer[r].finished)
           /\ Sends(r, Frame("delta", <<number>>))
           /\ UNCHANGED <<page, run, reads, stored, leaving>>
<1> DEFINE a == answer[r]
<1>0. /\ answer[r] \in Answer
      /\ a.session \in Session /\ a.text \in Seq(Nat)
      /\ a.citations \in SUBSET Citation /\ a.phase \in AnswerPhases
      /\ a.finished \in BOOLEAN /\ a.index \in Nat /\ a.calls \in Nat
    BY DEF AskTypeInv, Answer
<1>1. /\ answer[r].phase = "model"
      /\ number \in {0} \union NumbersOf(answer[r].session)
      /\ Send(r, Frame("delta", <<number>>))
      /\ UNCHANGED <<page, run, reads, stored, leaving>>
    BY DEF StreamDelta
<1>2. number \in Nat
    BY <1>0, <1>1, NumbersType
<1>3. Sends(r, Frame("delta", <<number>>))
    BY <1>1, <1>2, DeltaFrameType, SendEffect
<1> DEFINE text == Append(a.text, number)
<1>4. text \in Seq(Nat)
    BY <1>0, <1>2, AppendProperties
<1>5. answer' = [answer EXCEPT ![r] =
                    [answer[r] EXCEPT !.phase = a.phase,
                                      !.session = a.session,
                                      !.text = text,
                                      !.citations = a.citations,
                                      !.finished = a.finished,
                                      !.index = a.index,
                                      !.calls = a.calls]]
    BY <1>0 DEF StreamDelta, Answer
<1> HIDE DEF text
<1>6. AnswerIs(r, a.phase, a.session, text, a.citations, a.finished)
    BY <1>0, <1>4, <1>5, AnswerAfter
<1> QED BY <1>1, <1>2, <1>3, <1>6 DEF text

LEMMA NotSettledEffect ==
    ASSUME AskTypeInv, NEW r \in Runs, NotSettled(r)
    PROVE  /\ answer[r].phase = "model"
           /\ AnswerIs(r, "finish", answer[r].session, Append(answer[r].text, 0),
                       answer[r].citations, TRUE)
           /\ Sends(r, Frame("delta", <<0>>))
           /\ UNCHANGED <<page, run, reads, stored, leaving>>
<1> DEFINE a == answer[r]
<1>0. /\ answer[r] \in Answer
      /\ a.session \in Session /\ a.text \in Seq(Nat)
      /\ a.citations \in SUBSET Citation /\ a.phase \in AnswerPhases
      /\ a.finished \in BOOLEAN /\ a.index \in Nat /\ a.calls \in Nat
    BY DEF AskTypeInv, Answer
<1>1. /\ answer[r].phase = "model"
      /\ Send(r, Frame("delta", <<0>>))
      /\ UNCHANGED <<page, run, reads, stored, leaving>>
    BY DEF NotSettled
<1>2. Sends(r, Frame("delta", <<0>>))
    BY <1>1, DeltaFrameType, SendEffect
<1> DEFINE text == Append(a.text, 0)
<1>3. text \in Seq(Nat)
    BY <1>0, AppendProperties
<1>4. answer' = [answer EXCEPT ![r] =
                    [answer[r] EXCEPT !.phase = "finish",
                                      !.session = a.session,
                                      !.text = text,
                                      !.citations = a.citations,
                                      !.finished = TRUE,
                                      !.index = a.index,
                                      !.calls = a.calls]]
    BY <1>0 DEF NotSettled, Answer
<1>5. "finish" \in AnswerPhases
    BY DEF AnswerPhases
<1> HIDE DEF text
<1>6. AnswerIs(r, "finish", a.session, text, a.citations, TRUE)
    BY <1>0, <1>3, <1>4, <1>5, AnswerAfter
<1> QED BY <1>1, <1>2, <1>6 DEF text

LEMMA EndAnswerEffect ==
    ASSUME AskTypeInv, NEW r \in Runs, EndAnswer(r)
    PROVE  /\ answer[r].phase = "model"
           /\ AnswerIs(r, "finish", answer[r].session, answer[r].text,
                       answer[r].citations, TRUE)
           /\ UNCHANGED <<page, run, reads, stored, wire, leaving>>
<1> DEFINE a == answer[r]
<1>0. /\ answer[r] \in Answer
      /\ a.session \in Session /\ a.text \in Seq(Nat)
      /\ a.citations \in SUBSET Citation /\ a.phase \in AnswerPhases
      /\ a.finished \in BOOLEAN /\ a.index \in Nat /\ a.calls \in Nat
    BY DEF AskTypeInv, Answer
<1>1. answer' = [answer EXCEPT ![r] =
                    [answer[r] EXCEPT !.phase = "finish",
                                      !.session = a.session,
                                      !.text = a.text,
                                      !.citations = a.citations,
                                      !.finished = TRUE,
                                      !.index = a.index,
                                      !.calls = a.calls]]
    BY <1>0 DEF EndAnswer, Answer
<1>2. "finish" \in AnswerPhases
    BY DEF AnswerPhases
<1>3. AnswerIs(r, "finish", a.session, a.text, a.citations, TRUE)
    BY <1>0, <1>1, <1>2, AnswerAfter
<1> QED BY <1>3 DEF EndAnswer

(* A tool call leaves the answer with the model or with its other tools.   *)
LEMMA AfterToolType ==
    ASSUME AskTypeInv, NEW r \in Runs, NEW more \in BOOLEAN, CallsTool(r)
    PROVE  \E phase \in {"model", "tools"}, calls \in Nat :
               AfterTool(answer[r], more) =
                   [answer[r] EXCEPT !.phase = phase, !.calls = calls]
<1> DEFINE a == answer[r]
<1>0. /\ answer[r] \in Answer
      /\ a.session \in Session /\ a.text \in Seq(Nat)
      /\ a.citations \in SUBSET Citation /\ a.phase \in AnswerPhases
      /\ a.finished \in BOOLEAN /\ a.index \in Nat /\ a.calls \in Nat
    BY DEF AskTypeInv, Answer
<1> DEFINE calls == IF a.phase = "model" THEN a.calls + 1 ELSE a.calls
           phase == IF more THEN "tools" ELSE "model"
<1>1. calls \in Nat /\ phase \in {"model", "tools"}
    BY <1>0
<1>2. AfterTool(a, more) = [a EXCEPT !.phase = phase, !.calls = calls]
    BY <1>0 DEF AfterTool, Answer
<1> QED BY <1>1, <1>2

LEMMA SearchEffect ==
    ASSUME AskTypeInv, NEW r \in Runs, AnswerHolds(answer[r]),
           NEW results \in Results, NEW more \in BOOLEAN,
           SearchDocumentChunks(r, results, more)
    PROVE  \E session \in Session, phase \in {"model", "tools"},
              cited \in SUBSET Citation :
              /\ SessionIsSound(session)
              /\ DOMAIN answer[r].session \subseteq DOMAIN session
              /\ \A k \in DOMAIN answer[r].session :
                     session[k] = answer[r].session[k]
              /\ answer[r].citations \union cited
                     = Numbered(session, DOMAIN session)
              /\ NumbersOf(answer[r].session) \subseteq NumbersOf(session)
              /\ answer[r].phase \in {"model", "tools"}
              /\ AnswerIs(r, phase, session, answer[r].text,
                          answer[r].citations \union cited, answer[r].finished)
              /\ Sends(r, Frame("citations", cited))
              /\ UNCHANGED <<page, run, reads, stored, leaving>>
<1> DEFINE a == answer[r]
<1>0. /\ answer[r] \in Answer
      /\ a.session \in Session /\ a.text \in Seq(Nat)
      /\ a.citations \in SUBSET Citation /\ a.phase \in AnswerPhases
      /\ a.finished \in BOOLEAN /\ a.index \in Nat /\ a.calls \in Nat
    BY DEF AskTypeInv, Answer
<1> DEFINE session == Cite(a.session, results)
           cited == Numbered(session, ToSet(results))
<1>1. SessionIsSound(a.session) /\ a.citations = Numbered(a.session, DOMAIN a.session)
    BY DEF AnswerHolds
<1>2. /\ session \in Session /\ SessionIsSound(session)
      /\ DOMAIN a.session \subseteq DOMAIN session
      /\ \A k \in DOMAIN a.session : session[k] = a.session[k]
    BY <1>0, <1>1, CiteIsSound
<1>3. /\ cited \in SUBSET Citation
      /\ AddCitations(a.citations, cited) = a.citations \union cited
      /\ a.citations \union cited = Numbered(session, DOMAIN session)
      /\ NumbersOf(a.session) \subseteq NumbersOf(session)
    BY <1>0, <1>1, SearchCites
<1>4. /\ CallsTool(r)
      /\ answer' = [answer EXCEPT ![r] =
                        [AfterTool(a, more) EXCEPT
                           !.session = session,
                           !.citations = AddCitations(a.citations, cited)]]
      /\ Send(r, Frame("citations", cited))
      /\ UNCHANGED <<page, run, reads, stored, leaving>>
    BY DEF SearchDocumentChunks
<1> HIDE DEF session, cited
<1>5. PICK p \in {"model", "tools"}, n \in Nat :
          AfterTool(a, more) = [a EXCEPT !.phase = p, !.calls = n]
    BY <1>4, AfterToolType
<1> DEFINE citations == a.citations \union cited
<1>6. citations \in SUBSET Citation
    BY <1>0, <1>3
<1>7. p \in AnswerPhases
    BY <1>5 DEF AnswerPhases
<1>8. answer' = [answer EXCEPT ![r] =
                    [answer[r] EXCEPT !.phase = p,
                                      !.session = session,
                                      !.text = a.text,
                                      !.citations = citations,
                                      !.finished = a.finished,
                                      !.index = a.index,
                                      !.calls = n]]
  <2>1. AddCitations(a.citations, cited) = citations
    BY <1>3
  <2>2. answer' = [answer EXCEPT ![r] =
                      [[a EXCEPT !.phase = p, !.calls = n] EXCEPT
                         !.session = session, !.citations = citations]]
    BY <1>4, <1>5, <2>1
  <2> HIDE DEF citations
  <2> QED BY <1>0, <2>2 DEF Answer
<1> HIDE DEF citations
<1>9. AnswerIs(r, p, session, a.text, citations, a.finished)
  <2>1. n \in Nat
    BY <1>5
  <2> QED BY <1>0, <1>2, <1>6, <1>7, <1>8, <2>1, AnswerAfter
<1>10. Sends(r, Frame("citations", cited))
    BY <1>3, <1>4, CitationsFrameType, SendEffect
<1>11. a.phase \in {"model", "tools"}
    BY <1>4 DEF CallsTool
<1> QED BY <1>2, <1>3, <1>4, <1>5, <1>9, <1>10, <1>11 DEF citations

LEMMA RunToolEffect ==
    ASSUME AskTypeInv, NEW r \in Runs, NEW more \in BOOLEAN, RunTool(r, more)
    PROVE  /\ answer[r].phase \in {"model", "tools"}
           /\ \E phase \in {"model", "tools"} :
                  AnswerIs(r, phase, answer[r].session, answer[r].text,
                           answer[r].citations, answer[r].finished)
           /\ UNCHANGED <<page, run, reads, stored, wire, leaving>>
<1> DEFINE a == answer[r]
<1>0. /\ answer[r] \in Answer
      /\ a.session \in Session /\ a.text \in Seq(Nat)
      /\ a.citations \in SUBSET Citation /\ a.phase \in AnswerPhases
      /\ a.finished \in BOOLEAN /\ a.index \in Nat /\ a.calls \in Nat
    BY DEF AskTypeInv, Answer
<1>1. /\ CallsTool(r)
      /\ answer' = [answer EXCEPT ![r] = AfterTool(a, more)]
      /\ UNCHANGED <<page, run, reads, stored, wire, leaving>>
    BY DEF RunTool
<1>2. PICK p \in {"model", "tools"}, n \in Nat :
          AfterTool(a, more) = [a EXCEPT !.phase = p, !.calls = n]
    BY <1>1, AfterToolType
<1>3. answer' = [answer EXCEPT ![r] =
                    [answer[r] EXCEPT !.phase = p,
                                      !.session = a.session,
                                      !.text = a.text,
                                      !.citations = a.citations,
                                      !.finished = a.finished,
                                      !.index = a.index,
                                      !.calls = n]]
    BY <1>0, <1>1, <1>2 DEF Answer
<1>a. p \in AnswerPhases
    BY <1>2 DEF AnswerPhases
<1>4. AnswerIs(r, p, a.session, a.text, a.citations, a.finished)
  <2>1. n \in Nat
    BY <1>2
  <2> QED BY <1>0, <1>3, <1>a, <2>1, AnswerAfter
<1>5. a.phase \in {"model", "tools"}
    BY <1>1 DEF CallsTool
<1> QED BY <1>1, <1>2, <1>4, <1>5

(* The turn of an answer is stored with all it wrote.                      *)
Stores(r, outcome) ==
    \E c \in Chats, turn \in Turn :
        /\ c = answer[r].chat
        /\ turn = [run |-> r, text |-> answer[r].text,
                   citations |-> answer[r].citations, state |-> outcome]
        /\ OnlyChat(c)
        /\ DOMAIN stored'[c].turns = DOMAIN stored[c].turns
        /\ \A i \in DOMAIN stored[c].turns :
               stored'[c].turns[i] \in {turn, stored[c].turns[i]}

LEMMA CompleteTurnEffect ==
    ASSUME AskTypeInv, NEW r \in Runs, NEW outcome \in {"done", "error"},
           CompleteTurn(r, outcome)
    PROVE  /\ answer[r].phase \in {"model", "tools", "finish"}
           /\ outcome = "done" => answer[r].phase = "finish"
           /\ AnswerIs(r, "over", answer[r].session, answer[r].text,
                       answer[r].citations, answer[r].finished)
           /\ \E t \in {"done", "error"} : Sends(r, Frame(t, <<>>))
           /\ UNCHANGED <<page, run, reads, leaving>>
           /\ UNCHANGED stored \/ Stores(r, outcome)
<1> DEFINE a == answer[r]
           c == a.chat
           turn == [run |-> r, text |-> a.text, citations |-> a.citations,
                    state |-> outcome]
           turns == [stored[c].turns EXCEPT ![a.index] = turn]
<1>0. /\ answer[r] \in Answer
      /\ a.session \in Session /\ a.text \in Seq(Nat)
      /\ a.citations \in SUBSET Citation /\ a.phase \in AnswerPhases
      /\ a.finished \in BOOLEAN /\ a.index \in Nat /\ a.calls \in Nat
    BY DEF AskTypeInv, Answer
<1>1. /\ a.phase \in {"model", "tools", "finish"}
      /\ outcome \in Outcomes(r)
      /\ stored' = IF Open(c)
                   THEN [stored EXCEPT ![c] = [stored[c] EXCEPT !.turns = turns]]
                   ELSE stored
      /\ answer' = [answer EXCEPT ![r] = [a EXCEPT !.phase = "over"]]
      /\ Send(r, Frame(IF outcome = "done" /\ Open(c) THEN "done"
                       ELSE "error", <<>>))
      /\ UNCHANGED <<page, run, reads, leaving>>
    BY DEF CompleteTurn
<1>2. outcome = "done" => a.phase = "finish"
  <2>1. a.phase # "finish" => Outcomes(r) = {"error"}
    BY DEF Outcomes
  <2> QED BY <1>1, <2>1
<1>3. answer' = [answer EXCEPT ![r] =
                    [answer[r] EXCEPT !.phase = "over",
                                      !.session = a.session,
                                      !.text = a.text,
                                      !.citations = a.citations,
                                      !.finished = a.finished,
                                      !.index = a.index,
                                      !.calls = a.calls]]
    BY <1>0, <1>1 DEF Answer
<1>4. "over" \in AnswerPhases
    BY DEF AnswerPhases
<1>5. AnswerIs(r, "over", a.session, a.text, a.citations, a.finished)
    BY <1>0, <1>3, <1>4, AnswerAfter
<1>6. \E t \in {"done", "error"} : Sends(r, Frame(t, <<>>))
  <2>1. PICK t \in {"done", "error"} : Send(r, Frame(t, <<>>))
    BY <1>1
  <2> QED BY <2>1, EndFrame, SendEffect
<1>7. turn \in Turn
    BY <1>0 DEF Turn, States
<1> HIDE DEF turn
<1>8. CASE Open(c)
  <2>1. c \in Chats /\ stored[c] \in Chat /\ stored[c].turns \in Seq(Turn)
    BY <1>8 DEF Open, AskTypeInv, Chat
  <2>2. /\ stored[c].turns \in [1..Len(stored[c].turns) -> Turn]
        /\ Len(stored[c].turns) \in Nat
    BY <2>1, LenProperties
  <2>3. turns \in [1..Len(stored[c].turns) -> Turn]
    BY <2>2, <1>7
  <2>4. turns \in Seq(Turn)
    BY <2>2, <2>3, SeqDef
  <2>5. /\ DOMAIN turns = DOMAIN stored[c].turns
        /\ \A i \in DOMAIN stored[c].turns :
               turns[i] \in {turn, stored[c].turns[i]}
    BY <2>2
  <2> HIDE DEF turns
  <2>6. OnlyChat(c) /\ stored'[c].turns = turns
    BY <1>1, <1>8, <2>1, <2>4 DEF AskTypeInv, OnlyChat, Chat
  <2>7. Stores(r, outcome)
    <3>1. /\ turn = [run |-> r, text |-> answer[r].text,
                     citations |-> answer[r].citations, state |-> outcome]
          /\ c = answer[r].chat
      BY DEF turn
    <3>2. \A i \in DOMAIN stored[c].turns :
              stored'[c].turns[i] \in {turn, stored[c].turns[i]}
      BY <2>5, <2>6
    <3>3. DOMAIN stored'[c].turns = DOMAIN stored[c].turns
      BY <2>5, <2>6
    <3> HIDE DEF c
    <3> QED BY <1>7, <2>1, <2>6, <3>1, <3>2, <3>3 DEF Stores
  <2> QED BY <1>1, <1>2, <1>5, <1>6, <2>7
<1>9. CASE ~Open(c)
    BY <1>1, <1>2, <1>5, <1>6, <1>9
<1> QED BY <1>8, <1>9

LEMMA DropStreamEffect ==
    ASSUME AskTypeInv, NEW r \in Runs, DropStream(r)
    PROVE  /\ answer[r].phase # "none" /\ ~answer[r].closed
           /\ OnlyAnswer(r)
           /\ answer'[r] = [answer[r] EXCEPT !.closed = TRUE]
           /\ OnlyWire(r) /\ wire'[r] = <<>>
           /\ UNCHANGED <<page, run, reads, stored, leaving>>
<1>1. /\ answer' = [answer EXCEPT ![r] = [answer[r] EXCEPT !.closed = TRUE]]
      /\ wire' = [wire EXCEPT ![r] = <<>>]
      /\ answer[r].phase # "none" /\ ~answer[r].closed
      /\ UNCHANGED <<page, run, reads, stored, leaving>>
    BY DEF DropStream
<1>2. [answer[r] EXCEPT !.closed = TRUE] \in Answer
    BY DEF AskTypeInv, Answer
<1>3. OnlyAnswer(r) /\ answer'[r] = [answer[r] EXCEPT !.closed = TRUE]
    BY <1>1, <1>2 DEF AskTypeInv, OnlyAnswer
<1>4. <<>> \in Seq(FrameSet)
    BY EmptySeq
<1>5. OnlyWire(r) /\ wire'[r] = <<>>
    BY <1>1, <1>4 DEF AskTypeInv, OnlyWire
<1> QED BY <1>1, <1>3, <1>5

LEMMA ReadFrameEffect ==
    ASSUME AskTypeInv, NEW r \in Runs, ReadFrame(r)
    PROVE  /\ run[r].phase = "stream" /\ wire[r] # <<>>
           /\ wire[r][1] \in FrameSet
           /\ OnlyWire(r) /\ wire'[r] = Tail(wire[r])
           /\ UNCHANGED <<reads, stored, answer, leaving>>
           /\ \/ wire[r][1].type = "error" /\ Ends(r, "error")
              \/ /\ wire[r][1].type # "error"
                 /\ page' \in Page
                 /\ page'.turns =
                        ChangeTurn(r, ApplyFrame(OwnTurn(r), wire[r][1]))
                 /\ page'.openChatId = page.openChatId
                 /\ page'.isRunning = page.isRunning
                 /\ page'.isLoadingChat = page.isLoadingChat
                 /\ page'.latestReadId = page.latestReadId
                 /\ OnlyRun(r)
                 /\ run'[r].phase = run[r].phase
                 /\ run'[r].runId = run[r].runId
                 /\ run'[r].turnIndex = run[r].turnIndex
                 /\ run'[r].chat = run[r].chat
                 /\ run'[r].sawDone = \/ wire[r][1].type = "done"
                                      \/ run[r].sawDone
<1> DEFINE frame == Head(wire[r])
<1>0. /\ run[r].phase = "stream" /\ wire[r] # <<>>
      /\ UNCHANGED <<reads, stored, answer, leaving>>
      /\ wire' = [wire EXCEPT ![r] = Tail(wire[r])]
    BY DEF ReadFrame
<1>1. wire[r] \in Seq(FrameSet)
    BY DEF AskTypeInv
<1>2. frame = wire[r][1] /\ frame \in FrameSet /\ Tail(wire[r]) \in Seq(FrameSet)
    BY <1>0, <1>1, HeadTailProperties
<1>3. OnlyWire(r) /\ wire'[r] = Tail(wire[r])
    BY <1>0, <1>2 DEF AskTypeInv, OnlyWire
<1>4. CASE frame.type = "error"
  <2>1. EndRun(r, "error")
    BY <1>4 DEF ReadFrame
  <2>2. Ends(r, "error")
    BY <2>1, EndRunEffect DEF States
  <2> QED BY <1>0, <1>2, <1>3, <1>4, <2>2
<1>5. CASE frame.type # "error"
  <2> DEFINE turns == ChangeTurn(r, ApplyFrame(OwnTurn(r), frame))
             saw == frame.type = "done" \/ run[r].sawDone
  <2>1. /\ page' = [page EXCEPT !.turns = turns]
        /\ run' = [run EXCEPT ![r] = [run[r] EXCEPT !.sawDone = saw]]
    BY <1>5 DEF ReadFrame
  <2>2. ApplyFrame(OwnTurn(r), frame) \in Turn
    BY <1>2, OwnTurnType, ApplyFrameType
  <2>3. turns \in Seq(Turn)
    BY <2>2, ChangeTurnType
  <2>4. run[r] \in Run /\ page \in Page
    BY DEF AskTypeInv
  <2>5. saw \in BOOLEAN
    BY <2>4 DEF Run
  <2> HIDE DEF turns, saw
  <2>6. /\ page' \in Page /\ page'.turns = turns
        /\ page'.openChatId = page.openChatId
        /\ page'.isRunning = page.isRunning
        /\ page'.isLoadingChat = page.isLoadingChat
        /\ page'.latestReadId = page.latestReadId
    BY <2>1, <2>3, <2>4 DEF Page
  <2>7. /\ OnlyRun(r)
        /\ run'[r].phase = run[r].phase
        /\ run'[r].runId = run[r].runId
        /\ run'[r].turnIndex = run[r].turnIndex
        /\ run'[r].chat = run[r].chat
        /\ run'[r].sawDone = saw
    BY <2>1, <2>4, <2>5 DEF AskTypeInv, OnlyRun, Run
  <2> QED BY <1>0, <1>2, <1>3, <1>5, <2>6, <2>7 DEF turns, saw
<1> QED BY <1>4, <1>5

LEMMA EndStreamEffect ==
    ASSUME AskTypeInv, NEW r \in Runs, EndStream(r)
    PROVE  /\ run[r].phase = "stream"
           /\ Ends(r, StateAtEnd(r))
           /\ StateAtEnd(r) = IF run[r].sawDone THEN "done" ELSE "error"
           /\ UNCHANGED <<reads, stored, leaving, answer, wire>>
<1>1. StateAtEnd(r) \in States
    BY DEF StateAtEnd, States
<1>2. Ends(r, StateAtEnd(r))
    BY <1>1, EndRunEffect DEF EndStream
<1> QED BY <1>2 DEF EndStream, StateAtEnd

LEMMA OpenChatEffect ==
    ASSUME AskTypeInv, NEW c \in Chats \union {NoChat}, OpenChat(c)
    PROVE  /\ MaySwitch /\ Switches(c)
           /\ reads' = IF c = NoChat THEN reads
                       ELSE reads \union {[readId |-> page.latestReadId + 1,
                                          chat |-> c]}
           /\ reads' \subseteq Read
           /\ UNCHANGED <<run, stored, answer, wire, leaving>>
<1>1. /\ MaySwitch /\ page' = Switched(c)
      /\ reads' = IF c = NoChat THEN reads
                  ELSE reads \union {[readId |-> page.latestReadId + 1,
                                     chat |-> c]}
      /\ UNCHANGED <<run, stored, answer, wire, leaving>>
    BY DEF OpenChat
<1>2. Switches(c)
    BY <1>1, SwitchEffect
<1>3. page.latestReadId + 1 \in Nat
    BY DEF AskTypeInv, Page
<1>4. reads' \subseteq Read
    BY <1>1, <1>3 DEF AskTypeInv, Read
<1> QED BY <1>1, <1>2, <1>4

LEMMA ReceiveChatEffect ==
    ASSUME AskTypeInv, NEW read \in reads, ReceiveChat(read)
    PROVE  /\ reads' = reads \ {read}
           /\ UNCHANGED <<run, stored, answer, wire, leaving>>
           /\ read.chat \in Chats
           /\ \/ ~LatestRead(read) /\ page' = page
              \/ /\ LatestRead(read)
                 /\ page' \in Page
                 /\ page'.turns \in {stored[read.chat].turns, page.turns}
                 /\ page'.openChatId = page.openChatId
                 /\ page'.isRunning = page.isRunning
                 /\ page'.isLoadingChat = FALSE
                 /\ page'.latestReadId = page.latestReadId
<1>1. /\ reads' = reads \ {read}
      /\ UNCHANGED <<run, stored, answer, wire, leaving>>
    BY DEF ReceiveChat
<1>2. read \in Read /\ read.chat \in Chats /\ page \in Page
    BY DEF AskTypeInv, Read
<1>3. stored[read.chat].turns \in Seq(Turn) /\ page.turns \in Seq(Turn)
    BY <1>2 DEF AskTypeInv, Chat, Page
<1>4. CASE LatestRead(read)
  <2> DEFINE turns == IF Open(read.chat) THEN stored[read.chat].turns
                      ELSE page.turns
  <2>1. page' = [page EXCEPT !.turns = turns, !.isLoadingChat = FALSE]
    BY <1>4 DEF ReceiveChat
  <2>2. turns \in Seq(Turn) /\ turns \in {stored[read.chat].turns, page.turns}
    BY <1>3
  <2> HIDE DEF turns
  <2>3. /\ page' \in Page /\ page'.turns = turns
        /\ page'.openChatId = page.openChatId
        /\ page'.isRunning = page.isRunning
        /\ page'.isLoadingChat = FALSE
        /\ page'.latestReadId = page.latestReadId
    BY <1>2, <2>1, <2>2 DEF Page
  <2> QED BY <1>1, <1>2, <1>4, <2>2, <2>3
<1>5. CASE ~LatestRead(read)
    BY <1>1, <1>2, <1>5 DEF ReceiveChat
<1> QED BY <1>4, <1>5

LEMMA DeleteChatEffect ==
    ASSUME AskTypeInv, NEW c \in Chats, DeleteChat(c)
    PROVE  /\ OnlyChat(c) /\ stored'[c].turns = <<>>
           /\ leaving' \subseteq [chat: Chats, wasOpen: BOOLEAN]
           /\ UNCHANGED <<page, run, reads, answer, wire>>
<1>1. /\ stored' = [stored EXCEPT ![c] = [NoTurns EXCEPT !.state = "deleted"]]
      /\ leaving' = leaving \union {[chat |-> c,
                                     wasOpen |-> c = page.openChatId]}
      /\ UNCHANGED <<page, run, reads, answer, wire>>
    BY DEF DeleteChat
<1> DEFINE y == [NoTurns EXCEPT !.state = "deleted"]
           wasOpen == c = page.openChatId
<1>2. <<>> \in Seq(Turn)
    BY EmptySeq
<1>3. y \in Chat /\ y.turns = <<>>
    BY <1>2 DEF NoTurns, Chat
<1>4. stored' = [stored EXCEPT ![c] = y]
    BY <1>1
<1> HIDE DEF y
<1>5. OnlyChat(c) /\ stored'[c] = y
    BY <1>3, <1>4 DEF AskTypeInv, OnlyChat
<1>6. wasOpen \in BOOLEAN
    OBVIOUS
<1>7. leaving' = leaving \union {[chat |-> c, wasOpen |-> wasOpen]}
    BY <1>1
<1> HIDE DEF wasOpen
<1>8. leaving' \subseteq [chat: Chats, wasOpen: BOOLEAN]
    BY <1>6, <1>7 DEF AskTypeInv
<1> QED BY <1>1, <1>3, <1>5, <1>8

LEMMA LeaveDeletedChatEffect ==
    ASSUME AskTypeInv, NEW d \in leaving, LeaveDeletedChat(d)
    PROVE  /\ leaving' \subseteq leaving
           /\ \/ UNCHANGED page
              \/ MaySwitch /\ Switches(NoChat)
           /\ UNCHANGED <<run, reads, stored, answer, wire>>
<1>1. /\ leaving' = leaving \ {d}
      /\ UNCHANGED <<run, reads, stored, answer, wire>>
      /\ \/ UNCHANGED page
         \/ MaySwitch /\ page' = Switched(NoChat)
    BY DEF LeaveDeletedChat
<1>2. page' = Switched(NoChat) => Switches(NoChat)
    BY SwitchEffect
<1> QED BY <1>1, <1>2

(* A step is one of the actions.                                           *)
LEMMA Steps ==
    ASSUME Next
    PROVE  \/ \E r \in Runs :
                 \/ AskQuestion(r)
                 \/ \E c \in Chats : CreateChat(r, c)
                 \/ OpenCreatedChat(r) \/ PostTurn(r) \/ FailRequest(r)
                 \/ ReadFrame(r) \/ EndStream(r) \/ DropStream(r)
                 \/ StartTurn(r) \/ EndAnswer(r) \/ NotSettled(r)
                 \/ \E number \in Nat : StreamDelta(r, number)
                 \/ \E more \in BOOLEAN, results \in Results :
                        SearchDocumentChunks(r, results, more)
                 \/ \E more \in BOOLEAN : RunTool(r, more)
                 \/ \E outcome \in {"done", "error"} : CompleteTurn(r, outcome)
           \/ \E c \in Chats \union {NoChat} : OpenChat(c)
           \/ \E read \in reads : ReceiveChat(read)
           \/ \E c \in Chats : DeleteChat(c)
           \/ \E d \in leaving : LeaveDeletedChat(d)
<1>1. ASSUME NEW r \in Runs, AnswerStep(r)
      PROVE  \/ StartTurn(r) \/ EndAnswer(r) \/ NotSettled(r)
             \/ \E number \in 0..Cardinality(Chunks) : StreamDelta(r, number)
             \/ \E more \in BOOLEAN, results \in Results :
                    SearchDocumentChunks(r, results, more)
             \/ \E more \in BOOLEAN : RunTool(r, more)
             \/ \E outcome \in {"done", "error"} : CompleteTurn(r, outcome)
    BY <1>1 DEF AnswerStep
<1>2. ASSUME NEW r \in Runs, PageStep(r)
      PROVE  \/ \E c \in Chats : CreateChat(r, c)
             \/ OpenCreatedChat(r) \/ PostTurn(r) \/ FailRequest(r)
             \/ ReadFrame(r) \/ EndStream(r)
    BY <1>2 DEF PageStep
<1> QED BY <1>1, <1>2 DEF Next

-----------------------------------------------------------------------------
LEMMA TypeInit == Init => AskTypeInv
<1> SUFFICES ASSUME Init PROVE AskTypeInv
    OBVIOUS
<1>1. <<>> \in Seq(Turn) /\ <<>> \in Seq(FrameSet)
    BY EmptySeq
<1>2. page \in Page
    BY <1>1 DEF Init, Page
<1>3. run \in [Runs -> Run]
    BY DEF Init, IdleRun, Run, RunPhases
<1>4. stored \in [Chats -> Chat]
    BY <1>1 DEF Init, NoTurns, Chat
<1>5. answer \in [Runs -> Answer]
    BY NoAnswerType DEF Init
<1>6. wire \in [Runs -> Seq(FrameSet)]
    BY <1>1 DEF Init
<1> QED BY <1>2, <1>3, <1>4, <1>5, <1>6 DEF Init, AskTypeInv

LEMMA TypeStep ==
    ASSUME AskTypeInv, \A r \in Runs : AnswerHolds(answer[r]), Next
    PROVE  AskTypeInv'
<1> USE DEF AskTypeInv
<1>1. ASSUME NEW r \in Runs, AskQuestion(r) PROVE AskTypeInv'
    BY <1>1, AskQuestionEffect DEF OnlyRun
<1>2. ASSUME NEW r \in Runs, NEW c \in Chats, CreateChat(r, c)
      PROVE  AskTypeInv'
    BY <1>2, CreateChatEffect DEF OnlyRun, OnlyChat
<1>3. ASSUME NEW r \in Runs, OpenCreatedChat(r) PROVE AskTypeInv'
    BY <1>3, OpenCreatedChatEffect DEF Moves, OnlyRun
<1>4. ASSUME NEW r \in Runs, PostTurn(r) PROVE AskTypeInv'
    BY <1>4, PostTurnEffect DEF Moves, OnlyRun, OnlyAnswer
<1>5. ASSUME NEW r \in Runs, FailRequest(r) PROVE AskTypeInv'
    BY <1>5, FailRequestEffect DEF Ends, OnlyRun
<1>6. ASSUME NEW r \in Runs, ReadFrame(r) PROVE AskTypeInv'
    BY <1>6, ReadFrameEffect DEF Ends, OnlyRun, OnlyWire
<1>7. ASSUME NEW r \in Runs, EndStream(r) PROVE AskTypeInv'
    BY <1>7, EndStreamEffect DEF Ends, OnlyRun
<1>8. ASSUME NEW r \in Runs, DropStream(r) PROVE AskTypeInv'
    BY <1>8, DropStreamEffect DEF OnlyAnswer, OnlyWire
<1>9. ASSUME NEW r \in Runs, StartTurn(r) PROVE AskTypeInv'
    BY <1>9, StartTurnEffect DEF AnswerIs, OnlyAnswer, OnlyChat, Sends, OnlyWire
<1>10. ASSUME NEW r \in Runs, EndAnswer(r) PROVE AskTypeInv'
    BY <1>10, EndAnswerEffect DEF AnswerIs, OnlyAnswer
<1>11. ASSUME NEW r \in Runs, NotSettled(r) PROVE AskTypeInv'
    BY <1>11, NotSettledEffect DEF AnswerIs, OnlyAnswer, Sends, OnlyWire
<1>12. ASSUME NEW r \in Runs, NEW number \in Nat, StreamDelta(r, number)
       PROVE  AskTypeInv'
    BY <1>12, StreamDeltaEffect DEF AnswerIs, OnlyAnswer, Sends, OnlyWire
<1>13. ASSUME NEW r \in Runs, NEW more \in BOOLEAN, NEW results \in Results,
              SearchDocumentChunks(r, results, more)
       PROVE  AskTypeInv'
    BY <1>13, SearchEffect DEF AnswerIs, OnlyAnswer, Sends, OnlyWire
<1>14. ASSUME NEW r \in Runs, NEW more \in BOOLEAN, RunTool(r, more)
       PROVE  AskTypeInv'
    BY <1>14, RunToolEffect DEF AnswerIs, OnlyAnswer
<1>15. ASSUME NEW r \in Runs, NEW outcome \in {"done", "error"},
              CompleteTurn(r, outcome)
       PROVE  AskTypeInv'
    BY <1>15, CompleteTurnEffect
       DEF Stores, AnswerIs, OnlyAnswer, OnlyChat, Sends, OnlyWire
<1>16. ASSUME NEW c \in Chats \union {NoChat}, OpenChat(c) PROVE AskTypeInv'
    BY <1>16, OpenChatEffect DEF Switches
<1>17. ASSUME NEW read \in reads, ReceiveChat(read) PROVE AskTypeInv'
    BY <1>17, ReceiveChatEffect
<1>18. ASSUME NEW c \in Chats, DeleteChat(c) PROVE AskTypeInv'
    BY <1>18, DeleteChatEffect DEF OnlyChat
<1>19. ASSUME NEW d \in leaving, LeaveDeletedChat(d) PROVE AskTypeInv'
    BY <1>19, LeaveDeletedChatEffect DEF Switches
<1> QED BY Steps, <1>1, <1>2, <1>3, <1>4, <1>5, <1>6, <1>7, <1>8, <1>9, <1>10,
           <1>11, <1>12, <1>13, <1>14, <1>15, <1>16, <1>17, <1>18, <1>19

-----------------------------------------------------------------------------
(* What the page says it does.  A step that neither gives out an id nor    *)
(* ends or overtakes what has one leaves it as it was.                     *)
LEMMA IdsKept ==
    ASSUME IdsHold, reads' = reads,
           page'.latestReadId = page.latestReadId,
           page'.isRunning = page.isRunning,
           page'.isLoadingChat = page.isLoadingChat,
           \A q \in Runs :
               \/ run'[q] = run[q]
               \/ Active(q) /\ Active(q)' /\ run'[q].runId = run[q].runId
    PROVE  IdsHold'
<1>1. \A q \in Runs : (Active(q)' <=> Active(q)) /\ (Live(q)' <=> Live(q))
                     /\ (Active(q) => run'[q].runId = run[q].runId)
                     /\ (~Active(q) => run'[q] = run[q])
    BY DEF Active, Live, Current
<1>2. \A read : LatestRead(read)' <=> LatestRead(read)
    BY DEF LatestRead
<1>3. PageTellsWhatItDoes'
    BY <1>1, <1>2 DEF IdsHold, PageTellsWhatItDoes, Active, Live
<1>4. \A r \in Runs : IF Active(r)' THEN run'[r].runId \in 1..page'.latestReadId
                     ELSE run'[r] \in {IdleRun, EndedRun}
    BY <1>1 DEF IdsHold
<1>5. \A read \in reads' : read.readId \in 1..page'.latestReadId
    BY DEF IdsHold
<1>6. \A r, q \in Runs : Live(r)' /\ Live(q)' => r = q
    BY <1>1 DEF IdsHold
<1>7. \A a, b \in reads' : LatestRead(a)' /\ LatestRead(b)' => a = b
    BY <1>2 DEF IdsHold
<1>8. \A r \in Runs, read \in reads' : Live(r)' => ~LatestRead(read)'
    BY <1>1, <1>2 DEF IdsHold
<1> QED BY <1>3, <1>4, <1>5, <1>6, <1>7, <1>8 DEF IdsHold

(* The end of a call is the end of the answer the page waits for, if the   *)
(* call is the latest.                                                     *)
LEMMA IdsEnd ==
    ASSUME IdsHold, NEW r \in Runs, Active(r), NEW state, Ends(r, state),
           reads' = reads
    PROVE  IdsHold'
<1>1. /\ run'[r] = EndedRun
      /\ \A q \in Runs \ {r} : run'[q] = run[q]
      /\ page'.isRunning = IF Current(r) THEN FALSE ELSE page.isRunning
      /\ page'.isLoadingChat = page.isLoadingChat
      /\ page'.latestReadId = page.latestReadId
    BY DEF Ends, OnlyRun
<1>2. ~Active(r)' /\ ~Live(r)'
    BY <1>1 DEF Active, Live, EndedRun, IdleRun
<1>3. \A q \in Runs \ {r} : (Active(q)' <=> Active(q)) /\ (Live(q)' <=> Live(q))
    BY <1>1 DEF Active, Live, Current
<1>4. \A read : LatestRead(read)' <=> LatestRead(read)
    BY <1>1 DEF LatestRead
<1>5. page.isRunning <=> \E q \in Runs : Live(q)
    BY DEF IdsHold, PageTellsWhatItDoes, Active, Live
<1>6. page'.isRunning <=> \E q \in Runs : Live(q)'
  <2>1. CASE Current(r)
    <3>1. \A q \in Runs : Live(q) => q = r
      BY <2>1 DEF IdsHold, Live
    <3> QED BY <1>1, <1>2, <1>3, <2>1, <3>1
  <2>2. CASE ~Current(r)
    <3>1. ~Live(r)
      BY <2>2 DEF Live
    <3> QED BY <1>1, <1>2, <1>3, <1>5, <2>2, <3>1
  <2> QED BY <2>1, <2>2
<1>7. PageTellsWhatItDoes'
    BY <1>1, <1>4, <1>6 DEF IdsHold, PageTellsWhatItDoes, Active, Live
<1>8. \A q \in Runs : IF Active(q)' THEN run'[q].runId \in 1..page'.latestReadId
                     ELSE run'[q] \in {IdleRun, EndedRun}
    BY <1>1, <1>2, <1>3 DEF IdsHold
<1>9. \A read \in reads' : read.readId \in 1..page'.latestReadId
    BY <1>1 DEF IdsHold
<1>10. \A p, q \in Runs : Live(p)' /\ Live(q)' => p = q
    BY <1>2, <1>3 DEF IdsHold
<1>11. \A a, b \in reads' : LatestRead(a)' /\ LatestRead(b)' => a = b
    BY <1>4 DEF IdsHold
<1>12. \A q \in Runs, read \in reads' : Live(q)' => ~LatestRead(read)'
    BY <1>2, <1>3, <1>4 DEF IdsHold
<1> QED BY <1>7, <1>8, <1>9, <1>10, <1>11, <1>12 DEF IdsHold

(* A question takes the next id, which no question and no read has.        *)
LEMMA IdsAsk ==
    ASSUME AskTypeInv, IdsHold, NEW r \in Runs, AskQuestion(r)
    PROVE  IdsHold'
<1>1. /\ run[r].phase = "idle" /\ ~page.isRunning /\ ~page.isLoadingChat
      /\ page'.isRunning = TRUE /\ page'.isLoadingChat = page.isLoadingChat
      /\ page'.latestReadId = page.latestReadId + 1
      /\ \A q \in Runs \ {r} : run'[q] = run[q]
      /\ run'[r].phase \in {"create", "post"}
      /\ run'[r].runId = page.latestReadId + 1
      /\ reads' = reads
    BY AskQuestionEffect DEF OnlyRun
<1>2. page.latestReadId \in Nat
    BY DEF AskTypeInv, Page
<1>3. Active(r)' /\ Live(r)'
    BY <1>1 DEF Active, Live, Current
<1>4. ASSUME NEW q \in Runs \ {r}
      PROVE  /\ Active(q)' <=> Active(q)
             /\ run'[q] = run[q]
             /\ ~Live(q)'
    BY <1>1, <1>2 DEF Active, Live, Current, IdsHold
<1>5. \A read \in reads : ~LatestRead(read)'
    BY <1>1, <1>2 DEF IdsHold, LatestRead
<1>6. \A q \in Runs : IF Active(q)' THEN run'[q].runId \in 1..page'.latestReadId
                     ELSE run'[q] \in {IdleRun, EndedRun}
  <2>1. \A q \in Runs \ {r} : Active(q) => run[q].runId \in 1..page'.latestReadId
    BY <1>1, <1>2 DEF IdsHold
  <2>2. run'[r].runId \in 1..page'.latestReadId
    BY <1>1, <1>2
  <2> QED BY <1>3, <1>4, <2>1, <2>2 DEF IdsHold
<1>7. \A read \in reads' : read.readId \in 1..page'.latestReadId
    BY <1>1, <1>2 DEF IdsHold
<1>8. PageTellsWhatItDoes'
  <2>1. \E q \in Runs : Live(q)'
    BY <1>3
  <2> QED BY <1>1, <1>5, <2>1 DEF PageTellsWhatItDoes, Active, Live
<1>9. \A p, q \in Runs : Live(p)' /\ Live(q)' => p = q
    BY <1>4
<1>10. /\ \A a, b \in reads' : LatestRead(a)' /\ LatestRead(b)' => a = b
       /\ \A q \in Runs, read \in reads' : Live(q)' => ~LatestRead(read)'
    BY <1>1, <1>5
<1> QED BY <1>6, <1>7, <1>8, <1>9, <1>10 DEF IdsHold

(* A switch takes the next id, for a read or for the empty chat.           *)
LEMMA IdsSwitch ==
    ASSUME AskTypeInv, IdsHold, NEW c \in Chats \union {NoChat}, Switches(c),
           run' = run,
           reads' = IF c = NoChat THEN reads
                    ELSE reads \union {[readId |-> page.latestReadId + 1,
                                       chat |-> c]}
    PROVE  IdsHold'
<1>1. /\ page'.isRunning = FALSE /\ page'.isLoadingChat = (c # NoChat)
      /\ page'.latestReadId = page.latestReadId + 1
    BY DEF Switches
<1>2. page.latestReadId \in Nat
    BY DEF AskTypeInv, Page
<1>3. \A q \in Runs : (Active(q)' <=> Active(q)) /\ ~Live(q)'
    BY <1>1, <1>2 DEF Active, Live, Current, IdsHold
<1>4. \A read \in reads : ~LatestRead(read)'
    BY <1>1, <1>2 DEF IdsHold, LatestRead
<1>a. PICK new : new = [readId |-> page.latestReadId + 1, chat |-> c]
    OBVIOUS
<1>5. LatestRead(new)' /\ new.readId \in 1..page'.latestReadId
    BY <1>1, <1>2, <1>a DEF LatestRead
<1>6. reads' = IF c = NoChat THEN reads ELSE reads \union {new}
    BY <1>a
<1>7. \A q \in Runs : IF Active(q)' THEN run'[q].runId \in 1..page'.latestReadId
                     ELSE run'[q] \in {IdleRun, EndedRun}
    BY <1>1, <1>2, <1>3 DEF IdsHold
<1>8. \A read \in reads' : read.readId \in 1..page'.latestReadId
  <2>1. \A read \in reads : read.readId \in 1..page'.latestReadId
    BY <1>1, <1>2 DEF IdsHold
  <2> QED BY <1>5, <1>6, <2>1
<1>9. \A a, b \in reads' : LatestRead(a)' /\ LatestRead(b)' => a = b
    BY <1>4, <1>6
<1>10. page'.isLoadingChat <=> \E read \in reads' : LatestRead(read)'
  <2>1. CASE c = NoChat
    BY <1>1, <1>4, <1>6, <2>1
  <2>2. CASE c # NoChat
    <3>1. new \in reads'
      BY <1>6, <2>2
    <3>2. page'.isLoadingChat
      BY <1>1, <2>2
    <3> QED BY <1>5, <3>1, <3>2
  <2> QED BY <2>1, <2>2
<1>11. PageTellsWhatItDoes'
    BY <1>1, <1>3, <1>10 DEF PageTellsWhatItDoes, Active, Live
<1> QED BY <1>3, <1>7, <1>8, <1>9, <1>11 DEF IdsHold

(* Only the answer to the latest read ends the loading.                    *)
LEMMA IdsReceive ==
    ASSUME AskTypeInv, IdsHold, NEW read \in reads, ReceiveChat(read)
    PROVE  IdsHold'
<1>1. /\ reads' = reads \ {read} /\ run' = run
      /\ \/ ~LatestRead(read) /\ page' = page
         \/ /\ LatestRead(read)
            /\ page'.isRunning = page.isRunning
            /\ page'.isLoadingChat = FALSE
            /\ page'.latestReadId = page.latestReadId
    BY ReceiveChatEffect
<1>2. \A q \in Runs : (Active(q)' <=> Active(q)) /\ (Live(q)' <=> Live(q))
    BY <1>1 DEF Active, Live, Current
<1>3. \A x : LatestRead(x)' <=> LatestRead(x)
    BY <1>1 DEF LatestRead
<1>4. page.isLoadingChat <=> \E x \in reads : LatestRead(x)
    BY DEF IdsHold, PageTellsWhatItDoes
<1>5. page'.isLoadingChat <=> \E x \in reads' : LatestRead(x)'
  <2>1. CASE LatestRead(read)
    <3>1. \A x \in reads : LatestRead(x) => x = read
      BY <2>1 DEF IdsHold
    <3> QED BY <1>1, <1>3, <2>1, <3>1
  <2>2. CASE ~LatestRead(read)
    BY <1>1, <1>3, <1>4, <2>2
  <2> QED BY <2>1, <2>2
<1>6. PageTellsWhatItDoes'
    BY <1>1, <1>2, <1>5 DEF IdsHold, PageTellsWhatItDoes, Active, Live
<1>7. \A q \in Runs : IF Active(q)' THEN run'[q].runId \in 1..page'.latestReadId
                     ELSE run'[q] \in {IdleRun, EndedRun}
    BY <1>1, <1>2 DEF IdsHold
<1>8. \A x \in reads' : x.readId \in 1..page'.latestReadId
    BY <1>1 DEF IdsHold
<1>9. \A p, q \in Runs : Live(p)' /\ Live(q)' => p = q
    BY <1>2 DEF IdsHold
<1>10. \A a, b \in reads' : LatestRead(a)' /\ LatestRead(b)' => a = b
    BY <1>1, <1>3 DEF IdsHold
<1>11. \A q \in Runs, x \in reads' : Live(q)' => ~LatestRead(x)'
    BY <1>1, <1>2, <1>3 DEF IdsHold
<1> QED BY <1>6, <1>7, <1>8, <1>9, <1>10, <1>11 DEF IdsHold

LEMMA IdsInit == Init => IdsHold
<1> SUFFICES ASSUME Init PROVE IdsHold
    OBVIOUS
<1>1. /\ run = [r \in Runs |-> IdleRun] /\ reads = {}
      /\ page.isRunning = FALSE /\ page.isLoadingChat = FALSE
    BY DEF Init
<1>2. \A r \in Runs : run[r] = IdleRun /\ ~Active(r)
    BY <1>1 DEF Active, IdleRun
<1>3. PageTellsWhatItDoes
    BY <1>1, <1>2 DEF PageTellsWhatItDoes, Active
<1> QED BY <1>1, <1>2, <1>3 DEF IdsHold, Live

LEMMA IdsStep ==
    ASSUME AskTypeInv, \A r \in Runs : AnswerHolds(answer[r]), IdsHold, Next
    PROVE  IdsHold'
<1>1. ASSUME NEW r \in Runs, AskQuestion(r) PROVE IdsHold'
    BY <1>1, IdsAsk
<1>2. ASSUME NEW r \in Runs, NEW c \in Chats, CreateChat(r, c)
      PROVE  IdsHold'
    BY <1>2, CreateChatEffect, IdsKept DEF OnlyRun, Active
<1>3. ASSUME NEW r \in Runs, OpenCreatedChat(r) PROVE IdsHold'
    BY <1>3, OpenCreatedChatEffect, IdsKept DEF Moves, OnlyRun, Active
<1>4. ASSUME NEW r \in Runs, PostTurn(r) PROVE IdsHold'
    BY <1>4, PostTurnEffect, IdsKept DEF Moves, OnlyRun, Active
<1>5. ASSUME NEW r \in Runs, FailRequest(r) PROVE IdsHold'
    BY <1>5, FailRequestEffect, IdsEnd DEF Active
<1>6. ASSUME NEW r \in Runs, ReadFrame(r) PROVE IdsHold'
  <2>1. run[r].phase = "stream" /\ reads' = reads
    BY <1>6, ReadFrameEffect
  <2>2. CASE Ends(r, "error")
    BY <2>1, <2>2, IdsEnd DEF Active
  <2>3. CASE ~Ends(r, "error")
    BY <1>6, <2>1, <2>3, ReadFrameEffect, IdsKept DEF OnlyRun, Active
  <2> QED BY <2>2, <2>3
<1>7. ASSUME NEW r \in Runs, EndStream(r) PROVE IdsHold'
  <2>1. /\ run[r].phase = "stream" /\ reads' = reads
        /\ Ends(r, StateAtEnd(r))
    BY <1>7, EndStreamEffect
  <2>2. Active(r)
    BY <2>1 DEF Active
  <2> QED BY <2>1, <2>2, IdsEnd
<1>8. ASSUME page' = page, run' = run, reads' = reads PROVE IdsHold'
    BY <1>8, IdsKept
<1>9. ASSUME NEW r \in Runs, DropStream(r) PROVE IdsHold'
    BY <1>8, <1>9, DropStreamEffect
<1>10. ASSUME NEW r \in Runs, StartTurn(r) PROVE IdsHold'
    BY <1>8, <1>10, StartTurnEffect
<1>11. ASSUME NEW r \in Runs, EndAnswer(r) PROVE IdsHold'
    BY <1>8, <1>11, EndAnswerEffect
<1>12. ASSUME NEW r \in Runs, NotSettled(r) PROVE IdsHold'
    BY <1>8, <1>12, NotSettledEffect
<1>13. ASSUME NEW r \in Runs, NEW number \in Nat, StreamDelta(r, number)
       PROVE  IdsHold'
    BY <1>8, <1>13, StreamDeltaEffect
<1>14. ASSUME NEW r \in Runs, NEW more \in BOOLEAN, NEW results \in Results,
              SearchDocumentChunks(r, results, more)
       PROVE  IdsHold'
    BY <1>8, <1>14, SearchEffect
<1>15. ASSUME NEW r \in Runs, NEW more \in BOOLEAN, RunTool(r, more)
       PROVE  IdsHold'
    BY <1>8, <1>15, RunToolEffect
<1>16. ASSUME NEW r \in Runs, NEW outcome \in {"done", "error"},
              CompleteTurn(r, outcome)
       PROVE  IdsHold'
    BY <1>8, <1>16, CompleteTurnEffect
<1>17. ASSUME NEW c \in Chats \union {NoChat}, OpenChat(c) PROVE IdsHold'
    BY <1>17, OpenChatEffect, IdsSwitch
<1>18. ASSUME NEW read \in reads, ReceiveChat(read) PROVE IdsHold'
    BY <1>18, IdsReceive
<1>19. ASSUME NEW c \in Chats, DeleteChat(c) PROVE IdsHold'
    BY <1>8, <1>19, DeleteChatEffect
<1>20. ASSUME NEW d \in leaving, LeaveDeletedChat(d) PROVE IdsHold'
  <2>1. CASE UNCHANGED page
    BY <1>8, <1>20, <2>1, LeaveDeletedChatEffect
  <2>2. CASE ~UNCHANGED page
    BY <1>20, <2>2, LeaveDeletedChatEffect, IdsSwitch
  <2> QED BY <2>1, <2>2
<1> QED BY Steps, <1>1, <1>2, <1>3, <1>4, <1>5, <1>6, <1>7, <1>9, <1>10, <1>11,
           <1>12, <1>13, <1>14, <1>15, <1>16, <1>17, <1>18, <1>19, <1>20

-----------------------------------------------------------------------------
(* The text of an answer cites what the answer found.                      *)
LEMMA AnswersInit == Init => AnswersHold
<1> SUFFICES ASSUME Init, NEW r \in Runs PROVE AnswerHolds(answer[r])
    BY DEF AnswersHold
<1>1. answer[r] = NoAnswer
    BY DEF Init
<1>2. DOMAIN NoSession = {}
    BY NoAnswerType
<1>3. SessionIsSound(NoSession) /\ Numbered(NoSession, {}) = {}
    BY <1>2 DEF SessionIsSound, Numbered
<1>4. DOMAIN NoAnswer.text = {}
    BY DEF NoAnswer
<1> QED BY <1>1, <1>2, <1>3, <1>4 DEF AnswerHolds, NoAnswer

(* A step that leaves what an answer says keeps it.                        *)
LEMMA AnswerKept ==
    ASSUME AskTypeInv, AnswersHold, NEW r \in Runs, OnlyAnswer(r),
           answer'[r].session = answer[r].session,
           answer'[r].text = answer[r].text,
           answer'[r].citations = answer[r].citations,
           \/ answer'[r].phase # "finish"
           \/ answer'[r].finished
    PROVE  AnswersHold'
<1>1. AnswerHolds(answer[r])'
    BY DEF AnswersHold, AnswerHolds
<1> QED BY <1>1 DEF AnswersHold, OnlyAnswer, AnswerHolds

(* A piece is written with a number that is given out.                     *)
LEMMA AnswerWrites ==
    ASSUME AskTypeInv, AnswersHold, NEW r \in Runs, NEW number \in Nat,
           number \in {0} \union NumbersOf(answer[r].session),
           NEW phase, NEW finished, phase = "finish" => finished,
           AnswerIs(r, phase, answer[r].session, Append(answer[r].text, number),
                    answer[r].citations, finished)
    PROVE  AnswersHold'
<1>1. answer[r].text \in Seq(Nat)
    BY DEF AskTypeInv, Answer
<1>2. /\ OnlyAnswer(r)
      /\ answer'[r].session = answer[r].session
      /\ answer'[r].text = Append(answer[r].text, number)
      /\ answer'[r].citations = answer[r].citations
      /\ answer'[r].phase = "finish" => answer'[r].finished
    BY DEF AnswerIs
<1>3. \A i \in DOMAIN answer'[r].text :
          answer'[r].text[i] \in {0} \union NumbersOf(answer[r].session)
  <2>1. \A i \in DOMAIN answer[r].text :
            answer[r].text[i] \in {0} \union NumbersOf(answer[r].session)
    BY DEF AnswersHold, AnswerHolds
  <2>2. Append(answer[r].text, number) \in Seq(Nat)
    BY <1>1, AppendProperties
  <2>3. /\ DOMAIN answer'[r].text = 1..Len(answer[r].text) + 1
        /\ DOMAIN answer[r].text = 1..Len(answer[r].text)
        /\ Len(answer[r].text) \in Nat
    BY <1>1, <1>2, <2>2, AppendProperties, LenProperties
  <2>4. /\ \A i \in 1..Len(answer[r].text) :
               answer'[r].text[i] = answer[r].text[i]
        /\ answer'[r].text[Len(answer[r].text) + 1] = number
    BY <1>1, <1>2, AppendProperties
  <2> QED BY <2>1, <2>3, <2>4
<1>4. AnswerHolds(answer[r])'
    BY <1>2, <1>3 DEF AnswersHold, AnswerHolds
<1> QED BY <1>2, <1>4 DEF AnswersHold, OnlyAnswer, AnswerHolds

LEMMA AnswersStep ==
    ASSUME AskTypeInv, AnswersHold, Next
    PROVE  AnswersHold'
<1>0. \A r \in Runs : AnswerHolds(answer[r])
    BY DEF AnswersHold
<1>1. ASSUME UNCHANGED answer PROVE AnswersHold'
    BY <1>1 DEF AnswersHold, AnswerHolds
<1>2. ASSUME NEW r \in Runs, AskQuestion(r) PROVE AnswersHold'
    BY <1>1, <1>2, AskQuestionEffect
<1>3. ASSUME NEW r \in Runs, NEW c \in Chats, CreateChat(r, c)
      PROVE  AnswersHold'
    BY <1>1, <1>3, CreateChatEffect
<1>4. ASSUME NEW r \in Runs, OpenCreatedChat(r) PROVE AnswersHold'
    BY <1>1, <1>4, OpenCreatedChatEffect
<1>5. ASSUME NEW r \in Runs, PostTurn(r) PROVE AnswersHold'
  <2>1. /\ OnlyAnswer(r)
        /\ answer'[r] = [NoAnswer EXCEPT !.phase = "sent", !.chat = run[r].chat]
    BY <1>5, PostTurnEffect
  <2>2. /\ answer'[r].session = NoSession /\ answer'[r].text = <<>>
        /\ answer'[r].citations = {} /\ answer'[r].phase = "sent"
    BY <2>1 DEF NoAnswer
  <2>3. DOMAIN NoSession = {}
    BY NoAnswerType
  <2>4. SessionIsSound(NoSession) /\ Numbered(NoSession, {}) = {}
    BY <2>3 DEF SessionIsSound, Numbered
  <2>5. AnswerHolds(answer[r])'
    BY <2>2, <2>3, <2>4 DEF AnswerHolds
  <2> QED BY <2>1, <2>5 DEF AnswersHold, OnlyAnswer, AnswerHolds
<1>6. ASSUME NEW r \in Runs, FailRequest(r) PROVE AnswersHold'
    BY <1>1, <1>6, FailRequestEffect
<1>7. ASSUME NEW r \in Runs, ReadFrame(r) PROVE AnswersHold'
    BY <1>1, <1>7, ReadFrameEffect
<1>8. ASSUME NEW r \in Runs, EndStream(r) PROVE AnswersHold'
    BY <1>1, <1>8, EndStreamEffect
<1>9. ASSUME NEW r \in Runs, DropStream(r) PROVE AnswersHold'
  <2>1. OnlyAnswer(r) /\ answer'[r] = [answer[r] EXCEPT !.closed = TRUE]
    BY <1>9, DropStreamEffect
  <2>2. /\ answer'[r].session = answer[r].session
        /\ answer'[r].text = answer[r].text
        /\ answer'[r].citations = answer[r].citations
        /\ answer'[r].phase = answer[r].phase
        /\ answer'[r].finished = answer[r].finished
    BY <2>1 DEF AskTypeInv, Answer
  <2>3. answer[r].phase = "finish" => answer[r].finished
    BY <1>0 DEF AnswerHolds
  <2> QED BY <2>1, <2>2, <2>3, AnswerKept
<1>10. ASSUME NEW r \in Runs, StartTurn(r) PROVE AnswersHold'
    BY <1>10, StartTurnEffect, AnswerKept DEF AnswerIs
<1>11. ASSUME NEW r \in Runs, EndAnswer(r) PROVE AnswersHold'
    BY <1>11, EndAnswerEffect, AnswerKept DEF AnswerIs
<1>12. ASSUME NEW r \in Runs, NotSettled(r) PROVE AnswersHold'
    BY <1>12, NotSettledEffect, AnswerWrites
<1>13. ASSUME NEW r \in Runs, NEW number \in Nat, StreamDelta(r, number)
       PROVE  AnswersHold'
    BY <1>13, StreamDeltaEffect, AnswerWrites
<1>14. ASSUME NEW r \in Runs, NEW more \in BOOLEAN, NEW results \in Results,
              SearchDocumentChunks(r, results, more)
       PROVE  AnswersHold'
  <2>1. PICK session \in Session, phase \in {"model", "tools"},
             cited \in SUBSET Citation :
            /\ SessionIsSound(session)
            /\ answer[r].citations \union cited
                   = Numbered(session, DOMAIN session)
            /\ NumbersOf(answer[r].session) \subseteq NumbersOf(session)
            /\ AnswerIs(r, phase, session, answer[r].text,
                        answer[r].citations \union cited, answer[r].finished)
    BY <1>0, <1>14, SearchEffect
  <2>2. \A i \in DOMAIN answer[r].text :
            answer[r].text[i] \in {0} \union NumbersOf(session)
    BY <1>0, <2>1 DEF AnswerHolds
  <2>3. AnswerHolds(answer[r])'
    BY <2>1, <2>2 DEF AnswerHolds, AnswerIs
  <2> QED BY <1>0, <2>1, <2>3 DEF AnswersHold, AnswerIs, OnlyAnswer, AnswerHolds
<1>15. ASSUME NEW r \in Runs, NEW more \in BOOLEAN, RunTool(r, more)
       PROVE  AnswersHold'
    BY <1>15, RunToolEffect, AnswerKept DEF AnswerIs
<1>16. ASSUME NEW r \in Runs, NEW outcome \in {"done", "error"},
              CompleteTurn(r, outcome)
       PROVE  AnswersHold'
    BY <1>16, CompleteTurnEffect, AnswerKept DEF AnswerIs
<1>17. ASSUME NEW c \in Chats \union {NoChat}, OpenChat(c) PROVE AnswersHold'
    BY <1>1, <1>17, OpenChatEffect
<1>18. ASSUME NEW read \in reads, ReceiveChat(read) PROVE AnswersHold'
    BY <1>1, <1>18, ReceiveChatEffect
<1>19. ASSUME NEW c \in Chats, DeleteChat(c) PROVE AnswersHold'
    BY <1>1, <1>19, DeleteChatEffect
<1>20. ASSUME NEW d \in leaving, LeaveDeletedChat(d) PROVE AnswersHold'
    BY <1>1, <1>20, LeaveDeletedChatEffect
<1> QED BY Steps, <1>2, <1>3, <1>4, <1>5, <1>6, <1>7, <1>8, <1>9, <1>10, <1>11,
           <1>12, <1>13, <1>14, <1>15, <1>16, <1>17, <1>18, <1>19, <1>20

(* The part of the invariant that the rest stands on.                      *)
BaseInv == AskTypeInv /\ AnswersHold /\ IdsHold

LEMMA BaseInvHolds == Spec => []BaseInv
<1>1. Init => BaseInv
    BY TypeInit, AnswersInit, IdsInit DEF BaseInv
<1>2. BaseInv /\ [Next]_vars => BaseInv'
  <2> SUFFICES ASSUME BaseInv, [Next]_vars PROVE BaseInv'
    OBVIOUS
  <2>1. CASE Next
    BY <2>1, TypeStep, AnswersStep, IdsStep DEF BaseInv, AnswersHold
  <2>2. CASE UNCHANGED vars
    BY <2>2 DEF vars, BaseInv, AskTypeInv, AnswersHold, AnswerHolds, IdsHold,
       PageTellsWhatItDoes, Active, Live, Current, LatestRead
  <2> QED BY <2>1, <2>2
<1> QED BY <1>1, <1>2, PTL DEF Spec

(* The composer is free exactly when the latest question has its answer,   *)
(* and the spinner is gone exactly when the latest read has (latestReadId  *)
(* in open-chat.ts), for any number of chats, questions and reads: neither *)
(* an abandoned answer nor an overtaken read ends what came after it.      *)
THEOREM PageStateFollowsTheLatest == Spec => []PageTellsWhatItDoes
<1>1. BaseInv => PageTellsWhatItDoes
    BY DEF BaseInv, IdsHold
<1> QED BY <1>1, BaseInvHolds, PTL

-----------------------------------------------------------------------------
(* Where the page is in the text, as frames are sent and read.             *)
LEMMA FramesAppend ==
    ASSUME NEW w \in Seq(FrameSet), NEW f \in FrameSet
    PROVE  LET v == Append(w, f)
           IN  /\ v \in Seq(FrameSet) /\ Len(w) \in Nat
               /\ Len(v) = Len(w) + 1
               /\ DOMAIN w = 1..Len(w) /\ DOMAIN v = 1..(Len(w) + 1)
               /\ \A j \in 1..Len(w) : v[j] = w[j]
               /\ v[Len(w) + 1] = f
<1>1. Append(w, f) \in Seq(FrameSet)
    BY AppendProperties
<1> QED BY <1>1, AppendProperties, LenProperties

LEMMA FramesTail ==
    ASSUME NEW w \in Seq(FrameSet), w # <<>>
    PROVE  LET v == Tail(w)
           IN  /\ v \in Seq(FrameSet)
               /\ Len(v) \in Nat /\ Len(w) = Len(v) + 1
               /\ DOMAIN w = 1..(Len(v) + 1) /\ DOMAIN v = 1..Len(v)
               /\ \A j \in 1..Len(v) : v[j] = w[j + 1]
               /\ w[1] \in FrameSet
<1>1. /\ Tail(w) \in Seq(FrameSet) /\ Len(Tail(w)) = Len(w) - 1
      /\ \A j \in 1..Len(Tail(w)) : Tail(w)[j] = w[j + 1]
    BY HeadTailProperties
<1>2. /\ Len(w) \in Nat /\ DOMAIN w = 1..Len(w)
      /\ Len(Tail(w)) \in Nat /\ DOMAIN Tail(w) = 1..Len(Tail(w))
    BY <1>1, LenProperties
<1>3. Len(w) = Len(Tail(w)) + 1
    BY <1>1, <1>2
<1>4. w[1] \in FrameSet
    BY <1>2, <1>3, ElementOfSeq
<1> QED BY <1>1, <1>2, <1>3, <1>4

LEMMA TextAppend ==
    ASSUME NEW text \in Seq(Nat), NEW n \in Nat
    PROVE  LET t == Append(text, n)
           IN  /\ t \in Seq(Nat) /\ Len(text) \in Nat
               /\ Len(t) = Len(text) + 1
               /\ DOMAIN text = 1..Len(text) /\ DOMAIN t = 1..(Len(text) + 1)
               /\ \A j \in 1..Len(text) : t[j] = text[j]
               /\ t[Len(text) + 1] = n
               /\ text \o <<n>> = t
<1>1. Append(text, n) \in Seq(Nat)
    BY AppendProperties
<1>2. text \o <<n>> = Append(text, n)
    BY AppendIsConcat
<1> QED BY <1>1, <1>2, AppendProperties, LenProperties

LEMMA ContinuesDelta ==
    ASSUME NEW text \in Seq(Nat), NEW w \in Seq(FrameSet),
           NEW whole \in Seq(Nat), NEW n \in Nat, Continues(text, w, whole)
    PROVE  Continues(text, Append(w, Frame("delta", <<n>>)), Append(whole, n))
<1> DEFINE f == Frame("delta", <<n>>)
           v == Append(w, f)
           more == Append(whole, n)
           l == Len(w)
<1>0. f \in FrameSet /\ f.type = "delta" /\ f.value = <<n>>
    BY DeltaFrameType
<1> HIDE DEF f
<1>1. /\ l \in Nat /\ Len(v) = l + 1
      /\ DOMAIN w = 1..l /\ DOMAIN v = 1..(l + 1)
      /\ \A j \in 1..l : v[j] = w[j]
      /\ v[l + 1] = f
    BY <1>0, FramesAppend
<1>2. /\ Len(whole) \in Nat /\ Len(more) = Len(whole) + 1
      /\ \A j \in 1..Len(whole) : more[j] = whole[j]
      /\ more[Len(whole) + 1] = n
    BY TextAppend
<1>3. PICK at \in [1..(l + 1) -> 0..Len(whole)] :
          /\ at[1] = Len(text) /\ at[l + 1] = Len(whole)
          /\ \A j \in DOMAIN w :
                 IF w[j].type = "delta"
                 THEN at[j + 1] = at[j] + 1 /\ w[j].value = <<whole[at[j] + 1]>>
                 ELSE at[j + 1] = at[j]
    BY DEF Continues
<1> DEFINE to == [j \in 1..(l + 2) |-> IF j <= l + 1 THEN at[j]
                                      ELSE Len(whole) + 1]
<1> HIDE DEF v, more, l
<1>4. to \in [1..(l + 2) -> 0..(Len(whole) + 1)]
  <2>1. \A j \in 1..(l + 2) : j <= l + 1 => at[j] \in 0..(Len(whole) + 1)
    BY <1>1, <1>2, <1>3
  <2> QED BY <1>1, <1>2, <2>1
<1>5. /\ to[1] = Len(text) /\ to[l + 2] = Len(whole) + 1
      /\ \A j \in 1..(l + 1) : to[j] = at[j]
    BY <1>1, <1>3
<1> HIDE DEF to
<1>6. ASSUME NEW j \in 1..(l + 1)
      PROVE  IF v[j].type = "delta"
             THEN to[j + 1] = to[j] + 1 /\ v[j].value = <<more[to[j] + 1]>>
             ELSE to[j + 1] = to[j]
  <2>1. CASE j = l + 1
    <3>1. to[j] = Len(whole) /\ to[j + 1] = Len(whole) + 1
      BY <1>1, <1>3, <1>5, <2>1
    <3>2. v[j].type = "delta" /\ v[j].value = <<n>>
      BY <1>0, <1>1, <2>1
    <3> QED BY <1>2, <3>1, <3>2
  <2>2. CASE j # l + 1
    <3>1. /\ j \in 1..l /\ j + 1 \in 1..(l + 1) /\ v[j] = w[j]
          /\ to[j] = at[j] /\ to[j + 1] = at[j + 1]
          /\ at[j] \in 0..Len(whole) /\ at[j + 1] \in 0..Len(whole)
      BY <1>1, <1>3, <1>5, <2>2
    <3>2. CASE w[j].type = "delta"
      <4>1. at[j + 1] = at[j] + 1 /\ w[j].value = <<whole[at[j] + 1]>>
        BY <1>1, <1>3, <3>1, <3>2
      <4>2. at[j] + 1 \in 1..Len(whole)
        BY <1>2, <3>1, <4>1
      <4>3. more[at[j] + 1] = whole[at[j] + 1]
        BY <1>2, <4>2
      <4> QED BY <3>1, <3>2, <4>1, <4>3
    <3>3. CASE w[j].type # "delta"
      BY <1>1, <1>3, <3>1, <3>3
    <3> QED BY <3>2, <3>3
  <2> QED BY <2>1, <2>2
<1>7. Len(v) + 1 = l + 2 /\ Len(more) = Len(whole) + 1
    BY <1>1, <1>2
<1>8. Continues(text, v, more)
    BY <1>1, <1>4, <1>5, <1>6, <1>7 DEF Continues
<1> QED BY <1>8 DEF v, more, f

LEMMA ContinuesOther ==
    ASSUME NEW text \in Seq(Nat), NEW w \in Seq(FrameSet),
           NEW whole \in Seq(Nat), NEW f \in FrameSet, f.type # "delta",
           Continues(text, w, whole)
    PROVE  Continues(text, Append(w, f), whole)
<1> DEFINE v == Append(w, f)
           l == Len(w)
<1>1. /\ l \in Nat /\ Len(v) = l + 1
      /\ DOMAIN w = 1..l /\ DOMAIN v = 1..(l + 1)
      /\ \A j \in 1..l : v[j] = w[j]
      /\ v[l + 1] = f
    BY FramesAppend
<1>2. Len(whole) \in Nat
    BY LenProperties
<1>3. PICK at \in [1..(l + 1) -> 0..Len(whole)] :
          /\ at[1] = Len(text) /\ at[l + 1] = Len(whole)
          /\ \A j \in DOMAIN w :
                 IF w[j].type = "delta"
                 THEN at[j + 1] = at[j] + 1 /\ w[j].value = <<whole[at[j] + 1]>>
                 ELSE at[j + 1] = at[j]
    BY DEF Continues
<1> DEFINE to == [j \in 1..(l + 2) |-> IF j <= l + 1 THEN at[j] ELSE Len(whole)]
<1> HIDE DEF v, l
<1>4. to \in [1..(l + 2) -> 0..Len(whole)]
  <2>1. \A j \in 1..(l + 2) : j <= l + 1 => at[j] \in 0..Len(whole)
    BY <1>1, <1>2, <1>3
  <2> QED BY <1>1, <1>2, <2>1
<1>5. /\ to[1] = Len(text) /\ to[l + 2] = Len(whole)
      /\ \A j \in 1..(l + 1) : to[j] = at[j]
    BY <1>1, <1>3
<1> HIDE DEF to
<1>6. ASSUME NEW j \in 1..(l + 1)
      PROVE  IF v[j].type = "delta"
             THEN to[j + 1] = to[j] + 1 /\ v[j].value = <<whole[to[j] + 1]>>
             ELSE to[j + 1] = to[j]
  <2>1. CASE j = l + 1
    <3>1. to[j] = Len(whole) /\ to[j + 1] = Len(whole)
      BY <1>1, <1>3, <1>5, <2>1
    <3> QED BY <1>1, <2>1, <3>1
  <2>2. CASE j # l + 1
    <3>1. /\ j \in 1..l /\ j + 1 \in 1..(l + 1) /\ v[j] = w[j]
          /\ to[j] = at[j] /\ to[j + 1] = at[j + 1]
      BY <1>1, <1>3, <1>5, <2>2
    <3> QED BY <1>1, <1>3, <3>1
  <2> QED BY <2>1, <2>2
<1>7. Len(v) + 1 = l + 2
    BY <1>1
<1>8. Continues(text, v, whole)
    BY <1>1, <1>4, <1>5, <1>6, <1>7 DEF Continues
<1> QED BY <1>8 DEF v

(* Reading the first frame takes the page to where the second finds it.    *)
LEMMA ContinuesTail ==
    ASSUME NEW text \in Seq(Nat), NEW w \in Seq(FrameSet), w # <<>>,
           NEW whole \in Seq(Nat), NEW t \in Seq(Nat),
           w[1].type = "delta" => Len(t) = Len(text) + 1,
           w[1].type # "delta" => Len(t) = Len(text),
           Continues(text, w, whole)
    PROVE  /\ Continues(t, Tail(w), whole)
           /\ w[1].type = "delta" =>
                  /\ Len(text) + 1 <= Len(whole)
                  /\ w[1].value = <<whole[Len(text) + 1]>>
           /\ Tail(w) = <<>> /\ w[1].type # "delta" => Len(text) = Len(whole)
<1> DEFINE v == Tail(w)
           l == Len(v)
<1>1. /\ v \in Seq(FrameSet) /\ l \in Nat /\ Len(w) = l + 1
      /\ DOMAIN w = 1..(l + 1) /\ DOMAIN v = 1..l
      /\ \A j \in 1..l : v[j] = w[j + 1]
    BY FramesTail
<1>2. Len(whole) \in Nat /\ Len(text) \in Nat
    BY LenProperties
<1>3. PICK at \in [1..(l + 2) -> 0..Len(whole)] :
          /\ at[1] = Len(text) /\ at[l + 2] = Len(whole)
          /\ \A j \in 1..(l + 1) :
                 IF w[j].type = "delta"
                 THEN at[j + 1] = at[j] + 1 /\ w[j].value = <<whole[at[j] + 1]>>
                 ELSE at[j + 1] = at[j]
  <2>1. Len(w) + 1 = l + 2
    BY <1>1
  <2> HIDE DEF l, v
  <2> QED BY <1>1, <2>1 DEF Continues
<1> DEFINE to == [j \in 1..(l + 1) |-> at[j + 1]]
<1>a. Len(v) = l /\ (Tail(w) = <<>> => l = 0)
    BY EmptySeq
<1> HIDE DEF v, l
<1>4. to \in [1..(l + 1) -> 0..Len(whole)]
  <2>1. \A j \in 1..(l + 1) : j + 1 \in 1..(l + 2)
    BY <1>1
  <2> QED BY <1>3, <2>1
<1>5. 1 \in 1..(l + 1) /\ l + 1 \in 1..(l + 1)
    BY <1>1
<1>6. IF w[1].type = "delta"
      THEN at[2] = Len(text) + 1 /\ w[1].value = <<whole[Len(text) + 1]>>
      ELSE at[2] = Len(text)
  <2>1. \A j \in 1..(l + 1) :
            IF w[j].type = "delta"
            THEN at[j + 1] = at[j] + 1 /\ w[j].value = <<whole[at[j] + 1]>>
            ELSE at[j + 1] = at[j]
    BY <1>3
  <2>2. IF w[1].type = "delta"
        THEN at[1 + 1] = at[1] + 1 /\ w[1].value = <<whole[at[1] + 1]>>
        ELSE at[1 + 1] = at[1]
    BY <1>5, <2>1
  <2>3. 1 + 1 = 2 /\ at[1] = Len(text)
    BY <1>3
  <2> QED BY <2>2, <2>3
<1>7. /\ to[1] = Len(t) /\ to[l + 1] = Len(whole)
      /\ \A j \in 1..(l + 1) : to[j] = at[j + 1]
  <2>1. to[1] = at[2] /\ to[l + 1] = at[l + 2]
    BY <1>1, <1>5
  <2> QED BY <1>3, <1>6, <2>1
<1> HIDE DEF to
<1>8. ASSUME NEW j \in 1..l
      PROVE  IF v[j].type = "delta"
             THEN to[j + 1] = to[j] + 1 /\ v[j].value = <<whole[to[j] + 1]>>
             ELSE to[j + 1] = to[j]
  <2>0. j \in Nat /\ l \in Nat /\ 1 <= j /\ j <= l
    BY <1>1
  <2>1. j + 1 \in 1..(l + 1) /\ j \in 1..(l + 1) /\ v[j] = w[j + 1]
    BY <1>1, <2>0
  <2>2. to[j] = at[j + 1] /\ to[j + 1] = at[j + 2]
    BY <1>1, <1>7, <2>1
  <2>3. IF w[j + 1].type = "delta"
        THEN /\ at[j + 2] = at[j + 1] + 1
             /\ w[j + 1].value = <<whole[at[j + 1] + 1]>>
        ELSE at[j + 2] = at[j + 1]
    <3>1. (j + 1) + 1 = j + 2
      BY <1>1
    <3> QED BY <1>3, <2>1, <3>1
  <2> QED BY <2>1, <2>2, <2>3
<1>9. Continues(t, v, whole)
    BY <1>1, <1>a, <1>4, <1>7, <1>8 DEF Continues
<1>10. w[1].type = "delta" => Len(text) + 1 <= Len(whole)
  <2>1. 2 \in 1..(l + 2)
    BY <1>1
  <2>2. at[2] \in 0..Len(whole)
    BY <1>3, <2>1
  <2> QED BY <1>2, <1>6, <2>2
<1>11. Tail(w) = <<>> /\ w[1].type # "delta" => Len(text) = Len(whole)
    BY <1>a, <1>3, <1>6
<1> QED BY <1>6, <1>9, <1>10, <1>11 DEF v

LEMMA SentAppend ==
    ASSUME NEW w \in Seq(FrameSet), NEW f \in FrameSet
    PROVE  LET v == Append(w, f)
           IN  /\ \A j \in 1..(Len(w) + 1) : SentBefore(v, j) = SentBefore(w, j)
               /\ SentBefore(v, Len(v) + 1) = SentBefore(w, Len(w) + 1) \union
                      (IF f.type = "citations" THEN f.value ELSE {})
<1> DEFINE v == Append(w, f)
           l == Len(w)
<1>1. /\ l \in Nat /\ Len(v) = l + 1
      /\ \A j \in 1..l : v[j] = w[j]
      /\ v[l + 1] = f
    BY FramesAppend
<1> HIDE DEF v, l
<1>2. \A j \in 1..l : Sent(v, j) = Sent(w, j)
    BY <1>1 DEF Sent
<1>3. Sent(v, l + 1) = IF f.type = "citations" THEN f.value ELSE {}
    BY <1>1 DEF Sent
<1>4. ASSUME NEW j \in 1..(l + 1)
      PROVE  SentBefore(v, j) = SentBefore(w, j)
  <2>1. \A i \in 1..(j - 1) : i \in 1..l
    BY <1>1
  <2>2. \A i \in 1..(j - 1) : Sent(v, i) = Sent(w, i)
    BY <1>2, <2>1
  <2> QED BY <2>2 DEF SentBefore
<1>5. SentBefore(v, Len(v) + 1) = SentBefore(v, l + 1) \union Sent(v, l + 1)
  <2>1. /\ (Len(v) + 1) - 1 = l + 1 /\ (l + 1) - 1 = l
        /\ \A i : i \in 1..(l + 1) <=> i \in 1..l \/ i = l + 1
    BY <1>1
  <2> QED BY <2>1 DEF SentBefore
<1>6. SentBefore(v, l + 1) = SentBefore(w, l + 1)
    BY <1>1, <1>4
<1> QED BY <1>3, <1>4, <1>5, <1>6 DEF v, l

LEMMA SentTail ==
    ASSUME NEW w \in Seq(FrameSet), w # <<>>
    PROVE  LET v == Tail(w)
           IN  \A j \in 1..(Len(v) + 1) :
                   SentBefore(w, j + 1) = Sent(w, 1) \union SentBefore(v, j)
<1> DEFINE v == Tail(w)
           l == Len(v)
<1>1. /\ l \in Nat /\ \A j \in 1..l : v[j] = w[j + 1]
    BY FramesTail
<1> HIDE DEF v, l
<1>2. \A j \in 1..l : Sent(v, j) = Sent(w, j + 1)
    BY <1>1 DEF Sent
<1>3. ASSUME NEW j \in 1..(l + 1)
      PROVE  SentBefore(w, j + 1) = Sent(w, 1) \union SentBefore(v, j)
  <2>1. /\ (j + 1) - 1 = j /\ 1 \in 1..j
        /\ \A i \in 1..(j - 1) : i \in 1..l /\ i + 1 \in 1..j
        /\ \A i \in 1..j : i = 1 \/ (i - 1 \in 1..(j - 1) /\ (i - 1) + 1 = i)
    BY <1>1
  <2>2. SentBefore(w, j + 1) = UNION {Sent(w, i) : i \in 1..j}
    BY <2>1 DEF SentBefore
  <2>3. \A i \in 1..(j - 1) : Sent(v, i) = Sent(w, i + 1)
    BY <1>2, <2>1
  <2>4. ASSUME NEW x \in SentBefore(v, j) PROVE x \in SentBefore(w, j + 1)
    <3>1. PICK i \in 1..(j - 1) : x \in Sent(v, i)
      BY DEF SentBefore
    <3>2. x \in Sent(w, i + 1) /\ i + 1 \in 1..j
      BY <2>1, <2>3, <3>1
    <3> QED BY <2>2, <3>2
  <2>5. ASSUME NEW x \in SentBefore(w, j + 1)
        PROVE  x \in Sent(w, 1) \union SentBefore(v, j)
    <3>1. PICK i \in 1..j : x \in Sent(w, i)
      BY <2>2
    <3>2. CASE i = 1
      BY <3>1, <3>2
    <3>3. CASE i # 1
      <4>1. i - 1 \in 1..(j - 1) /\ (i - 1) + 1 = i
        BY <2>1, <3>3
      <4>2. x \in Sent(v, i - 1)
        BY <2>3, <3>1, <4>1
      <4> QED BY <4>1, <4>2 DEF SentBefore
    <3> QED BY <3>2, <3>3
  <2>6. Sent(w, 1) \subseteq SentBefore(w, j + 1)
    BY <2>1, <2>2
  <2> QED BY <2>4, <2>5, <2>6
<1> QED BY <1>3 DEF v, l

LEMMA ResolvedGrows ==
    ASSUME NEW n, NEW a, NEW b, NEW held, NEW more,
           Resolved(n, a, held), held \subseteq more,
           \A k \in DOMAIN a.session :
               k \in DOMAIN b.session /\ b.session[k] = a.session[k]
    PROVE  Resolved(n, b, more)
    BY DEF Resolved

LEMMA InStepDelta ==
    ASSUME NEW turn \in Turn, NEW a \in Answer, NEW b, NEW n \in Nat,
           NEW w \in Seq(FrameSet), InStep(turn, a, w),
           b.text = Append(a.text, n), b.citations = a.citations,
           b.session = a.session, Resolved(n, a, a.citations)
    PROVE  InStep(turn, b, Append(w, Frame("delta", <<n>>)))
<1> DEFINE f == Frame("delta", <<n>>)
           v == Append(w, f)
           l == Len(w)
<1>0. f \in FrameSet /\ f.type = "delta" /\ f.value = <<n>>
    BY DeltaFrameType
<1>1. turn.text \in Seq(Nat) /\ a.text \in Seq(Nat)
    BY DEF Turn, Answer
<1>2. Continues(turn.text, v, b.text)
    BY <1>1, ContinuesDelta DEF InStep
<1> HIDE DEF f
<1>3. /\ l \in Nat /\ Len(v) = l + 1
      /\ DOMAIN w = 1..l /\ DOMAIN v = 1..(l + 1)
      /\ \A j \in 1..l : v[j] = w[j]
      /\ v[l + 1] = f
    BY <1>0, FramesAppend
<1>4. /\ \A j \in 1..(l + 1) : SentBefore(v, j) = SentBefore(w, j)
      /\ SentBefore(v, Len(v) + 1) = SentBefore(w, l + 1)
    BY <1>0, SentAppend
<1>5. turn.citations \union SentBefore(v, Len(v) + 1) = b.citations
    BY <1>4 DEF InStep
<1>6. ASSUME NEW j \in DOMAIN v, v[j].type = "delta"
      PROVE  Resolved(v[j].value[1], b, turn.citations \union SentBefore(v, j))
  <2>1. CASE j = l + 1
    <3>1. v[j].value[1] = n
      BY <1>0, <1>3, <2>1
    <3>2. turn.citations \union SentBefore(v, j) = a.citations
      BY <1>3, <1>4, <2>1 DEF InStep
    <3>3. Resolved(n, b, a.citations)
      BY ResolvedGrows
    <3> QED BY <3>1, <3>2, <3>3
  <2>2. CASE j # l + 1
    <3>1. /\ j \in 1..l /\ j \in DOMAIN w /\ v[j] = w[j]
          /\ SentBefore(v, j) = SentBefore(w, j)
      BY <1>3, <1>4, <2>2
    <3>2. Resolved(w[j].value[1], a, turn.citations \union SentBefore(w, j))
      BY <1>6, <3>1 DEF InStep
    <3>3. Resolved(w[j].value[1], b, turn.citations \union SentBefore(w, j))
      BY <3>2, ResolvedGrows
    <3> QED BY <3>1, <3>3
  <2> QED BY <2>1, <2>2
<1> HIDE DEF v
<1>7. InStep(turn, b, v)
    BY <1>2, <1>5, <1>6 DEF InStep
<1> QED BY <1>7 DEF v, f

LEMMA InStepOther ==
    ASSUME NEW turn \in Turn, NEW a \in Answer, NEW b, NEW f \in FrameSet,
           NEW w \in Seq(FrameSet), InStep(turn, a, w), f.type # "delta",
           b.text = a.text,
           b.citations = a.citations \union
               (IF f.type = "citations" THEN f.value ELSE {}),
           \A k \in DOMAIN a.session :
               k \in DOMAIN b.session /\ b.session[k] = a.session[k]
    PROVE  InStep(turn, b, Append(w, f))
<1> DEFINE v == Append(w, f)
           l == Len(w)
<1>1. turn.text \in Seq(Nat) /\ a.text \in Seq(Nat)
    BY DEF Turn, Answer
<1>2. Continues(turn.text, v, b.text)
    BY <1>1, ContinuesOther DEF InStep
<1>3. /\ l \in Nat /\ Len(v) = l + 1
      /\ DOMAIN w = 1..l /\ DOMAIN v = 1..(l + 1)
      /\ \A j \in 1..l : v[j] = w[j]
      /\ v[l + 1] = f
    BY FramesAppend
<1>4. /\ \A j \in 1..(l + 1) : SentBefore(v, j) = SentBefore(w, j)
      /\ SentBefore(v, Len(v) + 1) = SentBefore(w, l + 1) \union
             (IF f.type = "citations" THEN f.value ELSE {})
    BY SentAppend
<1>5. turn.citations \union SentBefore(v, Len(v) + 1) = b.citations
    BY <1>4 DEF InStep
<1>6. ASSUME NEW j \in DOMAIN v, v[j].type = "delta"
      PROVE  Resolved(v[j].value[1], b, turn.citations \union SentBefore(v, j))
  <2>1. /\ j \in 1..l /\ j \in DOMAIN w /\ v[j] = w[j]
        /\ SentBefore(v, j) = SentBefore(w, j)
    BY <1>3, <1>4, <1>6
  <2>2. Resolved(w[j].value[1], a, turn.citations \union SentBefore(w, j))
    BY <1>6, <2>1 DEF InStep
  <2>3. Resolved(w[j].value[1], b, turn.citations \union SentBefore(w, j))
    BY <2>2, ResolvedGrows
  <2> QED BY <2>1, <2>3
<1> HIDE DEF v
<1>7. InStep(turn, b, v)
    BY <1>2, <1>5, <1>6 DEF InStep
<1> QED BY <1>7 DEF v

(* The page applies the first frame and is in step with the others.        *)
LEMMA InStepRead ==
    ASSUME NEW turn \in Turn, NEW a \in Answer, AnswerHolds(a),
           NEW w \in Seq(FrameSet), w # <<>>, InStep(turn, a, w),
           Starts(turn.text, a.text),
           \A i \in DOMAIN turn.text : Resolved(turn.text[i], a, turn.citations)
    PROVE  LET t == ApplyFrame(turn, w[1])
           IN  /\ InStep(t, a, Tail(w))
               /\ Starts(t.text, a.text)
               /\ t.citations \subseteq a.citations
               /\ \A i \in DOMAIN t.text : Resolved(t.text[i], a, t.citations)
               /\ Tail(w) = <<>> /\ w[1].type # "delta" => t.text = a.text
<1> DEFINE f == w[1]
           t == ApplyFrame(turn, f)
           v == Tail(w)
<1>0. f \in FrameSet
    BY FramesTail
<1>1. /\ turn.text \in Seq(Nat) /\ a.text \in Seq(Nat)
      /\ a.session \in Session
      /\ turn.citations \subseteq Citation
    BY DEF Turn, Answer
<1>2. /\ t \in Turn
      /\ t.text = IF f.type = "delta" THEN turn.text \o f.value ELSE turn.text
      /\ t.citations = IF f.type = "citations"
                       THEN AddCitations(turn.citations, f.value)
                       ELSE turn.citations
    BY <1>0, ApplyFrameType
<1>3. t.text \in Seq(Nat)
    BY <1>2 DEF Turn
<1>4. /\ v \in Seq(FrameSet) /\ Len(v) \in Nat /\ Len(w) = Len(v) + 1
      /\ DOMAIN w = 1..(Len(v) + 1) /\ DOMAIN v = 1..Len(v)
      /\ \A j \in 1..Len(v) : v[j] = w[j + 1]
    BY FramesTail
<1>5. \A j \in 1..(Len(v) + 1) :
          SentBefore(w, j + 1) = Sent(w, 1) \union SentBefore(v, j)
    BY SentTail
<1> HIDE DEF f, t, v
<1>6. t.citations = turn.citations \union Sent(w, 1)
  <2>1. Sent(w, 1) = IF f.type = "citations" THEN f.value ELSE {}
    BY DEF Sent, f
  <2>2. CASE f.type = "citations"
    <3>1. turn.citations \union SentBefore(w, Len(w) + 1) = a.citations
      BY DEF InStep
    <3>2. Sent(w, 1) \subseteq SentBefore(w, Len(w) + 1)
      BY <1>4, <1>5
    <3>3. a.citations = Numbered(a.session, DOMAIN a.session)
          /\ SessionIsSound(a.session)
      BY DEF AnswerHolds
    <3>4. /\ turn.citations \subseteq Numbered(a.session, DOMAIN a.session)
          /\ f.value \subseteq Numbered(a.session, DOMAIN a.session)
      BY <2>1, <2>2, <3>1, <3>2, <3>3
    <3>5. AddCitations(turn.citations, f.value) = turn.citations \union f.value
      BY <1>1, <3>3, <3>4, AddIsUnion
    <3> QED BY <1>2, <2>1, <2>2, <3>5
  <2>3. CASE f.type # "citations"
    BY <1>2, <2>1, <2>3
  <2> QED BY <2>2, <2>3
<1>7. Len(t.text) = IF f.type = "delta" THEN Len(turn.text) + 1
                    ELSE Len(turn.text)
  <2>1. CASE f.type = "delta"
    <3>1. PICK n \in Nat : f.value = <<n>>
      BY <1>0, <2>1, FrameKinds
    <3> QED BY <1>1, <1>2, <2>1, <3>1, TextAppend
  <2>2. CASE f.type # "delta"
    BY <1>2, <2>2
  <2> QED BY <2>1, <2>2
<1>8. Continues(turn.text, w, a.text)
    BY DEF InStep
<1>9. /\ Continues(t.text, v, a.text)
      /\ f.type = "delta" =>
             /\ Len(turn.text) + 1 <= Len(a.text)
             /\ f.value = <<a.text[Len(turn.text) + 1]>>
      /\ v = <<>> /\ f.type # "delta" => Len(turn.text) = Len(a.text)
  <2>1. /\ f = w[1] /\ v = Tail(w)
        /\ w[1].type = "delta" => Len(t.text) = Len(turn.text) + 1
        /\ w[1].type # "delta" => Len(t.text) = Len(turn.text)
    BY <1>7 DEF f, v
  <2>2. /\ Continues(t.text, Tail(w), a.text)
        /\ w[1].type = "delta" =>
               /\ Len(turn.text) + 1 <= Len(a.text)
               /\ w[1].value = <<a.text[Len(turn.text) + 1]>>
        /\ Tail(w) = <<>> /\ w[1].type # "delta" => Len(turn.text) = Len(a.text)
    BY <1>1, <1>3, <1>8, <2>1, ContinuesTail
  <2> QED BY <2>1, <2>2
<1>10. t.citations \union SentBefore(v, Len(v) + 1) = a.citations
  <2>1. turn.citations \union SentBefore(w, Len(w) + 1) = a.citations
    BY DEF InStep
  <2>2. SentBefore(w, Len(w) + 1) = Sent(w, 1) \union SentBefore(v, Len(v) + 1)
    <3>1. Len(v) + 1 \in 1..(Len(v) + 1)
      BY <1>4
    <3> QED BY <1>4, <1>5, <3>1
  <2> QED BY <1>6, <2>1, <2>2
<1>11. ASSUME NEW j \in DOMAIN v, v[j].type = "delta"
       PROVE  Resolved(v[j].value[1], a, t.citations \union SentBefore(v, j))
  <2>1. /\ j + 1 \in DOMAIN w /\ v[j] = w[j + 1] /\ j \in 1..(Len(v) + 1)
    BY <1>4
  <2>2. Resolved(w[j + 1].value[1], a,
                 turn.citations \union SentBefore(w, j + 1))
    BY <1>11, <2>1 DEF InStep
  <2>3. turn.citations \union SentBefore(w, j + 1)
           = t.citations \union SentBefore(v, j)
    BY <1>5, <1>6, <2>1
  <2> QED BY <2>1, <2>2, <2>3
<1>12. InStep(t, a, v)
    BY <1>9, <1>10, <1>11 DEF InStep
<1>13. /\ Starts(t.text, a.text)
       /\ \A i \in DOMAIN t.text : Resolved(t.text[i], a, t.citations)
  <2>0. /\ DOMAIN turn.text = 1..Len(turn.text) /\ Len(turn.text) \in Nat
        /\ DOMAIN t.text = 1..Len(t.text) /\ Len(a.text) \in Nat
    BY <1>1, <1>3, LenProperties
  <2>1. CASE f.type = "delta"
    <3>1. PICK n \in Nat : f.value = <<n>>
      BY <1>0, <2>1, FrameKinds
    <3>2. /\ \A i \in 1..Len(turn.text) : t.text[i] = turn.text[i]
          /\ t.text[Len(turn.text) + 1] = n
          /\ Len(t.text) = Len(turn.text) + 1
      BY <1>1, <1>2, <2>1, <3>1, TextAppend
    <3>3. n = a.text[Len(turn.text) + 1] /\ Len(turn.text) + 1 <= Len(a.text)
      BY <1>9, <2>1, <3>1
    <3>4. Starts(t.text, a.text)
      BY <2>0, <3>2, <3>3 DEF Starts
    <3>5. Resolved(n, a, t.citations)
      <4>1. 1 \in DOMAIN w /\ w[1].type = "delta" /\ w[1].value[1] = n
        BY <1>4, <2>1, <3>1 DEF f
      <4>2. SentBefore(w, 1) = {}
        BY DEF SentBefore
      <4>3. Resolved(n, a, turn.citations \union SentBefore(w, 1))
        BY <4>1 DEF InStep
      <4> QED BY <1>6, <4>2, <4>3, ResolvedGrows
    <3>6. ASSUME NEW i \in DOMAIN t.text PROVE Resolved(t.text[i], a, t.citations)
      <4>1. CASE i = Len(turn.text) + 1
        BY <3>2, <3>5, <4>1
      <4>2. CASE i # Len(turn.text) + 1
        <5>1. i \in DOMAIN turn.text /\ t.text[i] = turn.text[i]
          BY <2>0, <3>2, <4>2
        <5> QED BY <1>6, <5>1, ResolvedGrows
      <4> QED BY <4>1, <4>2
    <3> QED BY <3>4, <3>6
  <2>2. CASE f.type # "delta"
    <3>1. t.text = turn.text
      BY <1>2, <2>2
    <3>2. \A i \in DOMAIN t.text : Resolved(t.text[i], a, t.citations)
      BY <1>6, <3>1, ResolvedGrows
    <3> QED BY <3>1, <3>2
  <2> QED BY <2>1, <2>2
<1>14. v = <<>> /\ f.type # "delta" => t.text = a.text
  <2> SUFFICES ASSUME v = <<>>, f.type # "delta" PROVE t.text = a.text
    OBVIOUS
  <2>1. Len(t.text) = Len(a.text)
    BY <1>7, <1>9
  <2>2. \A i \in 1..Len(t.text) : t.text[i] = a.text[i]
    BY <1>3, <1>13, LenProperties DEF Starts
  <2> QED BY <1>1, <1>3, <2>1, <2>2, SeqEqual
<1> QED BY <1>10, <1>12, <1>13, <1>14 DEF t, v, f

-----------------------------------------------------------------------------
(* A question and its answer.                                              *)
LEMMA FollowInit == Init => AnswersFollow
<1> SUFFICES ASSUME Init, NEW r \in Runs PROVE AnswerFollows(r)
    BY DEF AnswersFollow
<1>1. /\ run[r] = IdleRun /\ answer[r] = NoAnswer /\ wire[r] = <<>>
    BY DEF Init
<1>2. /\ IdleRun.phase = "idle" /\ NoAnswer.phase = "none"
      /\ NoAnswer.closed = FALSE
    BY DEF IdleRun, NoAnswer
<1> QED BY <1>1, <1>2 DEF AnswerFollows

LEMMA FollowOne ==
    ASSUME AnswersFollow, NEW r \in Runs,
           \A q \in Runs \ {r} : /\ run'[q] = run[q] /\ answer'[q] = answer[q]
                                 /\ wire'[q] = wire[q],
           AnswerFollows(r)'
    PROVE  AnswersFollow'
<1>1. \A q \in Runs \ {r} : AnswerFollows(q)'
    BY DEF AnswersFollow, AnswerFollows
<1> QED BY <1>1 DEF AnswersFollow, AnswerFollows

(* The answer writes a frame, or nothing.                                  *)
LEMMA FollowWrites ==
    ASSUME AnswersFollow, NEW r \in Runs, run' = run,
           NEW phase, NEW session, NEW text, NEW citations, NEW finished,
           AnswerIs(r, phase, session, text, citations, finished),
           answer[r].phase # "none", phase # "none",
           wire' = wire \/ \E f : Sends(r, f)
    PROVE  AnswersFollow'
<1>1. AnswerFollows(r)
    BY DEF AnswersFollow
<1>2. /\ answer'[r].phase # "none" /\ answer'[r].chat = answer[r].chat
      /\ answer'[r].closed = answer[r].closed
      /\ answer[r].closed => wire'[r] = wire[r]
      /\ \A q \in Runs \ {r} : answer'[q] = answer[q] /\ wire'[q] = wire[q]
    BY DEF AnswerIs, OnlyAnswer, Sends, OnlyWire
<1>3. AnswerFollows(r)'
    BY <1>1, <1>2 DEF AnswerFollows
<1> QED BY <1>2, <1>3, FollowOne

LEMMA FollowMoves ==
    ASSUME AnswersFollow, NEW r \in Runs, answer' = answer, wire' = wire,
           OnlyRun(r),
           run'[r].phase \in {"idle", "create", "created", "post"} =>
               answer[r].phase = "none",
           run'[r].phase = "stream" => /\ run[r].phase = "stream"
                                      /\ run'[r].chat = run[r].chat,
           run'[r].phase \in {"created", "post", "stream"} =>
               run'[r].chat \in Chats
    PROVE  AnswersFollow'
<1>1. AnswerFollows(r)
    BY DEF AnswersFollow
<1>2. AnswerFollows(r)'
    BY <1>1 DEF AnswerFollows
<1> QED BY <1>2, FollowOne DEF OnlyRun

LEMMA FollowStep ==
    ASSUME BaseInv, AnswersFollow, Next
    PROVE  AnswersFollow'
<1>0. AskTypeInv /\ AnswersHold /\ \A r \in Runs : AnswerHolds(answer[r])
    BY DEF BaseInv, AnswersHold
<1>a. \A r \in Runs : AnswerFollows(r)
    BY DEF AnswersFollow
<1>b. \A r \in Runs : run[r].chat \in Chats \union {NoChat}
    BY <1>0 DEF AskTypeInv, Run
<1>1. ASSUME UNCHANGED <<run, answer, wire>> PROVE AnswersFollow'
    BY <1>1 DEF AnswersFollow, AnswerFollows
<1>2. ASSUME NEW r \in Runs, AskQuestion(r) PROVE AnswersFollow'
  <2>1. /\ run[r].phase = "idle" /\ OnlyRun(r)
        /\ run'[r].phase \in {"create", "post"}
        /\ run'[r].phase = "post" => page.openChatId # NoChat
        /\ run'[r].chat = page.openChatId
        /\ answer' = answer /\ wire' = wire
    BY <1>0, <1>2, AskQuestionEffect
  <2>2. page.openChatId \in Chats \union {NoChat}
    BY <1>0 DEF AskTypeInv, Page
  <2>3. answer[r].phase = "none"
    BY <1>a, <2>1 DEF AnswerFollows
  <2> QED BY <2>1, <2>2, <2>3, FollowMoves
<1>3. ASSUME NEW r \in Runs, NEW c \in Chats, CreateChat(r, c)
      PROVE  AnswersFollow'
  <2>1. answer[r].phase = "none"
    BY <1>0, <1>3, <1>a, CreateChatEffect DEF AnswerFollows
  <2> QED BY <1>0, <1>3, <2>1, CreateChatEffect, FollowMoves
<1>4. ASSUME NEW r \in Runs, OpenCreatedChat(r) PROVE AnswersFollow'
  <2>1. run[r].phase = "created" /\ Moves(r, "post") /\ UNCHANGED <<answer, wire>>
    BY <1>0, <1>4, OpenCreatedChatEffect
  <2>2. answer[r].phase = "none" /\ run[r].chat \in Chats
    BY <1>a, <2>1 DEF AnswerFollows
  <2> QED BY <2>1, <2>2, FollowMoves DEF Moves
<1>5. ASSUME NEW r \in Runs, PostTurn(r) PROVE AnswersFollow'
  <2>1. /\ run[r].phase = "post" /\ Moves(r, "stream") /\ OnlyAnswer(r)
        /\ answer'[r] = [NoAnswer EXCEPT !.phase = "sent", !.chat = run[r].chat]
        /\ UNCHANGED wire
    BY <1>0, <1>5, PostTurnEffect
  <2>2. run[r].chat \in Chats
    BY <1>a, <2>1 DEF AnswerFollows
  <2>3. /\ answer'[r].phase = "sent" /\ answer'[r].chat = run[r].chat
        /\ answer'[r].closed = FALSE
    BY <2>1 DEF NoAnswer
  <2>4. AnswerFollows(r)'
    BY <2>1, <2>2, <2>3 DEF AnswerFollows, Moves
  <2> QED BY <2>1, <2>4, FollowOne DEF Moves, OnlyRun, OnlyAnswer
<1>6. ASSUME NEW r \in Runs, NEW state, Ends(r, state), UNCHANGED <<answer, wire>>
      PROVE  AnswersFollow'
  <2>1. OnlyRun(r) /\ run'[r].phase = "ended"
    BY <1>6 DEF Ends, EndedRun, IdleRun
  <2> QED BY <1>6, <2>1, FollowMoves
<1>7. ASSUME NEW r \in Runs, FailRequest(r) PROVE AnswersFollow'
    BY <1>0, <1>6, <1>7, FailRequestEffect
<1>8. ASSUME NEW r \in Runs, EndStream(r) PROVE AnswersFollow'
    BY <1>0, <1>6, <1>8, EndStreamEffect
<1>9. ASSUME NEW r \in Runs, ReadFrame(r) PROVE AnswersFollow'
  <2>1. /\ run[r].phase = "stream" /\ wire[r] # <<>>
        /\ OnlyWire(r) /\ UNCHANGED answer /\ OnlyRun(r)
    BY <1>0, <1>9, ReadFrameEffect DEF Ends
  <2>2. /\ run'[r].phase \in {"ended", "stream"}
        /\ run'[r].phase = "stream" => run'[r].chat = run[r].chat
    BY <1>0, <1>9, ReadFrameEffect DEF Ends, EndedRun, IdleRun
  <2>3. ~answer[r].closed
    BY <1>a, <2>1 DEF AnswerFollows
  <2>4. AnswerFollows(r)'
    BY <1>a, <2>1, <2>2, <2>3 DEF AnswerFollows
  <2> QED BY <2>1, <2>4, FollowOne DEF OnlyRun, OnlyWire
<1>10. ASSUME NEW r \in Runs, DropStream(r) PROVE AnswersFollow'
  <2>1. /\ answer[r].phase # "none" /\ OnlyAnswer(r)
        /\ answer'[r] = [answer[r] EXCEPT !.closed = TRUE]
        /\ OnlyWire(r) /\ wire'[r] = <<>> /\ UNCHANGED run
    BY <1>0, <1>10, DropStreamEffect
  <2>2. answer'[r].phase = answer[r].phase /\ answer'[r].chat = answer[r].chat
    BY <1>0, <2>1 DEF AskTypeInv, Answer
  <2>3. AnswerFollows(r)'
    BY <1>a, <2>1, <2>2 DEF AnswerFollows
  <2> QED BY <2>1, <2>3, FollowOne DEF OnlyAnswer, OnlyWire
<1>11. ASSUME NEW r \in Runs, StartTurn(r) PROVE AnswersFollow'
  <2>1. answer[r].phase # "none" /\ run' = run
    BY <1>0, <1>11, StartTurnEffect
  <2> QED BY <1>0, <1>11, <2>1, StartTurnEffect, FollowWrites
<1>12. ASSUME NEW r \in Runs, EndAnswer(r) PROVE AnswersFollow'
    BY <1>0, <1>12, EndAnswerEffect, FollowWrites
<1>13. ASSUME NEW r \in Runs, NotSettled(r) PROVE AnswersFollow'
    BY <1>0, <1>13, NotSettledEffect, FollowWrites
<1>14. ASSUME NEW r \in Runs, NEW number \in Nat, StreamDelta(r, number)
       PROVE  AnswersFollow'
    BY <1>0, <1>14, StreamDeltaEffect, FollowWrites
<1>15. ASSUME NEW r \in Runs, NEW more \in BOOLEAN, NEW results \in Results,
              SearchDocumentChunks(r, results, more)
       PROVE  AnswersFollow'
    BY <1>0, <1>15, SearchEffect, FollowWrites
<1>16. ASSUME NEW r \in Runs, NEW more \in BOOLEAN, RunTool(r, more)
       PROVE  AnswersFollow'
    BY <1>0, <1>16, RunToolEffect, FollowWrites
<1>17. ASSUME NEW r \in Runs, NEW outcome \in {"done", "error"},
              CompleteTurn(r, outcome)
       PROVE  AnswersFollow'
    BY <1>0, <1>17, CompleteTurnEffect, FollowWrites
<1>18. ASSUME NEW c \in Chats \union {NoChat}, OpenChat(c) PROVE AnswersFollow'
    BY <1>0, <1>1, <1>18, OpenChatEffect
<1>19. ASSUME NEW read \in reads, ReceiveChat(read) PROVE AnswersFollow'
    BY <1>0, <1>1, <1>19, ReceiveChatEffect
<1>20. ASSUME NEW c \in Chats, DeleteChat(c) PROVE AnswersFollow'
    BY <1>0, <1>1, <1>20, DeleteChatEffect
<1>21. ASSUME NEW d \in leaving, LeaveDeletedChat(d) PROVE AnswersFollow'
    BY <1>0, <1>1, <1>21, LeaveDeletedChatEffect
<1> QED BY Steps, <1>2, <1>3, <1>4, <1>5, <1>7, <1>8, <1>9, <1>10, <1>11, <1>12,
           <1>13, <1>14, <1>15, <1>16, <1>17, <1>18, <1>19, <1>20, <1>21

-----------------------------------------------------------------------------
(* Over a step, an answer only says more, and nothing once it is over.     *)
Grows(r) ==
    /\ answer[r].phase \notin {"none", "sent"} =>
           answer'[r].phase \notin {"none", "sent"}
    /\ answer[r].phase # "none" => /\ answer'[r].phase # "none"
                                   /\ answer'[r].chat = answer[r].chat
    /\ answer[r].phase = "over" => /\ answer'[r].phase = "over"
                                   /\ answer'[r].text = answer[r].text
                                   /\ answer'[r].citations = answer[r].citations
    /\ answer[r].finished => answer'[r].finished
    /\ Starts(answer[r].text, answer'[r].text)
    /\ answer[r].citations \subseteq answer'[r].citations
    /\ \A k \in DOMAIN answer[r].session :
           /\ k \in DOMAIN answer'[r].session
           /\ answer'[r].session[k] = answer[r].session[k]

LEMMA StartsSelf ==
    ASSUME NEW text \in Seq(Nat)
    PROVE  Starts(text, text)
    BY LenProperties DEF Starts

LEMMA StartsAppend ==
    ASSUME NEW text \in Seq(Nat), NEW n \in Nat
    PROVE  Starts(text, Append(text, n))
    BY TextAppend DEF Starts

LEMMA StartsMore ==
    ASSUME NEW s \in Seq(Nat), NEW t \in Seq(Nat), NEW u \in Seq(Nat),
           Starts(s, t), Starts(t, u)
    PROVE  Starts(s, u)
<1>1. /\ DOMAIN s = 1..Len(s) /\ DOMAIN t = 1..Len(t)
      /\ Len(s) \in Nat /\ Len(t) \in Nat /\ Len(u) \in Nat
    BY LenProperties
<1> QED BY <1>1 DEF Starts

LEMMA GrowsUnless ==
    ASSUME AskTypeInv, NEW r \in Runs,
           answer'[r].phase = answer[r].phase, answer'[r].chat = answer[r].chat,
           answer'[r].text = answer[r].text,
           answer'[r].citations = answer[r].citations,
           answer'[r].session = answer[r].session,
           answer'[r].finished = answer[r].finished
    PROVE  Grows(r)
<1>1. Starts(answer[r].text, answer[r].text)
    BY StartsSelf DEF AskTypeInv, Answer
<1> QED BY <1>1 DEF Grows

LEMMA GrowsOne ==
    ASSUME AskTypeInv, NEW r \in Runs, OnlyAnswer(r), Grows(r)
    PROVE  \A q \in Runs : Grows(q)
    BY GrowsUnless DEF OnlyAnswer

LEMMA GrowsSays ==
    ASSUME AskTypeInv, NEW r \in Runs,
           NEW phase, phase \notin {"none", "sent"}, NEW text, NEW finished,
           answer[r].finished => finished,
           answer[r].phase \notin {"none", "over"},
           AnswerIs(r, phase, answer[r].session, text, answer[r].citations,
                    finished),
           Starts(answer[r].text, text)
    PROVE  \A q \in Runs : Grows(q)
<1>1. Grows(r)
    BY DEF Grows, AnswerIs
<1> QED BY <1>1, GrowsOne DEF AnswerIs

LEMMA AllGrow ==
    ASSUME BaseInv, AnswersFollow, Next
    PROVE  \A q \in Runs : Grows(q)
<1>0. AskTypeInv /\ \A r \in Runs : AnswerHolds(answer[r])
    BY DEF BaseInv, AnswersHold
<1>a. \A r \in Runs : Starts(answer[r].text, answer[r].text)
    BY <1>0, StartsSelf DEF AskTypeInv, Answer
<1> DEFINE Goal == \A q \in Runs : Grows(q)
<1>1. ASSUME UNCHANGED answer PROVE Goal
    BY <1>0, <1>1, GrowsUnless
<1> HIDE DEF Goal
<1>2. ASSUME NEW r \in Runs, AskQuestion(r) PROVE Goal
    BY <1>0, <1>1, <1>2, AskQuestionEffect
<1>3. ASSUME NEW r \in Runs, NEW c \in Chats, CreateChat(r, c) PROVE Goal
    BY <1>0, <1>1, <1>3, CreateChatEffect
<1>4. ASSUME NEW r \in Runs, OpenCreatedChat(r) PROVE Goal
    BY <1>0, <1>1, <1>4, OpenCreatedChatEffect
<1>5. ASSUME NEW r \in Runs, PostTurn(r) PROVE Goal
  <2>1. /\ run[r].phase = "post" /\ OnlyAnswer(r)
        /\ answer'[r] = [NoAnswer EXCEPT !.phase = "sent", !.chat = run[r].chat]
    BY <1>0, <1>5, PostTurnEffect
  <2>2. answer[r] = NoAnswer
    BY <2>1 DEF AnswersFollow, AnswerFollows
  <2>3. /\ NoAnswer.phase = "none" /\ NoAnswer.finished = FALSE
        /\ answer'[r].text = NoAnswer.text
        /\ answer'[r].citations = NoAnswer.citations
        /\ answer'[r].session = NoAnswer.session
    BY <2>1 DEF NoAnswer
  <2>4. Starts(NoAnswer.text, NoAnswer.text)
    BY <1>a, <2>2
  <2>5. Grows(r)
    BY <2>2, <2>3, <2>4 DEF Grows
  <2> QED BY <1>0, <2>1, <2>5, GrowsOne DEF Goal
<1>6. ASSUME NEW r \in Runs, FailRequest(r) PROVE Goal
    BY <1>0, <1>1, <1>6, FailRequestEffect
<1>7. ASSUME NEW r \in Runs, ReadFrame(r) PROVE Goal
    BY <1>0, <1>1, <1>7, ReadFrameEffect
<1>8. ASSUME NEW r \in Runs, EndStream(r) PROVE Goal
    BY <1>0, <1>1, <1>8, EndStreamEffect
<1>9. ASSUME NEW r \in Runs, DropStream(r) PROVE Goal
  <2>1. OnlyAnswer(r) /\ answer'[r] = [answer[r] EXCEPT !.closed = TRUE]
    BY <1>0, <1>9, DropStreamEffect
  <2>2. /\ answer'[r].phase = answer[r].phase
        /\ answer'[r].chat = answer[r].chat
        /\ answer'[r].text = answer[r].text
        /\ answer'[r].citations = answer[r].citations
        /\ answer'[r].session = answer[r].session
        /\ answer'[r].finished = answer[r].finished
    BY <1>0, <2>1 DEF AskTypeInv, Answer
  <2>3. Grows(r)
    BY <1>0, <2>2, GrowsUnless
  <2> QED BY <1>0, <2>1, <2>3, GrowsOne DEF Goal
<1>10. ASSUME NEW r \in Runs, StartTurn(r) PROVE Goal
  <2>1. PICK phase \in {"model", "over"} :
            AnswerIs(r, phase, answer[r].session, answer[r].text,
                     answer[r].citations, answer[r].finished)
    BY <1>0, <1>10, StartTurnEffect
  <2>2. answer[r].phase = "sent"
    BY <1>0, <1>10, StartTurnEffect
  <2> QED BY <1>0, <1>a, <2>1, <2>2, GrowsSays DEF Goal
<1>11. ASSUME NEW r \in Runs, EndAnswer(r) PROVE Goal
    BY <1>0, <1>a, <1>11, EndAnswerEffect, GrowsSays DEF Goal
<1>12. ASSUME NEW r \in Runs, NotSettled(r) PROVE Goal
  <2>1. Starts(answer[r].text, Append(answer[r].text, 0))
    BY <1>0, StartsAppend DEF AskTypeInv, Answer
  <2> QED BY <1>0, <1>12, <2>1, NotSettledEffect, GrowsSays DEF Goal
<1>13. ASSUME NEW r \in Runs, NEW number \in Nat, StreamDelta(r, number)
       PROVE  Goal
  <2>1. Starts(answer[r].text, Append(answer[r].text, number))
    BY <1>0, StartsAppend DEF AskTypeInv, Answer
  <2> QED BY <1>0, <1>13, <2>1, StreamDeltaEffect, GrowsSays DEF Goal
<1>14. ASSUME NEW r \in Runs, NEW more \in BOOLEAN, NEW results \in Results,
              SearchDocumentChunks(r, results, more)
       PROVE  Goal
  <2>1. PICK session \in Session, phase \in {"model", "tools"},
             cited \in SUBSET Citation :
            /\ DOMAIN answer[r].session \subseteq DOMAIN session
            /\ \A k \in DOMAIN answer[r].session :
                   session[k] = answer[r].session[k]
            /\ answer[r].phase \in {"model", "tools"}
            /\ AnswerIs(r, phase, session, answer[r].text,
                        answer[r].citations \union cited, answer[r].finished)
    BY <1>0, <1>14, SearchEffect
  <2>2. Grows(r)
    BY <1>a, <2>1 DEF Grows, AnswerIs
  <2> QED BY <1>0, <2>1, <2>2, GrowsOne DEF AnswerIs, Goal
<1>15. ASSUME NEW r \in Runs, NEW more \in BOOLEAN, RunTool(r, more) PROVE Goal
  <2>1. PICK phase \in {"model", "tools"} :
            AnswerIs(r, phase, answer[r].session, answer[r].text,
                     answer[r].citations, answer[r].finished)
    BY <1>0, <1>15, RunToolEffect
  <2>2. answer[r].phase \in {"model", "tools"}
    BY <1>0, <1>15, RunToolEffect
  <2> QED BY <1>0, <1>a, <2>1, <2>2, GrowsSays DEF Goal
<1>16. ASSUME NEW r \in Runs, NEW outcome \in {"done", "error"},
              CompleteTurn(r, outcome)
       PROVE  Goal
  <2>1. /\ answer[r].phase \in {"model", "tools", "finish"}
        /\ AnswerIs(r, "over", answer[r].session, answer[r].text,
                    answer[r].citations, answer[r].finished)
    BY <1>0, <1>16, CompleteTurnEffect
  <2> QED BY <1>0, <1>a, <2>1, GrowsSays DEF Goal
<1>17. ASSUME NEW c \in Chats \union {NoChat}, OpenChat(c) PROVE Goal
    BY <1>0, <1>1, <1>17, OpenChatEffect
<1>18. ASSUME NEW read \in reads, ReceiveChat(read) PROVE Goal
    BY <1>0, <1>1, <1>18, ReceiveChatEffect
<1>19. ASSUME NEW c \in Chats, DeleteChat(c) PROVE Goal
    BY <1>0, <1>1, <1>19, DeleteChatEffect
<1>20. ASSUME NEW d \in leaving, LeaveDeletedChat(d) PROVE Goal
    BY <1>0, <1>1, <1>20, LeaveDeletedChatEffect
<1>21. Goal
    BY Steps, <1>2, <1>3, <1>4, <1>5, <1>6, <1>7, <1>8, <1>9, <1>10, <1>11, <1>12,
       <1>13, <1>14, <1>15, <1>16, <1>17, <1>18, <1>19, <1>20
<1> QED BY <1>21 DEF Goal

-----------------------------------------------------------------------------
(* The turns in the database.                                              *)
LEMMA WhoWritesTurns ==
    ASSUME AskTypeInv, AnswersHold, Next
    PROVE  \/ UNCHANGED stored
           \/ \E r \in Runs, c \in Chats : CreateChat(r, c)
           \/ \E r \in Runs : StartTurn(r)
           \/ \E r \in Runs, outcome \in {"done", "error"} :
                  CompleteTurn(r, outcome)
           \/ \E c \in Chats : DeleteChat(c)
    BY Steps DEF AskQuestion, OpenCreatedChat, PostTurn, FailRequest, ReadFrame,
       EndStream, DropStream, EndAnswer, NotSettled, StreamDelta,
       SearchDocumentChunks, RunTool, OpenChat, ReceiveChat, LeaveDeletedChat

LEMMA StoredTurnKept ==
    ASSUME NEW c, NEW turn, Grows(turn.run), StoredTurnHolds(c, turn)
    PROVE  StoredTurnHolds(c, turn)'
    BY DEF Grows, StoredTurnHolds

LEMMA StoredHoldOn ==
    ASSUME \A c \in Chats : \A turn :
               (\E i \in DOMAIN stored'[c].turns : turn = stored'[c].turns[i])
               => StoredTurnHolds(c, turn)'
    PROVE  StoredHold'
    BY DEF StoredHold, StoredTurnHolds

LEMMA StoredStep ==
    ASSUME BaseInv, AnswersFollow, StoredHold, Next
    PROVE  StoredHold'
<1>0. /\ AskTypeInv /\ AnswersHold /\ \A r \in Runs : AnswerHolds(answer[r])
      /\ \A c \in Chats : stored[c].turns \in Seq(Turn)
    BY DEF BaseInv, AnswersHold, AskTypeInv, Chat
<1>a. \A r \in Runs : Grows(r)
    BY AllGrow
<1>1. ASSUME NEW c \in Chats, NEW turn,
             \E i \in DOMAIN stored[c].turns : turn = stored[c].turns[i]
      PROVE  StoredTurnHolds(c, turn)'
  <2>1. PICK i \in DOMAIN stored[c].turns : turn = stored[c].turns[i]
    BY <1>1
  <2>2. turn \in Turn
    BY <1>0, <2>1, LenProperties, ElementOfSeq
  <2>3. turn.run \in Runs
    BY <2>2 DEF Turn
  <2>4. StoredTurnHolds(c, turn)
    BY <2>1 DEF StoredHold
  <2> QED BY <1>a, <2>3, <2>4, StoredTurnKept
<1>2. CASE UNCHANGED stored
    BY <1>1, <1>2, StoredHoldOn
<1>3. ASSUME NEW r \in Runs, NEW c \in Chats, CreateChat(r, c)
      PROVE  StoredHold'
  <2>1. \A d \in Chats : stored'[d].turns = stored[d].turns
    BY <1>0, <1>3, CreateChatEffect DEF OnlyChat
  <2> QED BY <1>1, <2>1, StoredHoldOn
<1>4. ASSUME NEW r \in Runs, StartTurn(r) PROVE StoredHold'
  <2>1. CASE UNCHANGED stored
    BY <1>2, <2>1
  <2>2. ASSUME NEW c \in Chats, OnlyChat(c), c = answer[r].chat,
               stored'[c].turns = Append(stored[c].turns, NewTurn(r)),
               AnswerIs(r, "model", answer[r].session, answer[r].text,
                        answer[r].citations, answer[r].finished)
        PROVE  StoredHold'
    <3>1. /\ answer'[r].phase = "model" /\ answer'[r].chat = c
          /\ NewTurn(r).run = r /\ NewTurn(r).text = <<>>
          /\ NewTurn(r).citations = {} /\ NewTurn(r).state = "running"
      BY <2>2 DEF AnswerIs, NewTurn
    <3>2. ASSUME NEW turn, turn = NewTurn(r) PROVE StoredTurnHolds(c, turn)'
      BY <3>1, <3>2 DEF StoredTurnHolds
    <3>3. /\ Len(stored[c].turns) \in Nat
          /\ DOMAIN stored[c].turns = 1..Len(stored[c].turns)
          /\ DOMAIN stored'[c].turns = 1..(Len(stored[c].turns) + 1)
          /\ \A i \in 1..Len(stored[c].turns) :
                 stored'[c].turns[i] = stored[c].turns[i]
          /\ stored'[c].turns[Len(stored[c].turns) + 1] = NewTurn(r)
      BY <1>0, <2>2, NewTurnType, AppendProperties, LenProperties
    <3>4. ASSUME NEW turn,
                 \E i \in DOMAIN stored'[c].turns : turn = stored'[c].turns[i]
          PROVE  StoredTurnHolds(c, turn)'
      <4>1. PICK i \in DOMAIN stored'[c].turns : turn = stored'[c].turns[i]
        BY <3>4
      <4>2. CASE i = Len(stored[c].turns) + 1
        BY <3>2, <3>3, <4>1, <4>2
      <4>3. CASE i # Len(stored[c].turns) + 1
        <5>1. i \in DOMAIN stored[c].turns /\ turn = stored[c].turns[i]
          BY <3>3, <4>1, <4>3
        <5> QED BY <1>1, <5>1
      <4> QED BY <4>2, <4>3
    <3>5. \A d \in Chats \ {c} : stored'[d].turns = stored[d].turns
      BY <2>2 DEF OnlyChat
    <3> QED BY <1>1, <3>4, <3>5, StoredHoldOn
  <2>3. \/ UNCHANGED stored
        \/ \E c \in Chats :
              /\ OnlyChat(c) /\ c = answer[r].chat
              /\ stored'[c].turns = Append(stored[c].turns, NewTurn(r))
              /\ AnswerIs(r, "model", answer[r].session, answer[r].text,
                          answer[r].citations, answer[r].finished)
    BY <1>0, <1>4, StartTurnEffect
  <2> QED BY <2>1, <2>2, <2>3
<1>5. ASSUME NEW r \in Runs, NEW outcome \in {"done", "error"},
             CompleteTurn(r, outcome)
      PROVE  StoredHold'
  <2>1. /\ AnswerIs(r, "over", answer[r].session, answer[r].text,
                    answer[r].citations, answer[r].finished)
        /\ outcome = "done" => answer[r].phase = "finish"
    BY <1>0, <1>5, CompleteTurnEffect
  <2>2. CASE UNCHANGED stored
    BY <1>2, <2>2
  <2>3. ASSUME NEW c \in Chats, NEW new \in Turn, c = answer[r].chat,
               new = [run |-> r, text |-> answer[r].text,
                      citations |-> answer[r].citations, state |-> outcome],
               OnlyChat(c), DOMAIN stored'[c].turns = DOMAIN stored[c].turns,
               \A i \in DOMAIN stored[c].turns :
                   stored'[c].turns[i] \in {new, stored[c].turns[i]}
        PROVE  StoredHold'
    <3>1. /\ answer'[r].phase = "over" /\ answer'[r].chat = c
          /\ answer'[r].text = answer[r].text
          /\ answer'[r].citations = answer[r].citations
          /\ outcome = "done" => answer'[r].finished
      BY <1>0, <2>1, <2>3 DEF AnswerIs, AnswerHolds
    <3>2. /\ new.run = r /\ new.text = answer[r].text
          /\ new.citations = answer[r].citations /\ new.state = outcome
      BY <2>3
    <3>3. StoredTurnHolds(c, new)'
      BY <3>1, <3>2 DEF StoredTurnHolds
    <3>4. ASSUME NEW turn,
                 \E i \in DOMAIN stored'[c].turns : turn = stored'[c].turns[i]
          PROVE  StoredTurnHolds(c, turn)'
      <4>1. \/ turn = new
            \/ \E i \in DOMAIN stored[c].turns : turn = stored[c].turns[i]
        BY <2>3, <3>4
      <4> QED BY <1>1, <3>3, <4>1
    <3>5. \A d \in Chats \ {c} : stored'[d].turns = stored[d].turns
      BY <2>3 DEF OnlyChat
    <3> QED BY <1>1, <3>4, <3>5, StoredHoldOn
  <2>4. CASE Stores(r, outcome)
    BY <2>3, <2>4 DEF Stores
  <2>5. UNCHANGED stored \/ Stores(r, outcome)
    BY <1>0, <1>5, CompleteTurnEffect
  <2> QED BY <2>2, <2>4, <2>5
<1>6. ASSUME NEW c \in Chats, DeleteChat(c) PROVE StoredHold'
  <2>1. /\ DOMAIN stored'[c].turns = {}
        /\ \A d \in Chats \ {c} : stored'[d].turns = stored[d].turns
    BY <1>0, <1>6, DeleteChatEffect DEF OnlyChat
  <2> QED BY <1>1, <2>1, StoredHoldOn
<1> QED BY <1>0, WhoWritesTurns, <1>2, <1>3, <1>4, <1>5, <1>6

-----------------------------------------------------------------------------
(* Which turn a question writes.                                           *)
LEMMA TurnTypes ==
    ASSUME AskTypeInv
    PROVE  /\ page.turns \in Seq(Turn)
           /\ Len(page.turns) \in Nat /\ DOMAIN page.turns = 1..Len(page.turns)
           /\ \A i \in DOMAIN page.turns :
                  page.turns[i] \in Turn /\ page.turns[i].run \in Runs
<1>1. page.turns \in Seq(Turn)
    BY DEF AskTypeInv, Page
<1>2. \A i \in DOMAIN page.turns : page.turns[i] \in Turn
    BY <1>1, LenProperties, ElementOfSeq
<1> QED BY <1>1, <1>2, LenProperties DEF Turn

LEMMA OwnIsShown ==
    ASSUME TurnsHold, NEW r \in Runs, Active(r), Current(r)
    PROVE  /\ Live(r) /\ run[r].turnIndex \in DOMAIN page.turns
           /\ OwnTurn(r) = page.turns[run[r].turnIndex]
           /\ OwnTurn(r).run = r
    BY DEF TurnsHold, Live, OwnTurn

(* A call that writes its turn writes no other and takes it from no other. *)
LEMMA WriteKeepsRuns ==
    ASSUME AskTypeInv, TurnsHold, NEW r \in Runs, Active(r),
           NEW turn \in Turn, turn.run = OwnTurn(r).run,
           page'.turns = ChangeTurn(r, turn)
    PROVE  /\ DOMAIN page'.turns = DOMAIN page.turns
           /\ \A i \in DOMAIN page.turns :
                  page'.turns[i].run = page.turns[i].run
<1>1. /\ DOMAIN page'.turns = DOMAIN page.turns
      /\ \A i \in DOMAIN page'.turns :
             page'.turns[i] = IF Current(r) /\ i = run[r].turnIndex
                              THEN turn ELSE page.turns[i]
    BY ChangeTurnType
<1>2. Current(r) => turn.run = page.turns[run[r].turnIndex].run
    BY OwnIsShown
<1> QED BY <1>1, <1>2

LEMMA TurnsKept ==
    ASSUME TurnsHold, AskTypeInv, \A q \in Runs : Grows(q),
           page'.latestReadId = page.latestReadId,
           DOMAIN page'.turns = DOMAIN page.turns,
           \A i \in DOMAIN page.turns : page'.turns[i].run = page.turns[i].run,
           \A q \in Runs :
               \/ run'[q] = run[q]
               \/ /\ Active(q) /\ Active(q)' /\ run'[q].runId = run[q].runId
                  /\ run'[q].turnIndex = run[q].turnIndex
               \/ Active(q) /\ run'[q] = EndedRun
    PROVE  TurnsHold'
<1>1. EndedRun.phase = "ended"
    BY DEF EndedRun, IdleRun
<1>2. ASSUME NEW q \in Runs, Live(q)'
      PROVE  Live(q) /\ run'[q].turnIndex = run[q].turnIndex
    BY <1>1, <1>2 DEF Live, Active, Current
<1>3. ASSUME NEW q \in Runs, Live(q)
      PROVE  \/ Live(q)' /\ run'[q].turnIndex = run[q].turnIndex
             \/ run'[q].phase = "ended"
    BY <1>1, <1>3 DEF Live, Active, Current
<1>4. \A q \in Runs : run[q].phase = "ended" => run'[q].phase = "ended"
    BY DEF Active
<1>5. \A q \in Runs : answer[q].phase # "none" => answer'[q].phase # "none"
    BY DEF Grows
<1>6. ASSUME NEW i \in DOMAIN page'.turns PROVE TurnOfARun(i)'
  <2>1. page.turns[i].run \in Runs /\ TurnOfARun(i)
    BY TurnTypes DEF TurnsHold
  <2>2. page'.turns[i].run = page.turns[i].run
    OBVIOUS
  <2> QED BY <1>3, <1>4, <1>5, <2>1, <2>2 DEF TurnOfARun
<1>7. ASSUME NEW q \in Runs, Live(q)'
      PROVE  /\ run'[q].turnIndex \in DOMAIN page'.turns
             /\ page'.turns[run'[q].turnIndex].run = q
    BY <1>2, <1>7 DEF TurnsHold
<1> QED BY <1>6, <1>7 DEF TurnsHold

LEMMA TurnsEnd ==
    ASSUME TurnsHold, AskTypeInv, \A q \in Runs : Grows(q), NEW r \in Runs,
           Active(r), NEW state \in States, Ends(r, state)
    PROVE  TurnsHold'
<1>1. /\ [OwnTurn(r) EXCEPT !.state = state] \in Turn
      /\ [OwnTurn(r) EXCEPT !.state = state].run = OwnTurn(r).run
    BY OwnTurnType DEF Turn
<1>2. /\ DOMAIN page'.turns = DOMAIN page.turns
      /\ \A i \in DOMAIN page.turns : page'.turns[i].run = page.turns[i].run
    BY <1>1, WriteKeepsRuns DEF Ends
<1>3. /\ page'.latestReadId = page.latestReadId /\ run'[r] = EndedRun
      /\ \A q \in Runs \ {r} : run'[q] = run[q]
    BY DEF Ends, OnlyRun
<1> QED BY <1>2, <1>3, TurnsKept

LEMMA NothingLive ==
    ASSUME IdsHold, ~page.isRunning
    PROVE  \A q \in Runs : ~Live(q)
    BY DEF IdsHold, PageTellsWhatItDoes, Live, Active

LEMMA TurnsAsk ==
    ASSUME TurnsHold, BaseInv, \A q \in Runs : Grows(q), NEW r \in Runs,
           AskQuestion(r)
    PROVE  TurnsHold'
<1>0. AskTypeInv /\ IdsHold
    BY DEF BaseInv
<1>1. /\ run[r].phase = "idle" /\ ~page.isRunning
      /\ page'.turns = Append(page.turns, NewTurn(r))
      /\ page'.latestReadId = page.latestReadId + 1
      /\ OnlyRun(r) /\ run'[r].phase \in {"create", "post"}
      /\ run'[r].runId = page.latestReadId + 1
      /\ run'[r].turnIndex = Len(page.turns) + 1
    BY <1>0, AskQuestionEffect
<1>2. /\ DOMAIN page'.turns = 1..(Len(page.turns) + 1)
      /\ \A i \in DOMAIN page.turns : page'.turns[i] = page.turns[i]
      /\ page'.turns[Len(page.turns) + 1] = NewTurn(r)
      /\ DOMAIN page.turns = 1..Len(page.turns) /\ Len(page.turns) \in Nat
    BY <1>0, <1>1, TurnTypes, NewTurnType, AppendProperties, LenProperties
<1>3. NewTurn(r).run = r
    BY DEF NewTurn
<1>4. \A q \in Runs : ~Live(q)
    BY <1>0, <1>1, NothingLive
<1>5. Live(r)'
    BY <1>1 DEF Live, Active, Current
<1>6. ASSUME NEW q \in Runs \ {r} PROVE ~Live(q)'
  <2>1. Active(q) => run[q].runId \in 1..page.latestReadId
    BY <1>0 DEF IdsHold
  <2>2. run'[q] = run[q] /\ page.latestReadId \in Nat
    BY <1>0, <1>1 DEF OnlyRun, AskTypeInv, Page
  <2> QED BY <1>1, <2>1, <2>2 DEF Live, Active, Current
<1>7. ASSUME NEW i \in DOMAIN page.turns PROVE TurnOfARun(i)'
  <2>1. TurnOfARun(i) /\ page.turns[i].run \in Runs
    BY <1>0, TurnTypes DEF TurnsHold
  <2>2. \/ run[page.turns[i].run].phase = "ended"
        \/ answer[page.turns[i].run].phase # "none"
    BY <1>4, <2>1 DEF TurnOfARun
  <2>3. \/ run'[page.turns[i].run].phase = "ended"
        \/ answer'[page.turns[i].run].phase # "none"
    BY <1>1, <2>1, <2>2 DEF Grows, OnlyRun
  <2> QED BY <1>2, <2>3 DEF TurnOfARun
<1>9. ASSUME NEW i \in DOMAIN page'.turns PROVE TurnOfARun(i)'
  <2>1. CASE i \in DOMAIN page.turns
    BY <1>7, <2>1
  <2>2. CASE i \notin DOMAIN page.turns
    <3>1. i = Len(page.turns) + 1
      BY <1>2, <2>2
    <3>2. page'.turns[i].run = r /\ run'[r].turnIndex = i
      BY <1>1, <1>2, <1>3, <3>1
    <3> QED BY <1>5, <3>2 DEF TurnOfARun
  <2> QED BY <2>1, <2>2
<1>10. ASSUME NEW q \in Runs, Live(q)'
       PROVE  /\ run'[q].turnIndex \in DOMAIN page'.turns
              /\ page'.turns[run'[q].turnIndex].run = q
    BY <1>1, <1>2, <1>3, <1>6, <1>10
<1> QED BY <1>9, <1>10 DEF TurnsHold

LEMMA TurnsReceive ==
    ASSUME TurnsHold, BaseInv, StoredHold, \A q \in Runs : Grows(q),
           NEW read \in reads, ReceiveChat(read)
    PROVE  TurnsHold'
<1>0. AskTypeInv /\ IdsHold
    BY DEF BaseInv
<1>1. /\ run' = run /\ answer' = answer /\ read.chat \in Chats
      /\ \/ page' = page
         \/ /\ LatestRead(read)
            /\ page'.turns \in {stored[read.chat].turns, page.turns}
            /\ page'.latestReadId = page.latestReadId
    BY <1>0, ReceiveChatEffect
<1>2. CASE page'.turns = page.turns /\ page'.latestReadId = page.latestReadId
    BY <1>0, <1>1, <1>2, TurnsKept
<1>3. CASE /\ LatestRead(read) /\ page'.latestReadId = page.latestReadId
           /\ page'.turns = stored[read.chat].turns
  <2>1. \A q \in Runs : ~Live(q)'
    BY <1>0, <1>1, <1>3 DEF IdsHold, Live, Active, Current
  <2>2. ASSUME NEW i \in DOMAIN page'.turns PROVE TurnOfARun(i)'
    <3>1. StoredTurnHolds(read.chat, page'.turns[i])
      BY <1>1, <1>3 DEF StoredHold
    <3>2. answer'[page'.turns[i].run].phase # "none"
      BY <1>1, <3>1 DEF StoredTurnHolds
    <3> QED BY <3>2 DEF TurnOfARun
  <2> QED BY <2>1, <2>2 DEF TurnsHold
<1> QED BY <1>1, <1>2, <1>3

LEMMA TurnsStep ==
    ASSUME BaseInv, AnswersFollow, StoredHold, TurnsHold, Next
    PROVE  TurnsHold'
<1>0. /\ AskTypeInv /\ IdsHold /\ AnswersHold
      /\ \A r \in Runs : AnswerHolds(answer[r])
    BY DEF BaseInv, AnswersHold
<1>a. \A r \in Runs : Grows(r)
    BY AllGrow
<1>1. ASSUME UNCHANGED <<page, run>> PROVE TurnsHold'
    BY <1>0, <1>a, <1>1, TurnsKept
<1>2. ASSUME NEW r \in Runs, AskQuestion(r) PROVE TurnsHold'
    BY <1>a, <1>2, TurnsAsk
<1>3. ASSUME NEW r \in Runs, NEW c \in Chats, CreateChat(r, c)
      PROVE  TurnsHold'
    BY <1>0, <1>a, <1>3, CreateChatEffect, TurnsKept DEF OnlyRun, Active
<1>4. ASSUME NEW r \in Runs, OpenCreatedChat(r) PROVE TurnsHold'
    BY <1>0, <1>a, <1>4, OpenCreatedChatEffect, TurnsKept
       DEF Moves, OnlyRun, Active
<1>5. ASSUME NEW r \in Runs, PostTurn(r) PROVE TurnsHold'
    BY <1>0, <1>a, <1>5, PostTurnEffect, TurnsKept DEF Moves, OnlyRun, Active
<1>6. ASSUME NEW r \in Runs, FailRequest(r) PROVE TurnsHold'
    BY <1>0, <1>a, <1>6, FailRequestEffect, TurnsEnd DEF Active, States
<1>7. ASSUME NEW r \in Runs, ReadFrame(r) PROVE TurnsHold'
  <2>1. run[r].phase = "stream" /\ Active(r) /\ wire[r][1] \in FrameSet
    BY <1>0, <1>7, ReadFrameEffect DEF Active
  <2>2. CASE Ends(r, "error")
    BY <1>0, <1>a, <2>1, <2>2, TurnsEnd DEF States
  <2>3. CASE ~Ends(r, "error")
    <3>1. /\ page'.turns = ChangeTurn(r, ApplyFrame(OwnTurn(r), wire[r][1]))
          /\ page'.latestReadId = page.latestReadId
          /\ OnlyRun(r) /\ run'[r].phase = run[r].phase
          /\ run'[r].runId = run[r].runId
          /\ run'[r].turnIndex = run[r].turnIndex
      BY <1>0, <1>7, <2>3, ReadFrameEffect
    <3>2. /\ ApplyFrame(OwnTurn(r), wire[r][1]) \in Turn
          /\ ApplyFrame(OwnTurn(r), wire[r][1]).run = OwnTurn(r).run
      BY <1>0, <2>1, OwnTurnType, ApplyFrameType
    <3>3. /\ DOMAIN page'.turns = DOMAIN page.turns
          /\ \A i \in DOMAIN page.turns :
                 page'.turns[i].run = page.turns[i].run
      BY <1>0, <2>1, <3>1, <3>2, WriteKeepsRuns
    <3>4. Active(r)'
      BY <2>1, <3>1 DEF Active
    <3> QED BY <1>0, <1>a, <2>1, <3>1, <3>3, <3>4, TurnsKept DEF OnlyRun
  <2> QED BY <2>2, <2>3
<1>8. ASSUME NEW r \in Runs, EndStream(r) PROVE TurnsHold'
  <2>1. /\ run[r].phase = "stream" /\ Ends(r, StateAtEnd(r))
        /\ StateAtEnd(r) \in States
    BY <1>0, <1>8, EndStreamEffect DEF States
  <2>2. Active(r)
    BY <2>1 DEF Active
  <2> QED BY <1>0, <1>a, <2>1, <2>2, TurnsEnd
<1>9. ASSUME NEW c \in Chats \union {NoChat}, Switches(c), run' = run
      PROVE  TurnsHold'
  <2>1. page'.turns = <<>> /\ page'.latestReadId = page.latestReadId + 1
    BY <1>9 DEF Switches
  <2>2. \A q \in Runs : ~Live(q)'
    BY <1>0, <1>9, <2>1 DEF IdsHold, Live, Active, Current, AskTypeInv, Page
  <2> QED BY <2>1, <2>2 DEF TurnsHold
<1>10. ASSUME NEW c \in Chats \union {NoChat}, OpenChat(c) PROVE TurnsHold'
    BY <1>0, <1>9, <1>10, OpenChatEffect
<1>11. ASSUME NEW read \in reads, ReceiveChat(read) PROVE TurnsHold'
    BY <1>a, <1>11, TurnsReceive
<1>12. ASSUME NEW d \in leaving, LeaveDeletedChat(d) PROVE TurnsHold'
    BY <1>0, <1>1, <1>9, <1>12, LeaveDeletedChatEffect
<1>13. ASSUME NEW c \in Chats, DeleteChat(c) PROVE TurnsHold'
    BY <1>0, <1>1, <1>13, DeleteChatEffect
<1>14. ASSUME NEW r \in Runs,
              \/ DropStream(r) \/ StartTurn(r) \/ EndAnswer(r) \/ NotSettled(r)
              \/ \E number \in Nat : StreamDelta(r, number)
              \/ \E more \in BOOLEAN, results \in Results :
                     SearchDocumentChunks(r, results, more)
              \/ \E more \in BOOLEAN : RunTool(r, more)
              \/ \E outcome \in {"done", "error"} : CompleteTurn(r, outcome)
       PROVE  TurnsHold'
    BY <1>1, <1>14 DEF DropStream, StartTurn, EndAnswer, NotSettled, StreamDelta,
       SearchDocumentChunks, RunTool, CompleteTurn
<1> QED BY Steps, <1>2, <1>3, <1>4, <1>5, <1>6, <1>7, <1>8, <1>10, <1>11, <1>12,
           <1>13, <1>14

-----------------------------------------------------------------------------
(* Nothing follows the done frame.                                         *)
LEMMA DoneSends ==
    ASSUME AskTypeInv, DoneIsLast, NEW r \in Runs, OnlyAnswer(r),
           NEW f \in FrameSet, Sends(r, f), answer[r].phase # "over",
           f.type = "done" => answer'[r].phase = "over"
    PROVE  DoneIsLast'
<1>1. /\ \A q \in Runs \ {r} : wire'[q] = wire[q] /\ answer'[q] = answer[q]
      /\ wire'[r] = wire[r] \/ wire'[r] = Append(wire[r], f)
    BY DEF Sends, OnlyWire, OnlyAnswer
<1>2. \A j \in DOMAIN wire[r] : wire[r][j].type # "done"
    BY DEF DoneIsLast
<1>3. wire[r] \in Seq(FrameSet)
    BY DEF AskTypeInv
<1>4. ASSUME NEW j \in DOMAIN wire'[r], wire'[r][j].type = "done"
      PROVE  j = Len(wire'[r]) /\ answer'[r].phase = "over"
  <2>1. wire'[r] = Append(wire[r], f)
    BY <1>1, <1>2, <1>4
  <2>2. /\ Len(wire'[r]) = Len(wire[r]) + 1
        /\ DOMAIN wire[r] = 1..Len(wire[r]) /\ Len(wire[r]) \in Nat
        /\ DOMAIN wire'[r] = 1..(Len(wire[r]) + 1)
        /\ \A i \in 1..Len(wire[r]) : wire'[r][i] = wire[r][i]
        /\ wire'[r][Len(wire[r]) + 1] = f
    BY <1>3, <2>1, FramesAppend
  <2>3. j = Len(wire[r]) + 1
    BY <1>2, <1>4, <2>2
  <2> QED BY <1>4, <2>2, <2>3
<1>5. ASSUME NEW q \in Runs, NEW j \in DOMAIN wire'[q], wire'[q][j].type = "done"
      PROVE  j = Len(wire'[q]) /\ answer'[q].phase = "over"
    BY <1>1, <1>4, <1>5 DEF DoneIsLast
<1> QED BY <1>5 DEF DoneIsLast

LEMMA DoneStep ==
    ASSUME BaseInv, AnswersFollow, DoneIsLast, Next
    PROVE  DoneIsLast'
<1>0. /\ AskTypeInv /\ AnswersHold /\ \A r \in Runs : AnswerHolds(answer[r])
      /\ \A r \in Runs : Grows(r)
    BY AllGrow DEF BaseInv, AnswersHold
<1>a. \A r \in Runs : answer[r].phase = "over" => answer'[r].phase = "over"
    BY <1>0 DEF Grows
<1>1. ASSUME UNCHANGED wire PROVE DoneIsLast'
    BY <1>a, <1>1 DEF DoneIsLast
<1>2. ASSUME NEW r \in Runs, DropStream(r) PROVE DoneIsLast'
  <2>1. OnlyWire(r) /\ wire'[r] = <<>>
    BY <1>0, <1>2, DropStreamEffect
  <2> QED BY <1>a, <2>1 DEF DoneIsLast, OnlyWire
<1>3. ASSUME NEW r \in Runs, ReadFrame(r) PROVE DoneIsLast'
  <2>1. /\ OnlyWire(r) /\ wire'[r] = Tail(wire[r]) /\ wire[r] # <<>>
        /\ wire[r] \in Seq(FrameSet)
    BY <1>0, <1>3, ReadFrameEffect DEF AskTypeInv
  <2>2. /\ Len(wire'[r]) \in Nat /\ Len(wire[r]) = Len(wire'[r]) + 1
        /\ DOMAIN wire[r] = 1..(Len(wire'[r]) + 1)
        /\ DOMAIN wire'[r] = 1..Len(wire'[r])
        /\ \A j \in 1..Len(wire'[r]) : wire'[r][j] = wire[r][j + 1]
    BY <2>1, FramesTail
  <2>3. ASSUME NEW j \in DOMAIN wire'[r], wire'[r][j].type = "done"
        PROVE  j = Len(wire'[r]) /\ answer'[r].phase = "over"
    <3>1. j + 1 \in DOMAIN wire[r] /\ wire[r][j + 1].type = "done" /\ j \in Nat
      BY <2>2, <2>3
    <3>2. j + 1 = Len(wire[r]) /\ answer[r].phase = "over"
      BY <3>1 DEF DoneIsLast
    <3> QED BY <1>a, <2>2, <3>1, <3>2
  <2>4. \A q \in Runs \ {r} : wire'[q] = wire[q]
    BY <2>1 DEF OnlyWire
  <2>5. ASSUME NEW q \in Runs, NEW j \in DOMAIN wire'[q],
               wire'[q][j].type = "done"
        PROVE  j = Len(wire'[q]) /\ answer'[q].phase = "over"
    BY <1>a, <2>3, <2>4, <2>5 DEF DoneIsLast
  <2> QED BY <2>5 DEF DoneIsLast
<1>4. ASSUME NEW r \in Runs, StartTurn(r) PROVE DoneIsLast'
  <2>1. CASE UNCHANGED wire
    BY <1>1, <2>1
  <2>2. CASE ~UNCHANGED wire
    <3>1. /\ answer[r].phase = "sent" /\ Sends(r, Frame("error", <<>>))
          /\ OnlyAnswer(r)
      BY <1>0, <1>4, <2>2, StartTurnEffect DEF AnswerIs
    <3>2. Frame("error", <<>>) \in FrameSet /\ Frame("error", <<>>).type = "error"
      BY EndFrame
    <3> QED BY <1>0, <3>1, <3>2, DoneSends
  <2> QED BY <2>1, <2>2
<1>5. ASSUME NEW r \in Runs, NEW number \in Nat,
             \/ StreamDelta(r, number)
             \/ NotSettled(r) /\ number = 0
      PROVE  DoneIsLast'
  <2>1. /\ answer[r].phase = "model" /\ Sends(r, Frame("delta", <<number>>))
        /\ OnlyAnswer(r)
    BY <1>0, <1>5, StreamDeltaEffect, NotSettledEffect DEF AnswerIs
  <2>2. /\ Frame("delta", <<number>>) \in FrameSet
        /\ Frame("delta", <<number>>).type = "delta"
    BY DeltaFrameType
  <2> QED BY <1>0, <2>1, <2>2, DoneSends
<1>6. ASSUME NEW r \in Runs, NEW more \in BOOLEAN, NEW results \in Results,
              SearchDocumentChunks(r, results, more)
      PROVE  DoneIsLast'
  <2>1. PICK cited \in SUBSET Citation :
            /\ answer[r].phase \in {"model", "tools"} /\ OnlyAnswer(r)
            /\ Sends(r, Frame("citations", cited))
    BY <1>0, <1>6, SearchEffect DEF AnswerIs
  <2>2. /\ Frame("citations", cited) \in FrameSet
        /\ Frame("citations", cited).type = "citations"
    BY CitationsFrameType
  <2> QED BY <1>0, <2>1, <2>2, DoneSends
<1>7. ASSUME NEW r \in Runs, NEW outcome \in {"done", "error"},
             CompleteTurn(r, outcome)
      PROVE  DoneIsLast'
  <2>1. PICK t \in {"done", "error"} :
            /\ answer[r].phase \in {"model", "tools", "finish"} /\ OnlyAnswer(r)
            /\ answer'[r].phase = "over" /\ Sends(r, Frame(t, <<>>))
    BY <1>0, <1>7, CompleteTurnEffect DEF AnswerIs
  <2>2. Frame(t, <<>>) \in FrameSet
    BY EndFrame
  <2> QED BY <1>0, <2>1, <2>2, DoneSends
<1>8. \/ UNCHANGED wire
      \/ \E r \in Runs :
            \/ DropStream(r) \/ ReadFrame(r) \/ StartTurn(r) \/ NotSettled(r)
            \/ \E number \in Nat : StreamDelta(r, number)
            \/ \E more \in BOOLEAN, results \in Results :
                   SearchDocumentChunks(r, results, more)
            \/ \E outcome \in {"done", "error"} : CompleteTurn(r, outcome)
    BY Steps DEF AskQuestion, CreateChat, OpenCreatedChat, PostTurn, FailRequest,
       EndStream, EndAnswer, RunTool, OpenChat, ReceiveChat, DeleteChat,
       LeaveDeletedChat
<1> QED BY <1>1, <1>2, <1>3, <1>4, <1>5, <1>6, <1>7, <1>8

-----------------------------------------------------------------------------
(* What is shown of an answer.                                             *)
LEMMA ShownTurnKept ==
    ASSUME NEW turn \in Turn, AskTypeInv, AskTypeInv', Grows(turn.run),
           ShownTurnHolds(turn)
    PROVE  ShownTurnHolds(turn)'
<1> DEFINE r == turn.run
<1>1. /\ r \in Runs /\ turn.text \in Seq(Nat)
      /\ answer[r].text \in Seq(Nat) /\ answer'[r].text \in Seq(Nat)
    BY DEF Turn, AskTypeInv, Answer
<1>2. Starts(turn.text, answer'[r].text)
    BY <1>1, StartsMore DEF Grows, ShownTurnHolds
<1>3. turn.citations \subseteq answer'[r].citations
    BY DEF Grows, ShownTurnHolds
<1>4. ASSUME NEW i \in DOMAIN turn.text
      PROVE  Resolved(turn.text[i], answer'[r], turn.citations)
  <2>1. Resolved(turn.text[i], answer[r], turn.citations)
    BY DEF ShownTurnHolds
  <2>2. \A k \in DOMAIN answer[r].session :
            /\ k \in DOMAIN answer'[r].session
            /\ answer'[r].session[k] = answer[r].session[k]
    BY DEF Grows
  <2> QED BY <2>1, <2>2, ResolvedGrows
<1>5. turn.state = "done" => /\ turn.text = answer'[r].text
                             /\ answer'[r].phase = "over"
    BY DEF Grows, ShownTurnHolds
<1> QED BY <1>2, <1>3, <1>4, <1>5 DEF ShownTurnHolds

LEMMA ShownHoldOn ==
    ASSUME \A turn : (\E i \in DOMAIN page'.turns : turn = page'.turns[i])
               => ShownTurnHolds(turn)'
    PROVE  ShownHold'
    BY DEF ShownHold, ShownTurnHolds

(* The state of a turn says nothing else unless it is done.                *)
LEMMA ShownStateSet ==
    ASSUME NEW turn \in Turn, NEW state \in States, ShownTurnHolds(turn),
           state = "done" => /\ turn.text = answer[turn.run].text
                             /\ answer[turn.run].phase = "over"
    PROVE  ShownTurnHolds([turn EXCEPT !.state = state])
<1> DEFINE t == [turn EXCEPT !.state = state]
<1>1. /\ t.run = turn.run /\ t.text = turn.text
      /\ t.citations = turn.citations /\ t.state = state
    BY DEF Turn
<1> HIDE DEF t
<1>2. ShownTurnHolds(t)
    BY <1>1 DEF ShownTurnHolds
<1> QED BY <1>2 DEF t

LEMMA StoredIsShown ==
    ASSUME AskTypeInv, AnswersHold, NEW c \in Chats, NEW turn \in Turn,
           StoredTurnHolds(c, turn)
    PROVE  ShownTurnHolds(turn)
<1> DEFINE a == answer[turn.run]
<1>1. /\ turn.run \in Runs /\ a.text \in Seq(Nat) /\ a.session \in Session
      /\ turn.text \in Seq(Nat)
    BY DEF Turn, AskTypeInv, Answer
<1>2. AnswerHolds(a)
    BY <1>1 DEF AnswersHold
<1>3. CASE turn.state = "running"
  <2>1. turn.text = <<>> /\ turn.citations = {} /\ Len(turn.text) = 0
    BY <1>3 DEF StoredTurnHolds
  <2>2. Len(a.text) \in Nat /\ DOMAIN turn.text = {}
    BY <1>1, <2>1, LenProperties
  <2> QED BY <1>3, <2>1, <2>2 DEF ShownTurnHolds, Starts
<1>4. CASE turn.state # "running"
  <2>1. turn.text = a.text /\ turn.citations = a.citations /\ a.phase = "over"
    BY <1>4 DEF StoredTurnHolds
  <2>2. Starts(turn.text, a.text)
    BY <1>1, <2>1, StartsSelf
  <2>3. ASSUME NEW i \in DOMAIN turn.text
        PROVE  Resolved(turn.text[i], a, turn.citations)
    <3>1. turn.text[i] \in {0} \union NumbersOf(a.session)
      BY <1>2, <2>1 DEF AnswerHolds
    <3>2. a.citations = Numbered(a.session, DOMAIN a.session)
      BY <1>2 DEF AnswerHolds
    <3> QED BY <2>1, <3>1, <3>2 DEF Resolved, NumbersOf, Numbered
  <2> QED BY <2>1, <2>2, <2>3 DEF ShownTurnHolds
<1> QED BY <1>3, <1>4

LEMMA ShownWrites ==
    ASSUME AskTypeInv, AskTypeInv', ShownHold, \A q \in Runs : Grows(q),
           NEW r \in Runs, NEW turn \in Turn,
           page'.turns = ChangeTurn(r, turn),
           Current(r) => ShownTurnHolds(turn)'
    PROVE  ShownHold'
<1>1. /\ DOMAIN page'.turns = DOMAIN page.turns
      /\ \A i \in DOMAIN page'.turns :
             page'.turns[i] = IF Current(r) /\ i = run[r].turnIndex
                              THEN turn ELSE page.turns[i]
    BY ChangeTurnType
<1>2. ASSUME NEW t, \E i \in DOMAIN page'.turns : t = page'.turns[i]
      PROVE  ShownTurnHolds(t)'
  <2>1. PICK i \in DOMAIN page'.turns : t = page'.turns[i]
    BY <1>2
  <2>2. CASE Current(r) /\ i = run[r].turnIndex
    BY <1>1, <2>1, <2>2
  <2>3. CASE ~(Current(r) /\ i = run[r].turnIndex)
    <3>1. i \in DOMAIN page.turns /\ t = page.turns[i]
      BY <1>1, <2>1, <2>3
    <3>2. t \in Turn /\ t.run \in Runs /\ ShownTurnHolds(t)
      BY <3>1, TurnTypes DEF ShownHold
    <3> QED BY <3>2, ShownTurnKept
  <2> QED BY <2>2, <2>3
<1> QED BY <1>2, ShownHoldOn

LEMMA ShownEnd ==
    ASSUME AskTypeInv, AskTypeInv', ShownHold, TurnsHold,
           \A q \in Runs : Grows(q), NEW r \in Runs, Active(r),
           NEW state \in States, Ends(r, state), answer' = answer,
           Current(r) /\ state = "done" =>
               /\ OwnTurn(r).text = answer[r].text
               /\ answer[r].phase = "over"
    PROVE  ShownHold'
<1>1. PICK own \in Turn : own = OwnTurn(r)
    BY OwnTurnType
<1>2. PICK turn \in Turn : turn = [own EXCEPT !.state = state]
    BY DEF Turn
<1>3. ASSUME Current(r) PROVE ShownTurnHolds(turn)'
  <2>1. own.run = r /\ ShownTurnHolds(own)
    BY <1>1, <1>3, OwnIsShown DEF ShownHold
  <2>2. ShownTurnHolds(turn)
    BY <1>1, <1>2, <1>3, <2>1, ShownStateSet
  <2> QED BY <2>2 DEF ShownTurnHolds
<1>4. page'.turns = ChangeTurn(r, turn)
    BY <1>1, <1>2 DEF Ends
<1> QED BY <1>3, <1>4, ShownWrites

(* A frame that the page reads into a turn.                                *)
LEMMA ShownRead ==
    ASSUME AskTypeInv, AskTypeInv', AnswersHold, AnswersFollow, ShownHold,
           TurnsHold, LiveHold, \A q \in Runs : Grows(q),
           NEW r \in Runs, run[r].phase = "stream", wire[r] # <<>>,
           answer' = answer,
           page'.turns = ChangeTurn(r, ApplyFrame(OwnTurn(r), wire[r][1]))
    PROVE  ShownHold'
<1>0. /\ wire[r] \in Seq(FrameSet) /\ wire[r][1] \in FrameSet
      /\ answer[r] \in Answer /\ AnswerHolds(answer[r])
    BY FramesTail DEF AskTypeInv, AnswersHold
<1>1. PICK own \in Turn : own = OwnTurn(r)
    BY OwnTurnType
<1>2. PICK turn \in Turn : turn = ApplyFrame(own, wire[r][1])
    BY <1>0, ApplyFrameType
<1>3. ASSUME Current(r) PROVE ShownTurnHolds(turn)'
  <2>1. /\ Live(r) /\ own = page.turns[run[r].turnIndex] /\ own.run = r
        /\ ShownTurnHolds(own)
    BY <1>1, <1>3, OwnIsShown DEF Active, ShownHold
  <2>2. ~answer[r].closed
    BY DEF AnswersFollow, AnswerFollows
  <2>3. InStep(own, answer[r], wire[r]) /\ own.state = "running"
    BY <2>1, <2>2 DEF LiveHold, LiveTurnHolds
  <2>4. /\ Starts(turn.text, answer[r].text)
        /\ turn.citations \subseteq answer[r].citations
        /\ \A i \in DOMAIN turn.text :
               Resolved(turn.text[i], answer[r], turn.citations)
    BY <1>0, <1>2, <2>1, <2>3, InStepRead DEF ShownTurnHolds
  <2>5. turn.run = r /\ turn.state = "running"
    BY <1>0, <1>2, <2>1, <2>3, ApplyFrameType
  <2>6. ShownTurnHolds(turn)
    BY <2>4, <2>5 DEF ShownTurnHolds
  <2> QED BY <2>6 DEF ShownTurnHolds
<1>4. page'.turns = ChangeTurn(r, turn)
    BY <1>1, <1>2
<1> QED BY <1>3, <1>4, ShownWrites

LEMMA ShownStep ==
    ASSUME BaseInv, ShowInv, Next
    PROVE  ShownHold'
<1>0. /\ AskTypeInv /\ AnswersHold /\ IdsHold /\ AnswersFollow /\ TurnsHold
      /\ StoredHold /\ ShownHold /\ LiveHold
      /\ \A r \in Runs : AnswerHolds(answer[r])
    BY DEF BaseInv, ShowInv, AnswersHold
<1>a. AskTypeInv' /\ \A r \in Runs : Grows(r)
    BY <1>0, AllGrow, TypeStep
<1>1. ASSUME page'.turns = page.turns PROVE ShownHold'
  <2>1. ASSUME NEW t, \E i \in DOMAIN page'.turns : t = page'.turns[i]
        PROVE  ShownTurnHolds(t)'
    <3>1. t \in Turn /\ t.run \in Runs /\ ShownTurnHolds(t)
      BY <1>0, <1>1, <2>1, TurnTypes DEF ShownHold
    <3> QED BY <1>0, <1>a, <3>1, ShownTurnKept
  <2> QED BY <2>1, ShownHoldOn
<1>2. ASSUME NEW r \in Runs, AskQuestion(r) PROVE ShownHold'
  <2>1. /\ page'.turns = Append(page.turns, NewTurn(r))
        /\ answer' = answer
    BY <1>0, <1>2, AskQuestionEffect
  <2>2. /\ DOMAIN page'.turns = 1..(Len(page.turns) + 1)
        /\ \A i \in DOMAIN page.turns : page'.turns[i] = page.turns[i]
        /\ page'.turns[Len(page.turns) + 1] = NewTurn(r)
        /\ DOMAIN page.turns = 1..Len(page.turns) /\ Len(page.turns) \in Nat
    BY <1>0, <2>1, TurnTypes, NewTurnType, AppendProperties, LenProperties
  <2>3. PICK new \in Turn : new = NewTurn(r)
    BY NewTurnType
  <2>4. ShownTurnHolds(new)'
    <3>1. /\ new.run = r /\ new.text = <<>> /\ new.citations = {}
          /\ new.state = "running"
      BY <2>3 DEF NewTurn
    <3>2. Starts(new.text, answer'[r].text) /\ DOMAIN new.text = {}
      <4>1. answer'[r].text \in Seq(Nat)
        BY <1>a DEF AskTypeInv, Answer
      <4>2. Len(answer'[r].text) \in Nat /\ Len(<<>>) = 0
        BY <4>1, LenProperties
      <4> QED BY <3>1, <4>2 DEF Starts
    <3> QED BY <3>1, <3>2 DEF ShownTurnHolds
  <2>5. ASSUME NEW t, \E i \in DOMAIN page'.turns : t = page'.turns[i]
        PROVE  ShownTurnHolds(t)'
    <3>1. PICK i \in DOMAIN page'.turns : t = page'.turns[i]
      BY <2>5
    <3>2. CASE i \in DOMAIN page.turns
      <4>1. t \in Turn /\ t.run \in Runs /\ ShownTurnHolds(t)
        BY <1>0, <2>2, <3>1, <3>2, TurnTypes DEF ShownHold
      <4> QED BY <1>0, <1>a, <4>1, ShownTurnKept
    <3>3. CASE i \notin DOMAIN page.turns
      <4>1. i = Len(page.turns) + 1
        BY <2>2, <3>1, <3>3
      <4> QED BY <2>2, <2>3, <2>4, <3>1, <4>1
    <3> QED BY <3>2, <3>3
  <2> QED BY <2>5, ShownHoldOn
<1>3. ASSUME NEW r \in Runs, FailRequest(r) PROVE ShownHold'
  <2>1. Active(r) /\ Ends(r, "error") /\ answer' = answer
    BY <1>0, <1>3, FailRequestEffect DEF Active
  <2> QED BY <1>0, <1>a, <2>1, ShownEnd DEF States
<1>4. ASSUME NEW r \in Runs, ReadFrame(r) PROVE ShownHold'
  <2>1. /\ run[r].phase = "stream" /\ wire[r] # <<>> /\ answer' = answer
        /\ \/ Ends(r, "error")
           \/ page'.turns = ChangeTurn(r, ApplyFrame(OwnTurn(r), wire[r][1]))
    BY <1>0, <1>4, ReadFrameEffect
  <2>2. CASE Ends(r, "error")
    BY <1>0, <1>a, <2>1, <2>2, ShownEnd DEF States, Active
  <2> QED BY <1>0, <1>a, <2>1, <2>2, ShownRead
<1>5. ASSUME NEW r \in Runs, EndStream(r) PROVE ShownHold'
  <2>1. /\ Active(r) /\ Ends(r, StateAtEnd(r)) /\ answer' = answer
        /\ StateAtEnd(r) = IF run[r].sawDone THEN "done" ELSE "error"
    BY <1>0, <1>5, EndStreamEffect DEF Active
  <2>2. PICK state \in States : state = StateAtEnd(r)
    BY <2>1 DEF States
  <2>3. ASSUME Current(r), state = "done"
        PROVE  OwnTurn(r).text = answer[r].text /\ answer[r].phase = "over"
    <3>1. Live(r) /\ OwnTurn(r) = page.turns[run[r].turnIndex]
      BY <1>0, <2>1, <2>3, OwnIsShown
    <3>2. run[r].sawDone
      BY <2>1, <2>2, <2>3
    <3> QED BY <1>0, <3>1, <3>2 DEF LiveHold, LiveTurnHolds
  <2> QED BY <1>0, <1>a, <2>1, <2>2, <2>3, ShownEnd
<1>6. ASSUME page'.turns = <<>> PROVE ShownHold'
    BY <1>6 DEF ShownHold
<1>7. ASSUME NEW c \in Chats \union {NoChat}, OpenChat(c) PROVE ShownHold'
    BY <1>0, <1>6, <1>7, OpenChatEffect DEF Switches
<1>8. ASSUME NEW d \in leaving, LeaveDeletedChat(d) PROVE ShownHold'
    BY <1>0, <1>1, <1>6, <1>8, LeaveDeletedChatEffect DEF Switches
<1>9. ASSUME NEW read \in reads, ReceiveChat(read) PROVE ShownHold'
  <2>1. /\ read.chat \in Chats /\ answer' = answer
        /\ page'.turns \in {stored[read.chat].turns, page.turns}
    BY <1>0, <1>9, ReceiveChatEffect
  <2>2. CASE page'.turns = stored[read.chat].turns
    <3>1. ASSUME NEW t, \E i \in DOMAIN page'.turns : t = page'.turns[i]
          PROVE  ShownTurnHolds(t)'
      <4>1. stored[read.chat].turns \in Seq(Turn)
        BY <1>0, <2>1 DEF AskTypeInv, Chat
      <4>2. t \in Turn /\ StoredTurnHolds(read.chat, t)
        BY <1>0, <2>1, <2>2, <3>1, <4>1, LenProperties, ElementOfSeq
           DEF StoredHold
      <4>3. ShownTurnHolds(t)
        BY <1>0, <2>1, <4>2, StoredIsShown
      <4> QED BY <2>1, <4>3 DEF ShownTurnHolds
    <3> QED BY <3>1, ShownHoldOn
  <2> QED BY <1>1, <2>1, <2>2
<1>10. ASSUME UNCHANGED page PROVE ShownHold'
    BY <1>1, <1>10
<1>11. ASSUME NEW r \in Runs, OpenCreatedChat(r) PROVE ShownHold'
    BY <1>0, <1>1, <1>11, OpenCreatedChatEffect
<1>12. ASSUME NEW r \in Runs,
              \/ \E c \in Chats : CreateChat(r, c)
              \/ PostTurn(r)
              \/ DropStream(r) \/ StartTurn(r) \/ EndAnswer(r) \/ NotSettled(r)
              \/ \E number \in Nat : StreamDelta(r, number)
              \/ \E more \in BOOLEAN, results \in Results :
                     SearchDocumentChunks(r, results, more)
              \/ \E more \in BOOLEAN : RunTool(r, more)
              \/ \E outcome \in {"done", "error"} : CompleteTurn(r, outcome)
       PROVE  ShownHold'
    BY <1>10, <1>12 DEF CreateChat, PostTurn, DropStream, StartTurn, EndAnswer,
       NotSettled, StreamDelta, SearchDocumentChunks, RunTool, CompleteTurn
<1>13. ASSUME NEW c \in Chats, DeleteChat(c) PROVE ShownHold'
    BY <1>10, <1>13 DEF DeleteChat
<1> QED BY Steps, <1>2, <1>3, <1>4, <1>5, <1>7, <1>8, <1>9, <1>11, <1>12, <1>13

-----------------------------------------------------------------------------
(* The turn that the page is waiting for.                                  *)
LEMMA LiveTurnKept ==
    ASSUME NEW r, LiveTurnHolds(r),
           run'[r].turnIndex = run[r].turnIndex,
           run'[r].sawDone = run[r].sawDone,
           page'.turns[run[r].turnIndex] = page.turns[run[r].turnIndex],
           answer'[r] = answer[r], wire'[r] = wire[r]
    PROVE  LiveTurnHolds(r)'
    BY DEF LiveTurnHolds

(* A step of one call, by which no other becomes the latest.               *)
LEMMA LiveOnly ==
    ASSUME AskTypeInv, IdsHold, TurnsHold, LiveHold, NEW r \in Runs,
           NEW turn \in Turn,
           \/ page'.turns = page.turns
           \/ page'.turns = ChangeTurn(r, turn) /\ Active(r),
           page'.latestReadId = page.latestReadId,
           OnlyRun(r),
           \A q \in Runs \ {r} : answer'[q] = answer[q] /\ wire'[q] = wire[q],
           Live(r)' => LiveTurnHolds(r)'
    PROVE  LiveHold'
<1>1. ASSUME NEW q \in Runs \ {r}, Live(q)' PROVE LiveTurnHolds(q)'
  <2>1. run'[q] = run[q]
    BY DEF OnlyRun
  <2>2. Live(q) /\ LiveTurnHolds(q)
    BY <1>1, <2>1 DEF Live, Active, Current, LiveHold
  <2>3. Active(r) => ~Current(r)
    BY <2>2 DEF IdsHold, Live
  <2>4. page'.turns = page.turns
    BY <2>3 DEF ChangeTurn
  <2> QED BY <2>1, <2>2, <2>4, LiveTurnKept
<1> QED BY <1>1 DEF LiveHold

(* A step of an answer.                                                    *)
LEMMA LiveAnswers ==
    ASSUME AskTypeInv, IdsHold, TurnsHold, LiveHold, NEW r \in Runs,
           UNCHANGED <<page, run>>, OnlyAnswer(r), answer[r].phase # "over",
           answer'[r].closed = answer[r].closed,
           \A q \in Runs \ {r} : wire'[q] = wire[q],
           \A turn \in Turn :
               /\ ~answer[r].closed
               /\ InStep(turn, answer[r], wire[r])
               => InStep(turn, answer'[r], wire'[r])
    PROVE  LiveHold'
<1>1. ASSUME NEW q \in Runs \ {r}, Live(q)' PROVE LiveTurnHolds(q)'
  <2>1. Live(q) /\ LiveTurnHolds(q)
    BY <1>1 DEF Live, Active, Current, LiveHold
  <2> QED BY <2>1, LiveTurnKept DEF OnlyAnswer
<1>2. ASSUME Live(r)' PROVE LiveTurnHolds(r)'
  <2>1. /\ LiveTurnHolds(r) /\ run[r].turnIndex \in DOMAIN page.turns
        /\ page.turns[run[r].turnIndex] \in Turn
    BY <1>2, TurnTypes DEF Live, Active, Current, LiveHold, TurnsHold
  <2>2. PICK turn \in Turn : turn = page.turns[run[r].turnIndex]
    BY <2>1
  <2>3. /\ turn.state = "running" /\ ~run[r].sawDone
        /\ ~answer[r].closed => InStep(turn, answer[r], wire[r])
    BY <2>1, <2>2 DEF LiveTurnHolds
  <2>4. ~answer'[r].closed => InStep(turn, answer'[r], wire'[r])
    BY <2>2, <2>3
  <2> QED BY <2>2, <2>3, <2>4 DEF LiveTurnHolds
<1> QED BY <1>1, <1>2 DEF LiveHold

(* ... that sends nothing,                                                 *)
LEMMA LiveQuiet ==
    ASSUME AskTypeInv, IdsHold, TurnsHold, LiveHold, NEW r \in Runs,
           UNCHANGED <<page, run, wire>>, answer[r].phase # "over",
           NEW phase, NEW finished,
           AnswerIs(r, phase, answer[r].session, answer[r].text,
                    answer[r].citations, finished)
    PROVE  LiveHold'
<1>1. \A turn \in Turn : InStep(turn, answer[r], wire[r])
                             => InStep(turn, answer'[r], wire'[r])
    BY DEF InStep, Resolved, AnswerIs
<1> QED BY <1>1, LiveAnswers DEF AnswerIs

(* ... or a piece of its text,                                             *)
LEMMA LiveDelta ==
    ASSUME AskTypeInv, IdsHold, TurnsHold, LiveHold, NEW r \in Runs,
           AnswerHolds(answer[r]), UNCHANGED <<page, run>>,
           answer[r].phase # "over", NEW phase, NEW finished,
           NEW number \in Nat,
           number \in {0} \union NumbersOf(answer[r].session),
           AnswerIs(r, phase, answer[r].session, Append(answer[r].text, number),
                    answer[r].citations, finished),
           Sends(r, Frame("delta", <<number>>))
    PROVE  LiveHold'
<1>1. \A q \in Runs \ {r} : wire'[q] = wire[q]
    BY DEF Sends, OnlyWire
<1>2. answer[r] \in Answer /\ wire[r] \in Seq(FrameSet)
    BY DEF AskTypeInv
<1>3. Resolved(number, answer[r], answer[r].citations)
    BY DEF Resolved, NumbersOf, Numbered, AnswerHolds
<1>4. ASSUME NEW turn \in Turn, ~answer[r].closed,
             InStep(turn, answer[r], wire[r])
      PROVE  InStep(turn, answer'[r], wire'[r])
  <2>1. wire'[r] = Append(wire[r], Frame("delta", <<number>>))
    BY <1>4 DEF Sends
  <2>2. PICK b : b = answer'[r]
    OBVIOUS
  <2>3. /\ b.text = Append(answer[r].text, number)
        /\ b.citations = answer[r].citations
        /\ b.session = answer[r].session
    BY <2>2 DEF AnswerIs
  <2>4. InStep(turn, b, Append(wire[r], Frame("delta", <<number>>)))
    BY <1>2, <1>3, <1>4, <2>3, InStepDelta
  <2> QED BY <2>1, <2>2, <2>4
<1> QED BY <1>1, <1>4, LiveAnswers DEF AnswerIs

(* ... or another frame.                                                   *)
LEMMA LiveOther ==
    ASSUME AskTypeInv, IdsHold, TurnsHold, LiveHold, NEW r \in Runs,
           UNCHANGED <<page, run>>, answer[r].phase # "over",
           NEW phase, NEW finished, NEW session, NEW citations,
           NEW f \in FrameSet, f.type # "delta",
           citations = answer[r].citations \union
               (IF f.type = "citations" THEN f.value ELSE {}),
           \A k \in DOMAIN answer[r].session :
               k \in DOMAIN session /\ session[k] = answer[r].session[k],
           AnswerIs(r, phase, session, answer[r].text, citations, finished),
           Sends(r, f)
    PROVE  LiveHold'
<1>1. \A q \in Runs \ {r} : wire'[q] = wire[q]
    BY DEF Sends, OnlyWire
<1>2. answer[r] \in Answer /\ wire[r] \in Seq(FrameSet)
    BY DEF AskTypeInv
<1>3. ASSUME NEW turn \in Turn, ~answer[r].closed,
             InStep(turn, answer[r], wire[r])
      PROVE  InStep(turn, answer'[r], wire'[r])
  <2>1. wire'[r] = Append(wire[r], f)
    BY <1>3 DEF Sends
  <2>2. PICK b : b = answer'[r]
    OBVIOUS
  <2>3. b.text = answer[r].text /\ b.citations = citations /\ b.session = session
    BY <2>2 DEF AnswerIs
  <2>4. InStep(turn, b, Append(wire[r], f))
    BY <1>2, <1>3, <2>3, InStepOther
  <2> QED BY <2>1, <2>2, <2>4
<1> QED BY <1>1, <1>3, LiveAnswers DEF AnswerIs

LEMMA LiveEnd ==
    ASSUME AskTypeInv, IdsHold, TurnsHold, LiveHold, NEW r \in Runs, Active(r),
           NEW state \in States, Ends(r, state), UNCHANGED <<answer, wire>>
    PROVE  LiveHold'
<1>1. [OwnTurn(r) EXCEPT !.state = state] \in Turn
    BY OwnTurnType DEF Turn
<1>2. ~Live(r)'
    BY DEF Ends, EndedRun, IdleRun, Live, Active
<1>3. /\ page'.turns = ChangeTurn(r, [OwnTurn(r) EXCEPT !.state = state])
      /\ page'.latestReadId = page.latestReadId /\ OnlyRun(r)
    BY DEF Ends
<1> QED BY <1>1, <1>2, <1>3, LiveOnly

LEMMA LiveRead ==
    ASSUME AskTypeInv, AnswersHold, IdsHold, AnswersFollow, TurnsHold, ShownHold,
           LiveHold, DoneIsLast, NEW r \in Runs, ReadFrame(r), ~Ends(r, "error")
    PROVE  LiveHold'
<1> DEFINE w == wire[r]
           a == answer[r]
<1>0. /\ w \in Seq(FrameSet) /\ w[1] \in FrameSet /\ w # <<>>
      /\ a \in Answer /\ AnswerHolds(a) /\ run[r].phase = "stream" /\ Active(r)
    BY ReadFrameEffect DEF AskTypeInv, AnswersHold, Active
<1>1. /\ OnlyWire(r) /\ wire'[r] = Tail(w) /\ answer' = answer
      /\ page'.turns = ChangeTurn(r, ApplyFrame(OwnTurn(r), w[1]))
      /\ page'.latestReadId = page.latestReadId
      /\ OnlyRun(r)
      /\ run'[r].phase = run[r].phase /\ run'[r].runId = run[r].runId
      /\ run'[r].turnIndex = run[r].turnIndex
      /\ run'[r].sawDone = (w[1].type = "done" \/ run[r].sawDone)
    BY ReadFrameEffect
<1> HIDE DEF w, a
<1>2. PICK own \in Turn : own = OwnTurn(r)
    BY OwnTurnType
<1>3. PICK t \in Turn : t = ApplyFrame(own, w[1])
    BY <1>0, <1>2, ApplyFrameType
<1>4. ASSUME Live(r)' PROVE LiveTurnHolds(r)'
  <2>1. Current(r)
    BY <1>1, <1>4 DEF Live, Current
  <2>2. /\ Live(r) /\ own = page.turns[run[r].turnIndex] /\ own.run = r
        /\ run[r].turnIndex \in DOMAIN page.turns
    BY <1>0, <1>2, <2>1, OwnIsShown
  <2>3. /\ own.state = "running" /\ (~a.closed => InStep(own, a, w))
        /\ ~run[r].sawDone /\ ShownTurnHolds(own)
    BY <1>0, <2>2 DEF LiveHold, LiveTurnHolds, ShownHold, w, a
  <2>4. ~a.closed
    BY <1>0 DEF AnswersFollow, AnswerFollows, w, a
  <2>5. /\ InStep(t, a, Tail(w))
        /\ Tail(w) = <<>> /\ w[1].type # "delta" => t.text = a.text
    BY <1>0, <1>3, <2>2, <2>3, <2>4, InStepRead DEF ShownTurnHolds, a
  <2>6. t.state = "running"
    BY <1>0, <1>3, <2>3, ApplyFrameType
  <2>7. ASSUME w[1].type = "done"
        PROVE  Tail(w) = <<>> /\ a.phase = "over" /\ t.text = a.text
    <3>1. 1 \in DOMAIN w /\ Len(w) = Len(Tail(w)) + 1 /\ Len(Tail(w)) \in Nat
      BY <1>0, FramesTail
    <3>2. Len(w) = 1 /\ a.phase = "over"
      BY <2>7, <3>1 DEF DoneIsLast, w, a
    <3>3. Tail(w) \in Seq(FrameSet)
      BY <1>0, FramesTail
    <3>a. Len(Tail(w)) = 0
      BY <3>1, <3>2
    <3>4. Tail(w) = <<>>
      BY <3>3, <3>a, EmptySeq
    <3> QED BY <2>5, <2>7, <3>2, <3>4
  <2>8. page'.turns[run'[r].turnIndex] = t
    <3>1. /\ DOMAIN page'.turns = DOMAIN page.turns
          /\ \A i \in DOMAIN page'.turns :
                 page'.turns[i] = IF Current(r) /\ i = run[r].turnIndex
                                  THEN t ELSE page.turns[i]
      BY <1>1, <1>2, <1>3, ChangeTurnType
    <3> QED BY <1>1, <2>1, <2>2, <3>1
  <2>9. /\ answer'[r] = a /\ wire'[r] = Tail(w)
        /\ run'[r].sawDone => w[1].type = "done"
    BY <1>1, <2>3 DEF a
  <2> QED BY <2>5, <2>6, <2>7, <2>8, <2>9 DEF LiveTurnHolds
<1>5. \A q \in Runs \ {r} : answer'[q] = answer[q] /\ wire'[q] = wire[q]
    BY <1>1 DEF OnlyWire
<1>6. page'.turns = ChangeTurn(r, t)
    BY <1>1, <1>2, <1>3
<1> QED BY <1>0, <1>1, <1>4, <1>5, <1>6, LiveOnly

LEMMA LiveAsk ==
    ASSUME BaseInv, AnswersFollow, NEW r \in Runs, AskQuestion(r)
    PROVE  LiveHold'
<1>0. AskTypeInv /\ IdsHold
    BY DEF BaseInv
<1>1. /\ run[r].phase = "idle"
      /\ page'.turns = Append(page.turns, NewTurn(r))
      /\ page'.latestReadId = page.latestReadId + 1
      /\ OnlyRun(r) /\ run'[r].turnIndex = Len(page.turns) + 1
      /\ run'[r].sawDone = FALSE
      /\ UNCHANGED <<answer, wire>>
    BY <1>0, AskQuestionEffect
<1>2. page'.turns[run'[r].turnIndex] = NewTurn(r)
    BY <1>0, <1>1, TurnTypes, NewTurnType, AppendProperties
<1>3. /\ NewTurn(r).state = "running" /\ NewTurn(r).text = <<>>
      /\ NewTurn(r).citations = {}
    BY DEF NewTurn
<1>4. answer'[r] = NoAnswer /\ wire'[r] = <<>>
    BY <1>1 DEF AnswersFollow, AnswerFollows
<1>5. InStep(NewTurn(r), NoAnswer, <<>>)
  <2>1. /\ NoAnswer.text = <<>> /\ NoAnswer.citations = {}
        /\ Len(<<>>) = 0 /\ DOMAIN <<>> = {}
    BY DEF NoAnswer
  <2>2. PICK at : at = [i \in 1..(0 + 1) |-> 0]
    OBVIOUS
  <2>a. at \in [1..(0 + 1) -> 0..0] /\ at[1] = 0 /\ at[0 + 1] = 0
    BY <2>2
  <2>3. Continues(<<>>, <<>>, <<>>)
    BY <2>1, <2>a DEF Continues
  <2>4. SentBefore(<<>>, 0 + 1) = {}
    BY DEF SentBefore
  <2> QED BY <1>3, <2>1, <2>3, <2>4 DEF InStep
<1>6. LiveTurnHolds(r)'
    BY <1>1, <1>2, <1>3, <1>4, <1>5 DEF LiveTurnHolds
<1>7. ASSUME NEW q \in Runs \ {r} PROVE ~Live(q)'
  <2>1. Active(q) => run[q].runId \in 1..page.latestReadId
    BY <1>0 DEF IdsHold
  <2>2. run'[q] = run[q] /\ page.latestReadId \in Nat
    BY <1>0, <1>1 DEF OnlyRun, AskTypeInv, Page
  <2> QED BY <1>1, <2>1, <2>2 DEF Live, Active, Current
<1> QED BY <1>6, <1>7 DEF LiveHold

LEMMA LiveStep ==
    ASSUME BaseInv, ShowInv, Next
    PROVE  LiveHold'
<1>0. /\ AskTypeInv /\ AnswersHold /\ IdsHold /\ AnswersFollow /\ TurnsHold
      /\ StoredHold /\ ShownHold /\ LiveHold /\ DoneIsLast
      /\ \A r \in Runs : AnswerHolds(answer[r])
    BY DEF BaseInv, ShowInv, AnswersHold
<1>1. ASSUME page'.turns = page.turns, page'.latestReadId = page.latestReadId,
             UNCHANGED <<run, answer, wire>>
      PROVE  LiveHold'
    BY <1>0, <1>1, LiveTurnKept DEF LiveHold, Live, Active, Current
<1>2. ASSUME NEW r \in Runs, AskQuestion(r) PROVE LiveHold'
    BY <1>0, <1>2, LiveAsk
<1>3. ASSUME NEW r \in Runs, OnlyRun(r), run[r].phase \notin {"idle", "ended"},
             run'[r].runId = run[r].runId,
             run'[r].turnIndex = run[r].turnIndex,
             run'[r].sawDone = run[r].sawDone,
             page'.turns = page.turns, page'.latestReadId = page.latestReadId,
             UNCHANGED <<answer, wire>>
      PROVE  LiveHold'
  <2>1. ASSUME Live(r)' PROVE LiveTurnHolds(r)'
    <3>1. LiveTurnHolds(r)
      BY <1>0, <1>3, <2>1 DEF Live, Active, Current, LiveHold
    <3> QED BY <1>3, <3>1, LiveTurnKept
  <2>2. PICK turn \in Turn : turn = OwnTurn(r)
    BY <1>0, OwnTurnType
  <2> QED BY <1>0, <1>3, <2>1, <2>2, LiveOnly
<1>4. ASSUME NEW r \in Runs, NEW c \in Chats, CreateChat(r, c) PROVE LiveHold'
    BY <1>0, <1>3, <1>4, CreateChatEffect
<1>5. ASSUME NEW r \in Runs, OpenCreatedChat(r) PROVE LiveHold'
    BY <1>0, <1>3, <1>5, OpenCreatedChatEffect DEF Moves
<1>6. ASSUME NEW r \in Runs, PostTurn(r) PROVE LiveHold'
  <2>1. /\ run[r].phase = "post" /\ Moves(r, "stream") /\ OnlyAnswer(r)
        /\ answer'[r] = [NoAnswer EXCEPT !.phase = "sent", !.chat = run[r].chat]
        /\ UNCHANGED <<page, wire>>
    BY <1>0, <1>6, PostTurnEffect
  <2>2. answer[r] = NoAnswer
    BY <1>0, <2>1 DEF AnswersFollow, AnswerFollows
  <2>3. /\ answer[r].phase = "none" /\ answer'[r].text = answer[r].text
        /\ answer'[r].citations = answer[r].citations
        /\ answer'[r].session = answer[r].session
        /\ answer'[r].closed = answer[r].closed
    BY <2>1, <2>2 DEF NoAnswer
  <2>4. ASSUME Live(r)' PROVE LiveTurnHolds(r)'
    <3>1. LiveTurnHolds(r)
      BY <1>0, <2>1, <2>4 DEF Moves, Live, Active, Current, LiveHold
    <3>2. PICK turn : turn = page.turns[run[r].turnIndex]
      OBVIOUS
    <3>3. /\ turn.state = "running" /\ ~run[r].sawDone
          /\ ~answer[r].closed => InStep(turn, answer[r], wire[r])
      BY <2>3, <3>1, <3>2 DEF LiveTurnHolds
    <3>4. ~answer'[r].closed => InStep(turn, answer'[r], wire'[r])
      BY <2>1, <2>3, <3>3 DEF InStep, Resolved
    <3> QED BY <2>1, <3>2, <3>3, <3>4 DEF LiveTurnHolds, Moves
  <2>5. PICK turn \in Turn : turn = OwnTurn(r)
    BY <1>0, OwnTurnType
  <2> QED BY <1>0, <2>1, <2>4, <2>5, LiveOnly DEF Moves, OnlyAnswer
<1>7. ASSUME NEW r \in Runs, FailRequest(r) PROVE LiveHold'
    BY <1>0, <1>7, FailRequestEffect, LiveEnd DEF Active, States
<1>8. ASSUME NEW r \in Runs, ReadFrame(r) PROVE LiveHold'
  <2>1. CASE ~Ends(r, "error")
    BY <1>0, <1>8, <2>1, LiveRead
  <2>2. CASE Ends(r, "error")
    <3>1. /\ run[r].phase = "stream" /\ OnlyWire(r) /\ answer' = answer
      BY <1>0, <1>8, ReadFrameEffect
    <3>2. [OwnTurn(r) EXCEPT !.state = "error"] \in Turn
      BY <1>0, OwnTurnType DEF Turn, States
    <3>3. ~Live(r)' /\ Active(r)
      BY <2>2, <3>1 DEF Ends, EndedRun, IdleRun, Live, Active
    <3>4. /\ page'.turns = ChangeTurn(r, [OwnTurn(r) EXCEPT !.state = "error"])
          /\ page'.latestReadId = page.latestReadId /\ OnlyRun(r)
      BY <2>2 DEF Ends
    <3>5. \A q \in Runs \ {r} : answer'[q] = answer[q] /\ wire'[q] = wire[q]
      BY <3>1 DEF OnlyWire
    <3> QED BY <1>0, <3>2, <3>3, <3>4, <3>5, LiveOnly
  <2> QED BY <2>1, <2>2
<1>9. ASSUME NEW r \in Runs, EndStream(r) PROVE LiveHold'
  <2>1. /\ run[r].phase = "stream" /\ Ends(r, StateAtEnd(r))
        /\ StateAtEnd(r) \in States /\ UNCHANGED <<answer, wire>>
    BY <1>0, <1>9, EndStreamEffect DEF States
  <2> QED BY <1>0, <2>1, LiveEnd DEF Active
<1>10. ASSUME NEW r \in Runs, DropStream(r) PROVE LiveHold'
  <2>1. /\ OnlyAnswer(r) /\ answer'[r] = [answer[r] EXCEPT !.closed = TRUE]
        /\ OnlyWire(r) /\ wire'[r] = <<>> /\ UNCHANGED <<page, run>>
        /\ answer[r] \in Answer
    BY <1>0, <1>10, DropStreamEffect DEF AskTypeInv
  <2>2. /\ answer'[r].closed /\ answer'[r].text = answer[r].text
        /\ answer'[r].phase = answer[r].phase
    BY <2>1 DEF Answer
  <2>3. ASSUME Live(r)' PROVE LiveTurnHolds(r)'
    <3>1. LiveTurnHolds(r)
      BY <1>0, <2>1, <2>3 DEF Live, Active, Current, LiveHold
    <3> QED BY <2>1, <2>2, <3>1 DEF LiveTurnHolds
  <2>4. ASSUME NEW q \in Runs \ {r}, Live(q)' PROVE LiveTurnHolds(q)'
    <3>1. LiveTurnHolds(q)
      BY <1>0, <2>1, <2>4 DEF Live, Active, Current, LiveHold
    <3> QED BY <2>1, <3>1, LiveTurnKept DEF OnlyAnswer, OnlyWire
  <2> QED BY <2>3, <2>4 DEF LiveHold
<1>11. ASSUME NEW r \in Runs, StartTurn(r) PROVE LiveHold'
  <2>1. answer[r].phase = "sent" /\ UNCHANGED <<page, run>>
    BY <1>0, <1>11, StartTurnEffect
  <2>2. CASE /\ AnswerIs(r, "model", answer[r].session, answer[r].text,
                         answer[r].citations, answer[r].finished)
             /\ UNCHANGED wire
    BY <1>0, <2>1, <2>2, LiveQuiet
  <2>3. CASE /\ AnswerIs(r, "over", answer[r].session, answer[r].text,
                         answer[r].citations, answer[r].finished)
             /\ Sends(r, Frame("error", <<>>))
    <3>1. PICK f \in FrameSet : f = Frame("error", <<>>) /\ f.type = "error"
      BY EndFrame
    <3> QED BY <1>0, <2>1, <2>3, <3>1, LiveOther
  <2> QED BY <1>0, <1>11, <2>2, <2>3, StartTurnEffect
<1>12. ASSUME NEW r \in Runs, EndAnswer(r) PROVE LiveHold'
    BY <1>0, <1>12, EndAnswerEffect, LiveQuiet
<1>13. ASSUME NEW r \in Runs, NotSettled(r) PROVE LiveHold'
    BY <1>0, <1>13, NotSettledEffect, LiveDelta
<1>14. ASSUME NEW r \in Runs, NEW number \in Nat, StreamDelta(r, number)
       PROVE  LiveHold'
    BY <1>0, <1>14, StreamDeltaEffect, LiveDelta
<1>15. ASSUME NEW r \in Runs, NEW more \in BOOLEAN, NEW results \in Results,
              SearchDocumentChunks(r, results, more)
       PROVE  LiveHold'
  <2>1. PICK session \in Session, phase \in {"model", "tools"},
             cited \in SUBSET Citation :
            /\ SessionIsSound(session)
            /\ DOMAIN answer[r].session \subseteq DOMAIN session
            /\ \A k \in DOMAIN answer[r].session :
                   session[k] = answer[r].session[k]
            /\ answer[r].citations \union cited
                   = Numbered(session, DOMAIN session)
            /\ NumbersOf(answer[r].session) \subseteq NumbersOf(session)
            /\ answer[r].phase \in {"model", "tools"}
            /\ AnswerIs(r, phase, session, answer[r].text,
                        answer[r].citations \union cited, answer[r].finished)
            /\ Sends(r, Frame("citations", cited))
            /\ UNCHANGED <<page, run, reads, stored, leaving>>
    BY <1>0, <1>15, SearchEffect
  <2>2. PICK f \in FrameSet : /\ f = Frame("citations", cited)
                              /\ f.type = "citations" /\ f.value = cited
    BY CitationsFrameType
  <2> QED BY <1>0, <2>1, <2>2, LiveOther
<1>16. ASSUME NEW r \in Runs, NEW more \in BOOLEAN, RunTool(r, more)
       PROVE  LiveHold'
  <2>1. PICK phase \in {"model", "tools"} :
            AnswerIs(r, phase, answer[r].session, answer[r].text,
                     answer[r].citations, answer[r].finished)
    BY <1>0, <1>16, RunToolEffect
  <2>2. answer[r].phase # "over" /\ UNCHANGED <<page, run, wire>>
    BY <1>0, <1>16, RunToolEffect
  <2> QED BY <1>0, <2>1, <2>2, LiveQuiet
<1>17. ASSUME NEW r \in Runs, NEW outcome \in {"done", "error"},
              CompleteTurn(r, outcome)
       PROVE  LiveHold'
  <2>1. PICK t \in {"done", "error"} : Sends(r, Frame(t, <<>>))
    BY <1>0, <1>17, CompleteTurnEffect
  <2>2. /\ answer[r].phase # "over" /\ UNCHANGED <<page, run>>
        /\ AnswerIs(r, "over", answer[r].session, answer[r].text,
                    answer[r].citations, answer[r].finished)
    BY <1>0, <1>17, CompleteTurnEffect
  <2>3. PICK f \in FrameSet : f = Frame(t, <<>>) /\ f.type = t
    BY EndFrame
  <2> QED BY <1>0, <2>1, <2>2, <2>3, LiveOther
<1>18. ASSUME NEW c \in Chats \union {NoChat}, Switches(c), run' = run
       PROVE  LiveHold'
  <2>1. page'.latestReadId = page.latestReadId + 1
    BY <1>18 DEF Switches
  <2>2. \A q \in Runs : ~Live(q)'
    BY <1>0, <1>18, <2>1 DEF IdsHold, Live, Active, Current, AskTypeInv, Page
  <2> QED BY <2>2 DEF LiveHold
<1>19. ASSUME NEW c \in Chats \union {NoChat}, OpenChat(c) PROVE LiveHold'
    BY <1>0, <1>18, <1>19, OpenChatEffect
<1>20. ASSUME NEW d \in leaving, LeaveDeletedChat(d) PROVE LiveHold'
    BY <1>0, <1>1, <1>18, <1>20, LeaveDeletedChatEffect
<1>21. ASSUME NEW read \in reads, ReceiveChat(read) PROVE LiveHold'
  <2>1. /\ UNCHANGED <<run, answer, wire>>
        /\ \/ page' = page
           \/ LatestRead(read) /\ page'.latestReadId = page.latestReadId
    BY <1>0, <1>21, ReceiveChatEffect
  <2>2. CASE page' = page
    BY <1>1, <2>1, <2>2
  <2>3. CASE LatestRead(read) /\ page'.latestReadId = page.latestReadId
    <3>1. \A q \in Runs : ~Live(q)'
      BY <1>0, <2>1, <2>3 DEF IdsHold, Live, Active, Current
    <3> QED BY <3>1 DEF LiveHold
  <2> QED BY <2>1, <2>2, <2>3
<1>22. ASSUME NEW c \in Chats, DeleteChat(c) PROVE LiveHold'
    BY <1>0, <1>1, <1>22, DeleteChatEffect
<1> QED BY Steps, <1>2, <1>4, <1>5, <1>6, <1>7, <1>8, <1>9, <1>10, <1>11, <1>12,
           <1>13, <1>14, <1>15, <1>16, <1>17, <1>19, <1>20, <1>21, <1>22

-----------------------------------------------------------------------------
LEMMA ShowInit == Init => ShowInv
<1> SUFFICES ASSUME Init PROVE ShowInv
    OBVIOUS
<1>1. /\ page.turns = <<>> /\ run = [r \in Runs |-> IdleRun]
      /\ stored = [c \in Chats |-> NoTurns] /\ wire = [r \in Runs |-> <<>>]
    BY DEF Init
<1>2. \A r \in Runs : ~Live(r)
    BY <1>1 DEF Live, Active, IdleRun
<1>3. TurnsHold /\ LiveHold /\ ShownHold
    BY <1>1, <1>2 DEF TurnsHold, LiveHold, ShownHold
<1>4. StoredHold
    BY <1>1 DEF StoredHold, NoTurns
<1>5. DoneIsLast
    BY <1>1 DEF DoneIsLast
<1> QED BY FollowInit, AnswersInit, <1>3, <1>4, <1>5 DEF ShowInv

LEMMA ShowStutter ==
    ASSUME ShowInv, UNCHANGED vars
    PROVE  ShowInv'
<1>1. AnswersFollow' /\ AnswersHold'
    BY DEF vars, ShowInv, AnswersFollow, AnswerFollows, AnswersHold
<1>2. TurnsHold' /\ StoredHold'
    BY DEF vars, ShowInv, TurnsHold, TurnOfARun, StoredHold, StoredTurnHolds,
       Live, Active, Current
<1>3. ShownHold' /\ LiveHold' /\ DoneIsLast'
    BY DEF vars, ShowInv, ShownHold, ShownTurnHolds, LiveHold, LiveTurnHolds,
       DoneIsLast, Live, Active, Current
<1> QED BY <1>1, <1>2, <1>3 DEF ShowInv

LEMMA ShowInvHolds == Spec => []ShowInv
<1>1. BaseInv /\ ShowInv /\ [Next]_vars => ShowInv'
  <2> SUFFICES ASSUME BaseInv, ShowInv, [Next]_vars PROVE ShowInv'
    OBVIOUS
  <2>1. CASE Next
    <3>1. /\ AskTypeInv /\ AnswersHold /\ AnswersFollow /\ TurnsHold
          /\ StoredHold /\ DoneIsLast
      BY DEF BaseInv, ShowInv
    <3>2. AnswersFollow' /\ AnswersHold'
      BY <2>1, <3>1, FollowStep, AnswersStep
    <3>3. TurnsHold' /\ StoredHold'
      BY <2>1, <3>1, TurnsStep, StoredStep
    <3>4. ShownHold' /\ LiveHold' /\ DoneIsLast'
      BY <2>1, <3>1, ShownStep, LiveStep, DoneStep
    <3> QED BY <3>2, <3>3, <3>4 DEF ShowInv
  <2>2. CASE UNCHANGED vars
    BY <2>2, ShowStutter
  <2> QED BY <2>1, <2>2
<1> QED BY <1>1, ShowInit, BaseInvHolds, PTL DEF Spec

(* A turn the database calls done holds the whole text of an answer that   *)
(* finished (the finally block of streamTurn in chat/chat.controller.ts),  *)
(* for any number of chats and answers: a stream that stops between two    *)
(* frames, a model call that throws and a chat deleted meanwhile store     *)
(* nothing as done.                                                        *)
THEOREM DoneTurnsAreWhole == Spec => []StoredTurnsAreWhole
<1>1. ShowInv => StoredTurnsAreWhole
    BY DEF ShowInv, StoredHold, StoredTurnHolds, StoredTurnsAreWhole
<1> QED BY <1>1, ShowInvHolds, PTL

LEMMA StartsIsPrefix ==
    ASSUME NEW s \in Seq(Nat), NEW t \in Seq(Nat), Starts(s, t)
    PROVE  IsPrefix(s, t)
<1>1. /\ Len(s) \in Nat /\ Len(t) \in Nat /\ Len(s) <= Len(t)
      /\ DOMAIN s = 1..Len(s) /\ \A i \in 1..Len(s) : s[i] = t[i]
    BY LenProperties DEF Starts
<1>2. /\ SubSeq(t, 1, Len(s)) \in Seq(Nat)
      /\ Len(SubSeq(t, 1, Len(s))) = Len(s)
      /\ \A i \in 1..Len(s) : SubSeq(t, 1, Len(s))[i] = t[i]
    BY <1>1, SubSeqProperties
<1>3. s = SubSeq(t, 1, Len(s))
    BY <1>1, <1>2, SeqEqual
<1> QED BY <1>1, <1>3 DEF IsPrefix

(* What a turn on the page shows is the start of what its own answer       *)
(* wrote, and all of it once the page calls it done (changeTurn and the    *)
(* done frame in open-chat.ts): no answer writes into a turn of another,   *)
(* no piece is lost, repeated or out of order, whatever chats the person   *)
(* opens and whichever connections go meanwhile.                           *)
THEOREM ShownTextIsTheAnswers == Spec => []ShownTextIsItsAnswers
<1>1. BaseInv /\ ShowInv => ShownTextIsItsAnswers
  <2> SUFFICES ASSUME BaseInv, ShowInv, NEW i \in DOMAIN page.turns
               PROVE  LET turn == page.turns[i]
                      IN  /\ IsPrefix(turn.text, answer[turn.run].text)
                          /\ turn.state = "done" =>
                                 /\ turn.text = answer[turn.run].text
                                 /\ answer[turn.run].phase = "over"
    BY DEF ShownTextIsItsAnswers
  <2>1. PICK turn : turn = page.turns[i]
    OBVIOUS
  <2>2. turn \in Turn /\ turn.run \in Runs
    BY <2>1, TurnTypes DEF BaseInv
  <2>3. turn.text \in Seq(Nat) /\ answer[turn.run].text \in Seq(Nat)
    BY <2>2 DEF BaseInv, AskTypeInv, Answer, Turn
  <2>4. ShownTurnHolds(turn)
    BY <2>1 DEF ShowInv, ShownHold
  <2>5. IsPrefix(turn.text, answer[turn.run].text)
    BY <2>3, <2>4, StartsIsPrefix DEF ShownTurnHolds
  <2> QED BY <2>1, <2>4, <2>5 DEF ShownTurnHolds
<1> QED BY <1>1, BaseInvHolds, ShowInvHolds, PTL

(* A number the person reads has one citation beside the text, and it is   *)
(* the chunk the model read under that number (ToolSession.cite and the    *)
(* citations frames of chat/agent.loop.ts), for any number of searches and *)
(* chunks: a chunk keeps its number through an answer, no two share one,   *)
(* and the frame that brings a citation is before the text that uses it.   *)
THEOREM ShownCitationsResolve == Spec => []CitationsResolve
<1>1. BaseInv /\ ShowInv => CitationsResolve
  <2> SUFFICES ASSUME BaseInv, ShowInv, NEW i \in DOMAIN page.turns
               PROVE  LET turn == page.turns[i]
                      IN  \A n \in ToSet(turn.text) \ {0} :
                              \E k \in DOMAIN answer[turn.run].session :
                                  /\ answer[turn.run].session[k] = n
                                  /\ {c \in turn.citations : c[1] = n}
                                         = {<<n, k>>}
    BY DEF CitationsResolve
  <2>1. PICK turn : turn = page.turns[i]
    OBVIOUS
  <2>2. turn \in Turn /\ turn.run \in Runs
    BY <2>1, TurnTypes DEF BaseInv
  <2>3. PICK a \in Answer : a = answer[turn.run]
    BY <2>2 DEF BaseInv, AskTypeInv
  <2>4. /\ turn.citations \subseteq a.citations
        /\ \A j \in DOMAIN turn.text :
               Resolved(turn.text[j], a, turn.citations)
    BY <2>1, <2>3 DEF ShowInv, ShownHold, ShownTurnHolds
  <2>5. /\ a.citations = Numbered(a.session, DOMAIN a.session)
        /\ \A k, l \in DOMAIN a.session : a.session[k] = a.session[l] => k = l
    BY <2>2, <2>3 DEF ShowInv, AnswersHold, AnswerHolds, SessionIsSound
  <2>6. ASSUME NEW n \in ToSet(turn.text) \ {0}
        PROVE  \E k \in DOMAIN a.session :
                   /\ a.session[k] = n
                   /\ {c \in turn.citations : c[1] = n} = {<<n, k>>}
    <3>1. PICK j \in DOMAIN turn.text : turn.text[j] = n
      BY <2>6 DEF ToSet
    <3>2. PICK k \in DOMAIN a.session :
              a.session[k] = n /\ <<n, k>> \in turn.citations
      BY <2>4, <2>6, <3>1 DEF Resolved
    <3>3. ASSUME NEW c \in turn.citations, c[1] = n PROVE c = <<n, k>>
      <4>1. PICK l \in DOMAIN a.session : c = <<a.session[l], l>>
        BY <2>4, <2>5 DEF Numbered
      <4>2. l = k
        BY <2>5, <3>2, <3>3, <4>1
      <4> QED BY <3>2, <4>1, <4>2
    <3>4. {c \in turn.citations : c[1] = n} = {<<n, k>>}
      BY <3>2, <3>3
    <3> QED BY <3>2, <3>4
  <2> QED BY <2>1, <2>3, <2>6
<1> QED BY <1>1, BaseInvHolds, ShowInvHolds, PTL

-----------------------------------------------------------------------------
(* The open chat.                                                          *)
LEMMA ThreadKept ==
    ASSUME ThreadInv, UNCHANGED undone,
           page'.openChatId = page.openChatId,
           page'.latestReadId = page.latestReadId,
           DOMAIN page'.turns = DOMAIN page.turns,
           \A i \in DOMAIN page.turns : page'.turns[i].run = page.turns[i].run,
           reads' \subseteq reads,
           \A q \in Runs :
               \/ run'[q] = run[q]
               \/ run'[q].phase = "ended"
               \/ /\ run'[q].phase = run[q].phase
                  /\ run'[q].runId = run[q].runId
                  /\ run'[q].chat = run[q].chat
               \/ /\ run[q].phase = "create" /\ run'[q].phase = "created"
                  /\ run'[q].runId = run[q].runId,
           \A i \in DOMAIN page.turns :
               LET q == page.turns[i].run
               IN  answer'[q].phase # "none" => /\ answer[q].phase # "none"
                                                /\ answer'[q].chat = answer[q].chat
    PROVE  ThreadInv'
<1>1. CreatedIsBlank'
  <2> SUFFICES ASSUME NEW q \in Runs, run'[q].phase \in {"create", "created"},
                      Current(q)', NEW i \in DOMAIN page'.turns
               PROVE  answer'[page'.turns[i].run].phase = "none"
    BY DEF CreatedIsBlank
  <2>1. run[q].phase \in {"create", "created"} /\ Current(q)
    BY DEF Current
  <2>2. answer[page.turns[i].run].phase = "none"
    BY <2>1 DEF ThreadInv, CreatedIsBlank
  <2> QED BY <2>2
<1>2. ASSUME LiveIsOpen PROVE LiveIsOpen'
  <2>1. ASSUME NEW q \in Runs, Live(q)', run'[q].phase \in {"post", "stream"}
        PROVE  run'[q].chat = page'.openChatId
    <3>1. /\ run'[q].phase = run[q].phase /\ run'[q].runId = run[q].runId
          /\ run'[q].chat = run[q].chat
      BY <2>1
    <3> QED BY <1>2, <2>1, <3>1 DEF LiveIsOpen, Live, Active, Current
  <2>2. ASSUME NEW read \in reads', LatestRead(read)'
        PROVE  read.chat = page'.openChatId
    BY <1>2, <2>2 DEF LiveIsOpen, LatestRead
  <2> QED BY <2>1, <2>2 DEF LiveIsOpen
<1>3. ASSUME ThreadIsTheOpenChat PROVE ThreadIsTheOpenChat'
    BY <1>3 DEF ThreadIsTheOpenChat
<1> QED BY <1>1, <1>2, <1>3 DEF ThreadInv

LEMMA ThreadAsk ==
    ASSUME ThreadInv, BaseInv, ShowInv, NEW r \in Runs, AskQuestion(r)
    PROVE  ThreadInv'
<1>0. AskTypeInv /\ IdsHold /\ AnswersFollow
    BY DEF BaseInv, ShowInv
<1>1. /\ run[r].phase = "idle" /\ ~page.isRunning
      /\ page'.turns = Append(page.turns, NewTurn(r))
      /\ page'.openChatId = page.openChatId
      /\ page'.latestReadId = page.latestReadId + 1
      /\ OnlyRun(r)
      /\ run'[r].phase = IF page.openChatId = NoChat THEN "create" ELSE "post"
      /\ run'[r].runId = page.latestReadId + 1
      /\ run'[r].chat = page.openChatId
      /\ UNCHANGED <<reads, answer>>
    BY <1>0, AskQuestionEffect
<1>u. UNCHANGED undone
    BY DEF AskQuestion
<1>2. page.latestReadId \in Nat
    BY <1>0 DEF AskTypeInv, Page
<1>3. \A q \in Runs : ~Live(q)
    BY <1>0, <1>1, NothingLive
<1>4. ASSUME NEW q \in Runs \ {r} PROVE ~Live(q)' /\ run'[q] = run[q]
  <2>1. Active(q) => run[q].runId \in 1..page.latestReadId
    BY <1>0 DEF IdsHold
  <2>2. run'[q] = run[q]
    BY <1>1 DEF OnlyRun
  <2> QED BY <1>1, <1>2, <2>1, <2>2 DEF Live, Active, Current
<1>5. /\ DOMAIN page'.turns = 1..(Len(page.turns) + 1)
      /\ \A i \in DOMAIN page.turns : page'.turns[i] = page.turns[i]
      /\ page'.turns[Len(page.turns) + 1] = NewTurn(r)
      /\ DOMAIN page.turns = 1..Len(page.turns) /\ Len(page.turns) \in Nat
    BY <1>0, <1>1, TurnTypes, NewTurnType, AppendProperties, LenProperties
<1>6. NewTurn(r).run = r /\ answer'[r].phase = "none"
    BY <1>0, <1>1 DEF NewTurn, AnswersFollow, AnswerFollows
<1>7. CreatedIsBlank'
  <2> SUFFICES ASSUME NEW q \in Runs, run'[q].phase \in {"create", "created"},
                      Current(q)', NEW i \in DOMAIN page'.turns
               PROVE  answer'[page'.turns[i].run].phase = "none"
    BY DEF CreatedIsBlank
  <2>1. q = r
    BY <1>4 DEF Live, Active
  <2>2. page.openChatId = NoChat
    BY <1>1, <2>1
  <2>3. CASE i \in DOMAIN page.turns
    <3>1. page.turns[i].run \in Runs
      BY <1>0, <2>3, TurnTypes
    <3>2. answer[page.turns[i].run].phase # "none" =>
              /\ answer[page.turns[i].run].chat = NoChat
              /\ answer[page.turns[i].run].chat \in Chats
      BY <1>0, <2>2, <2>3, <3>1
         DEF ThreadInv, ThreadIsTheOpenChat, AnswersFollow, AnswerFollows
    <3>3. answer[page.turns[i].run].phase = "none"
      BY <3>2, AskAssumption
    <3> QED BY <1>1, <1>5, <2>3, <3>3
  <2>4. CASE i \notin DOMAIN page.turns
    <3>1. i = Len(page.turns) + 1
      BY <1>5, <2>4
    <3> QED BY <1>5, <1>6, <3>1
  <2> QED BY <2>3, <2>4
<1>8. \A read \in reads : ~LatestRead(read)'
  <2>1. \A read \in reads : read.readId \in 1..page.latestReadId
    BY <1>0 DEF IdsHold
  <2> QED BY <1>1, <1>2, <2>1 DEF LatestRead
<1>9. LiveIsOpen'
    BY <1>1, <1>4, <1>8 DEF LiveIsOpen
<1>10. ASSUME ThreadIsTheOpenChat PROVE ThreadIsTheOpenChat'
  <2> SUFFICES ASSUME NEW i \in DOMAIN page'.turns,
                      answer'[page'.turns[i].run].phase # "none"
               PROVE  answer'[page'.turns[i].run].chat = page'.openChatId
    BY DEF ThreadIsTheOpenChat
  <2>1. CASE i \in DOMAIN page.turns
    BY <1>1, <1>5, <1>10, <2>1 DEF ThreadIsTheOpenChat
  <2>2. CASE i \notin DOMAIN page.turns
    <3>1. i = Len(page.turns) + 1
      BY <1>5, <2>2
    <3> QED BY <1>5, <1>6, <3>1
  <2> QED BY <2>1, <2>2
<1> QED BY <1>1, <1>u, <1>7, <1>9, <1>10 DEF ThreadInv

(* A created chat is the thread's when its question is the latest; when it *)
(* is not, it undoes a switch.                                             *)
LEMMA ThreadCreated ==
    ASSUME ThreadInv, BaseInv, ShowInv, NEW r \in Runs, OpenCreatedChat(r)
    PROVE  ThreadInv'
<1>0. AskTypeInv /\ IdsHold /\ AnswersFollow
    BY DEF BaseInv, ShowInv
<1>1. /\ run[r].phase = "created" /\ Moves(r, "post")
      /\ page'.openChatId = run[r].chat /\ page'.turns = page.turns
      /\ page'.latestReadId = page.latestReadId
      /\ UNCHANGED <<reads, answer>>
    BY <1>0, OpenCreatedChatEffect
<1>u. undone' = ~Current(r)
    BY DEF OpenCreatedChat
<1>2. page'.openChatId # NoChat
    BY <1>0, <1>1, AskAssumption DEF AnswersFollow, AnswerFollows
<1>3. \A q \in Runs \ {r} : run'[q] = run[q]
    BY <1>1 DEF Moves, OnlyRun
<1>4. run'[r].phase = "post" /\ run'[r].chat = run[r].chat
    BY <1>1 DEF Moves
<1>5. CreatedIsBlank'
  <2> SUFFICES ASSUME NEW q \in Runs, run'[q].phase \in {"create", "created"},
                      Current(q)'
               PROVE  \A i \in DOMAIN page'.turns :
                          answer'[page'.turns[i].run].phase = "none"
    BY DEF CreatedIsBlank
  <2>1. q # r /\ run'[q] = run[q]
    BY <1>3, <1>4
  <2>2. run[q].phase \in {"create", "created"} /\ Current(q)
    BY <1>1, <2>1 DEF Current
  <2> QED BY <1>1, <2>2 DEF ThreadInv, CreatedIsBlank
<1>6. CASE ~Current(r)
  <2>1. undone'
    BY <1>6, <1>u
  <2> QED BY <1>2, <1>5, <2>1 DEF ThreadInv
<1>7. CASE Current(r)
  <2>1. Live(r)
    BY <1>1, <1>7 DEF Live, Active
  <2>2. \A q \in Runs \ {r} : ~Live(q)'
    BY <1>0, <1>1, <1>3, <2>1 DEF IdsHold, Live, Active, Current
  <2>3. \A read \in reads : ~LatestRead(read)
    BY <1>0, <2>1 DEF IdsHold
  <2>4. LiveIsOpen'
    BY <1>1, <1>4, <2>2, <2>3 DEF LiveIsOpen, LatestRead
  <2>5. \A i \in DOMAIN page.turns : answer[page.turns[i].run].phase = "none"
    BY <1>1, <1>7 DEF ThreadInv, CreatedIsBlank
  <2>6. ThreadIsTheOpenChat'
    BY <1>1, <2>5 DEF ThreadIsTheOpenChat
  <2> QED BY <1>2, <1>5, <2>4, <2>6 DEF ThreadInv
<1> QED BY <1>6, <1>7

LEMMA ThreadPost ==
    ASSUME ThreadInv, BaseInv, ShowInv, NEW r \in Runs, PostTurn(r)
    PROVE  ThreadInv'
<1>0. AskTypeInv /\ IdsHold /\ AnswersFollow /\ TurnsHold
    BY DEF BaseInv, ShowInv
<1>1. /\ run[r].phase = "post" /\ Moves(r, "stream") /\ OnlyAnswer(r)
      /\ answer'[r] = [NoAnswer EXCEPT !.phase = "sent", !.chat = run[r].chat]
      /\ UNCHANGED <<page, reads>>
    BY <1>0, PostTurnEffect
<1>u. UNCHANGED undone
    BY DEF PostTurn
<1>2. answer'[r].chat = run[r].chat /\ answer[r].phase = "none"
    BY <1>0, <1>1 DEF NoAnswer, AnswersFollow, AnswerFollows
<1>3. \A q \in Runs \ {r} : run'[q] = run[q] /\ answer'[q] = answer[q]
    BY <1>1 DEF Moves, OnlyRun, OnlyAnswer
<1>4. /\ run'[r].phase = "stream" /\ run'[r].runId = run[r].runId
      /\ run'[r].chat = run[r].chat
    BY <1>1 DEF Moves
<1>5. ASSUME NEW i \in DOMAIN page.turns
      PROVE  /\ page.turns[i].run \in Runs
             /\ page.turns[i].run = r => Live(r)
  <2>1. page.turns[i].run \in Runs
    BY <1>0, TurnTypes
  <2>2. TurnOfARun(i)
    BY <1>0 DEF TurnsHold
  <2> QED BY <1>1, <1>2, <2>1, <2>2 DEF TurnOfARun
<1>6. CreatedIsBlank'
  <2> SUFFICES ASSUME NEW q \in Runs, run'[q].phase \in {"create", "created"},
                      Current(q)', NEW i \in DOMAIN page'.turns
               PROVE  answer'[page'.turns[i].run].phase = "none"
    BY DEF CreatedIsBlank
  <2>1. q # r /\ run'[q] = run[q]
    BY <1>3, <1>4
  <2>2. run[q].phase \in {"create", "created"} /\ Current(q) /\ Live(q)
    BY <1>1, <2>1 DEF Live, Active, Current
  <2>3. ~Live(r)
    BY <1>0, <2>1, <2>2 DEF IdsHold
  <2>4. page.turns[i].run \in Runs \ {r}
    BY <1>1, <1>5, <2>3
  <2>5. answer[page.turns[i].run].phase = "none"
    BY <1>1, <2>2 DEF ThreadInv, CreatedIsBlank
  <2> QED BY <1>1, <1>3, <2>4, <2>5
<1>7. ASSUME LiveIsOpen PROVE LiveIsOpen'
  <2>1. ASSUME NEW q \in Runs, Live(q)', run'[q].phase \in {"post", "stream"}
        PROVE  run'[q].chat = page'.openChatId
    BY <1>1, <1>3, <1>4, <1>7, <2>1 DEF LiveIsOpen, Live, Active, Current
  <2>2. \A read \in reads' : LatestRead(read)' => read.chat = page'.openChatId
    BY <1>1, <1>7 DEF LiveIsOpen, LatestRead
  <2> QED BY <2>1, <2>2 DEF LiveIsOpen
<1>8. ASSUME LiveIsOpen, ThreadIsTheOpenChat PROVE ThreadIsTheOpenChat'
  <2> SUFFICES ASSUME NEW i \in DOMAIN page.turns,
                      answer'[page.turns[i].run].phase # "none"
               PROVE  answer'[page.turns[i].run].chat = page.openChatId
    BY <1>1 DEF ThreadIsTheOpenChat
  <2>1. CASE page.turns[i].run = r
    <3>1. Live(r)
      BY <1>5, <2>1
    <3> QED BY <1>1, <1>2, <1>8, <2>1, <3>1 DEF LiveIsOpen
  <2>2. CASE page.turns[i].run # r
    <3>1. page.turns[i].run \in Runs
      BY <1>5
    <3> QED BY <1>3, <1>8, <2>2, <3>1 DEF ThreadIsTheOpenChat
  <2> QED BY <2>1, <2>2
<1>9. page' = page
    BY <1>1
<1> QED BY <1>u, <1>6, <1>7, <1>8, <1>9 DEF ThreadInv

LEMMA ThreadSwitch ==
    ASSUME BaseInv, NEW c \in Chats \union {NoChat}, Switches(c), run' = run,
           undone' = FALSE,
           \A read \in reads' :
               read \in reads \/ read.chat = c
    PROVE  ThreadInv'
<1>0. AskTypeInv /\ IdsHold
    BY DEF BaseInv
<1>1. /\ page'.latestReadId = page.latestReadId + 1 /\ page'.openChatId = c
      /\ page'.turns = <<>> /\ page.latestReadId \in Nat
    BY <1>0 DEF Switches, AskTypeInv, Page
<1>2. CreatedIsBlank'
    BY <1>1 DEF CreatedIsBlank
<1>3. LiveIsOpen'
  <2>1. \A q \in Runs : ~Live(q)'
    BY <1>0, <1>1 DEF IdsHold, Live, Active, Current
  <2>2. \A read \in reads : ~LatestRead(read)'
    BY <1>0, <1>1 DEF IdsHold, LatestRead
  <2> QED BY <1>1, <2>1, <2>2 DEF LiveIsOpen
<1>4. ThreadIsTheOpenChat'
    BY <1>1 DEF ThreadIsTheOpenChat
<1> QED BY <1>2, <1>3, <1>4 DEF ThreadInv

LEMMA ThreadEnd ==
    ASSUME ThreadInv, AskTypeInv, TurnsHold, NEW r \in Runs, Active(r),
           NEW state \in States, Ends(r, state),
           UNCHANGED <<reads, answer, undone>>
    PROVE  ThreadInv'
<1>1. /\ [OwnTurn(r) EXCEPT !.state = state] \in Turn
      /\ [OwnTurn(r) EXCEPT !.state = state].run = OwnTurn(r).run
    BY OwnTurnType DEF Turn
<1>2. /\ DOMAIN page'.turns = DOMAIN page.turns
      /\ \A i \in DOMAIN page.turns : page'.turns[i].run = page.turns[i].run
    BY <1>1, WriteKeepsRuns DEF Ends
<1>3. /\ page'.latestReadId = page.latestReadId
      /\ page'.openChatId = page.openChatId
      /\ run'[r].phase = "ended"
      /\ \A q \in Runs \ {r} : run'[q] = run[q]
    BY DEF Ends, OnlyRun, EndedRun, IdleRun
<1> QED BY <1>2, <1>3, ThreadKept

LEMMA ThreadReceive ==
    ASSUME ThreadInv, BaseInv, ShowInv, NEW read \in reads, ReceiveChat(read)
    PROVE  ThreadInv'
<1>0. AskTypeInv /\ IdsHold /\ StoredHold
    BY DEF BaseInv, ShowInv
<1>1. /\ run' = run /\ answer' = answer /\ read.chat \in Chats
      /\ reads' \subseteq reads
      /\ \/ page' = page
         \/ /\ LatestRead(read)
            /\ page'.turns \in {stored[read.chat].turns, page.turns}
            /\ page'.openChatId = page.openChatId
            /\ page'.latestReadId = page.latestReadId
    BY <1>0, ReceiveChatEffect
<1>u. UNCHANGED undone
    BY DEF ReceiveChat
<1>2. CASE /\ page'.turns = page.turns /\ page'.openChatId = page.openChatId
           /\ page'.latestReadId = page.latestReadId
    BY <1>1, <1>2, <1>u, ThreadKept
<1>3. CASE /\ LatestRead(read) /\ page'.turns = stored[read.chat].turns
           /\ page'.openChatId = page.openChatId
           /\ page'.latestReadId = page.latestReadId
  <2>1. \A q \in Runs : ~Live(q)
    BY <1>0, <1>3 DEF IdsHold
  <2>2. CreatedIsBlank'
    BY <1>1, <1>3, <2>1 DEF CreatedIsBlank, Live, Active, Current
  <2>3. ASSUME LiveIsOpen, ThreadIsTheOpenChat
        PROVE  LiveIsOpen' /\ ThreadIsTheOpenChat'
    <3>1. LiveIsOpen'
      BY <1>1, <1>3, <2>3 DEF LiveIsOpen, Live, Active, Current, LatestRead
    <3>2. read.chat = page.openChatId
      BY <1>3, <2>3 DEF LiveIsOpen
    <3>3. \A i \in DOMAIN page'.turns :
              answer'[page'.turns[i].run].chat = page'.openChatId
      BY <1>0, <1>1, <1>3, <3>2 DEF StoredHold, StoredTurnHolds
    <3> QED BY <3>1, <3>3 DEF ThreadIsTheOpenChat
  <2>4. page'.openChatId = page.openChatId
    BY <1>3
  <2> QED BY <1>u, <2>2, <2>3, <2>4 DEF ThreadInv
<1> QED BY <1>1, <1>2, <1>3

LEMMA ThreadAnswers ==
    ASSUME ThreadInv, AskTypeInv, NEW r \in Runs, OnlyAnswer(r),
           answer[r].phase # "none", answer'[r].chat = answer[r].chat,
           UNCHANGED <<page, run, reads, undone>>
    PROVE  ThreadInv'
<1>1. \A i \in DOMAIN page.turns : page.turns[i].run \in Runs
    BY TurnTypes
<1> QED BY <1>1, ThreadKept DEF OnlyAnswer

LEMMA ThreadStep ==
    ASSUME ThreadInv, BaseInv, ShowInv, Next
    PROVE  ThreadInv'
<1>0. /\ AskTypeInv /\ AnswersHold /\ IdsHold /\ AnswersFollow /\ TurnsHold
      /\ \A r \in Runs : AnswerHolds(answer[r])
    BY DEF BaseInv, ShowInv, AnswersHold
<1>2. ASSUME NEW r \in Runs, AskQuestion(r) PROVE ThreadInv'
    BY <1>2, ThreadAsk
<1>3. ASSUME NEW r \in Runs, NEW c \in Chats, CreateChat(r, c) PROVE ThreadInv'
  <2>1. /\ run[r].phase = "create" /\ run'[r].phase = "created"
        /\ run'[r].runId = run[r].runId /\ OnlyRun(r)
        /\ UNCHANGED <<page, reads, answer, undone>>
    BY <1>0, <1>3, CreateChatEffect DEF CreateChat
  <2> QED BY <2>1, ThreadKept DEF OnlyRun
<1>4. ASSUME NEW r \in Runs, OpenCreatedChat(r) PROVE ThreadInv'
    BY <1>4, ThreadCreated
<1>5. ASSUME NEW r \in Runs, PostTurn(r) PROVE ThreadInv'
    BY <1>5, ThreadPost
<1>6. ASSUME NEW r \in Runs, FailRequest(r) PROVE ThreadInv'
  <2>1. /\ Active(r) /\ Ends(r, "error")
        /\ UNCHANGED <<reads, answer, undone>>
    BY <1>0, <1>6, FailRequestEffect DEF FailRequest, Active
  <2> QED BY <1>0, <2>1, ThreadEnd DEF States
<1>7. ASSUME NEW r \in Runs, ReadFrame(r) PROVE ThreadInv'
  <2>1. /\ run[r].phase = "stream" /\ Active(r) /\ wire[r][1] \in FrameSet
        /\ UNCHANGED <<reads, answer, undone>>
    BY <1>0, <1>7, ReadFrameEffect DEF ReadFrame, Active
  <2>2. CASE Ends(r, "error")
    BY <1>0, <2>1, <2>2, ThreadEnd DEF States
  <2>3. CASE ~Ends(r, "error")
    <3>1. /\ page'.turns = ChangeTurn(r, ApplyFrame(OwnTurn(r), wire[r][1]))
          /\ page'.latestReadId = page.latestReadId
          /\ page'.openChatId = page.openChatId
          /\ OnlyRun(r) /\ run'[r].phase = run[r].phase
          /\ run'[r].runId = run[r].runId /\ run'[r].chat = run[r].chat
      BY <1>0, <1>7, <2>3, ReadFrameEffect
    <3>2. /\ ApplyFrame(OwnTurn(r), wire[r][1]) \in Turn
          /\ ApplyFrame(OwnTurn(r), wire[r][1]).run = OwnTurn(r).run
      BY <1>0, <2>1, OwnTurnType, ApplyFrameType
    <3>3. /\ DOMAIN page'.turns = DOMAIN page.turns
          /\ \A i \in DOMAIN page.turns :
                 page'.turns[i].run = page.turns[i].run
      BY <1>0, <2>1, <3>1, <3>2, WriteKeepsRuns
    <3> QED BY <2>1, <3>1, <3>3, ThreadKept DEF OnlyRun
  <2> QED BY <2>2, <2>3
<1>8. ASSUME NEW r \in Runs, EndStream(r) PROVE ThreadInv'
  <2>1. /\ run[r].phase = "stream" /\ Ends(r, StateAtEnd(r))
        /\ StateAtEnd(r) \in States /\ UNCHANGED <<reads, answer, undone>>
    BY <1>0, <1>8, EndStreamEffect DEF EndStream, States
  <2> QED BY <1>0, <2>1, ThreadEnd DEF Active
<1>9. ASSUME NEW r \in Runs, DropStream(r) PROVE ThreadInv'
  <2>1. /\ OnlyAnswer(r) /\ answer[r].phase # "none" /\ answer[r] \in Answer
        /\ answer'[r] = [answer[r] EXCEPT !.closed = TRUE]
        /\ UNCHANGED <<page, run, reads, undone>>
    BY <1>0, <1>9, DropStreamEffect DEF DropStream, AskTypeInv
  <2>2. answer'[r].chat = answer[r].chat
    BY <2>1 DEF Answer
  <2> QED BY <1>0, <2>1, <2>2, ThreadAnswers
<1>10. ASSUME NEW r \in Runs, StartTurn(r) PROVE ThreadInv'
  <2>1. /\ answer[r].phase = "sent" /\ OnlyAnswer(r)
        /\ answer'[r].chat = answer[r].chat
        /\ UNCHANGED <<page, run, reads, undone>>
    BY <1>0, <1>10, StartTurnEffect DEF StartTurn, AnswerIs
  <2> QED BY <1>0, <2>1, ThreadAnswers
<1>11. ASSUME NEW r \in Runs, EndAnswer(r) \/ NotSettled(r) PROVE ThreadInv'
  <2>1. /\ answer[r].phase = "model" /\ OnlyAnswer(r)
        /\ answer'[r].chat = answer[r].chat
        /\ UNCHANGED <<page, run, reads, undone>>
    BY <1>0, <1>11, EndAnswerEffect, NotSettledEffect
       DEF EndAnswer, NotSettled, AnswerIs
  <2> QED BY <1>0, <2>1, ThreadAnswers
<1>12. ASSUME NEW r \in Runs, NEW number \in Nat, StreamDelta(r, number)
       PROVE  ThreadInv'
  <2>1. /\ answer[r].phase = "model" /\ OnlyAnswer(r)
        /\ answer'[r].chat = answer[r].chat
        /\ UNCHANGED <<page, run, reads, undone>>
    BY <1>0, <1>12, StreamDeltaEffect DEF StreamDelta, AnswerIs
  <2> QED BY <1>0, <2>1, ThreadAnswers
<1>13. ASSUME NEW r \in Runs, NEW more \in BOOLEAN, NEW results \in Results,
              SearchDocumentChunks(r, results, more)
       PROVE  ThreadInv'
  <2>1. /\ answer[r].phase \in {"model", "tools"} /\ OnlyAnswer(r)
        /\ answer'[r].chat = answer[r].chat
        /\ UNCHANGED <<page, run, reads, undone>>
    BY <1>0, <1>13, SearchEffect DEF SearchDocumentChunks, AnswerIs
  <2> QED BY <1>0, <2>1, ThreadAnswers
<1>14. ASSUME NEW r \in Runs, NEW more \in BOOLEAN, RunTool(r, more)
       PROVE  ThreadInv'
  <2>1. /\ answer[r].phase \in {"model", "tools"} /\ OnlyAnswer(r)
        /\ answer'[r].chat = answer[r].chat
        /\ UNCHANGED <<page, run, reads, undone>>
    BY <1>0, <1>14, RunToolEffect DEF RunTool, AnswerIs
  <2> QED BY <1>0, <2>1, ThreadAnswers
<1>15. ASSUME NEW r \in Runs, NEW outcome \in {"done", "error"},
              CompleteTurn(r, outcome)
       PROVE  ThreadInv'
  <2>1. /\ answer[r].phase \in {"model", "tools", "finish"} /\ OnlyAnswer(r)
        /\ answer'[r].chat = answer[r].chat
        /\ UNCHANGED <<page, run, reads, undone>>
    BY <1>0, <1>15, CompleteTurnEffect DEF CompleteTurn, AnswerIs
  <2> QED BY <1>0, <2>1, ThreadAnswers
<1>16. ASSUME NEW c \in Chats \union {NoChat}, OpenChat(c) PROVE ThreadInv'
  <2>1. /\ Switches(c) /\ run' = run
        /\ \A read \in reads' : read \in reads \/ read.chat = c
    BY <1>0, <1>16, OpenChatEffect
  <2>2. undone' = FALSE
    BY <1>16 DEF OpenChat
  <2> QED BY <2>1, <2>2, ThreadSwitch
<1>17. ASSUME NEW read \in reads, ReceiveChat(read) PROVE ThreadInv'
    BY <1>17, ThreadReceive
<1>18. ASSUME UNCHANGED <<page, run, reads, answer, undone>> PROVE ThreadInv'
    BY <1>18, ThreadKept
<1>19. ASSUME NEW c \in Chats, DeleteChat(c) PROVE ThreadInv'
  <2>1. UNCHANGED <<page, run, reads, answer, undone>>
    BY <1>0, <1>19, DeleteChatEffect DEF DeleteChat
  <2> QED BY <1>18, <2>1
<1>20. ASSUME NEW d \in leaving, LeaveDeletedChat(d) PROVE ThreadInv'
  <2>1. UNCHANGED <<run, reads, answer>>
    BY <1>20 DEF LeaveDeletedChat
  <2>2. \/ UNCHANGED <<page, undone>>
        \/ page' = Switched(NoChat) /\ undone' = FALSE
    BY <1>20 DEF LeaveDeletedChat
  <2>3. CASE UNCHANGED <<page, undone>>
    BY <1>18, <2>1, <2>3
  <2>4. CASE page' = Switched(NoChat) /\ undone' = FALSE
    <3>1. Switches(NoChat)
      BY <1>0, <2>4, SwitchEffect
    <3> QED BY <2>1, <2>4, <3>1, ThreadSwitch
  <2> QED BY <2>2, <2>3, <2>4
<1> QED BY Steps, <1>2, <1>3, <1>4, <1>5, <1>6, <1>7, <1>8, <1>9, <1>10, <1>11,
           <1>12, <1>13, <1>14, <1>15, <1>16, <1>17, <1>19, <1>20

(* Each turn shown is one of the chat that openChatId names, so the next   *)
(* question goes where the person reads (readChat and askQuestion in       *)
(* open-chat.ts), except after a created chat has undone a switch: nothing *)
(* else the page does, in whatever order its requests are answered, breaks *)
(* it, and the next switch mends it.                                       *)
THEOREM ThreadStaysTheOpenChat == Spec => []OnlyCreationUndoes
<1>1. Init => ThreadInv
  <2> SUFFICES ASSUME Init PROVE ThreadInv
    OBVIOUS
  <2>1. /\ page.turns = <<>> /\ run = [r \in Runs |-> IdleRun] /\ reads = {}
        /\ undone = FALSE
    BY DEF Init
  <2> QED BY <2>1 DEF ThreadInv, CreatedIsBlank, LiveIsOpen,
                      ThreadIsTheOpenChat, Live, Active, IdleRun
<1>2. BaseInv /\ ShowInv /\ ThreadInv /\ [Next]_vars => ThreadInv'
  <2> SUFFICES ASSUME BaseInv, ShowInv, ThreadInv, [Next]_vars
               PROVE  ThreadInv'
    OBVIOUS
  <2>1. CASE Next
    BY <2>1, ThreadStep
  <2>2. CASE UNCHANGED vars
    BY <2>2, ThreadKept DEF vars
  <2> QED BY <2>1, <2>2
<1>3. ThreadInv => OnlyCreationUndoes
    BY DEF ThreadInv, OnlyCreationUndoes
<1> QED BY <1>1, <1>2, <1>3, BaseInvHolds, ShowInvHolds, PTL DEF Spec

-----------------------------------------------------------------------------
(* What the model reads of the databases.                                  *)

(* The order of the numbers, for the induction below.                      *)
Below == {e \in Nat \X Nat : e[1] < e[2]}

LEMMA BelowIsWellFounded == IsWellFoundedOn(Below, Nat)
<1>1. OpToRel(<, Nat) = Below
    BY DEF OpToRel, Below
<1>. QED BY <1>1, NatLessThanWellFounded

(* Induction over a set of numbers: a theorem that takes an operator       *)
(* cannot be instantiated here.                                            *)
LEMMA NumbersClimb ==
    ASSUME NEW n \in Nat, NEW S, 0 \in S,
           \A k \in 1..n : k - 1 \in S => k \in S
    PROVE  n \in S
<1>. DEFINE T == (0..n) \ S
<1>. SUFFICES ASSUME n \notin S PROVE FALSE
    OBVIOUS
<1>1. T \in SUBSET Nat /\ T # {}  OBVIOUS
<1>2. PICK m \in T : \A k \in T : <<k, m>> \notin Below
    BY <1>1, WFMin, BelowIsWellFounded
<1>3. m \in 1..n /\ m - 1 \in 0..n  OBVIOUS
<1>4. <<m - 1, m>> \in Below  BY <1>3 DEF Below
<1>5. m - 1 \in S  BY <1>2, <1>3, <1>4
<1>. QED BY <1>3, <1>5

(* A function on the first numbers is a sequence of its values.            *)
LEMMA ListIsSeq ==
    ASSUME NEW n \in Nat, NEW f, f = [i \in 1..n |-> f[i]]
    PROVE  f \in Seq(ToSet(f)) /\ Len(f) = n
<1>1. DOMAIN f = 1..n  BY DEF ToSet
<1>2. f \in [1..n -> ToSet(f)]  BY <1>1 DEF ToSet
<1>. QED BY <1>2, IsASeq

(* A chain says what its two parts say.                                    *)
LEMMA ChainSays ==
    ASSUME NEW S, NEW p \in Seq(S), NEW q \in Seq(S)
    PROVE  /\ p \o q \in Seq(S)
           /\ ToSet(p \o q) = ToSet(p) \union ToSet(q)
<1>1. PICK all \in Seq(S) : all = p \o q  BY ConcatProperties
<1>2. PICK n \in Nat : n = Len(p) /\ DOMAIN p = 1..n  BY LenProperties
<1>3. PICK m \in Nat : m = Len(q) /\ DOMAIN q = 1..m  BY LenProperties
<1>4. /\ DOMAIN all = 1..(n + m)
      /\ \A i \in 1..(n + m) : all[i] = IF i <= n THEN p[i] ELSE q[i - n]
    BY <1>1, <1>2, <1>3, ConcatProperties, LenProperties
<1>5. ToSet(all) \subseteq ToSet(p) \union ToSet(q)
    <2>1. ASSUME NEW i \in 1..(n + m)
          PROVE  all[i] \in ToSet(p) \union ToSet(q)
        <3>1. CASE i <= n
            <4>1. i \in DOMAIN p /\ all[i] = p[i]  BY <1>2, <1>4, <3>1
            <4>. QED BY <4>1 DEF ToSet
        <3>2. CASE ~(i <= n)
            <4>1. i - n \in DOMAIN q /\ all[i] = q[i - n]
                BY <1>3, <1>4, <3>2
            <4>. QED BY <4>1 DEF ToSet
        <3>. QED BY <3>1, <3>2
    <2>. QED BY <1>4, <2>1 DEF ToSet
<1>6. ToSet(p) \subseteq ToSet(all)
    <2>1. \A i \in 1..n : i \in 1..(n + m) /\ i <= n  OBVIOUS
    <2>. QED BY <1>2, <1>4, <2>1 DEF ToSet
<1>7. ToSet(q) \subseteq ToSet(all)
    <2>1. ASSUME NEW i \in 1..m PROVE q[i] \in ToSet(all)
        <3>1. n + i \in 1..(n + m) /\ ~(n + i <= n) /\ n + i - n = i
            OBVIOUS
        <3>2. q[i] = all[n + i] /\ n + i \in DOMAIN all  BY <1>4, <3>1
        <3>. QED BY <3>2 DEF ToSet
    <2>. QED BY <1>3, <2>1 DEF ToSet
<1>. QED BY <1>1, <1>5, <1>6, <1>7

(* A chain of many parts says what each of them says.                      *)
LEMMA ChainsSay ==
    ASSUME NEW S, NEW parts \in Seq(Seq(S))
    PROVE  /\ FlattenSeq(parts) \in Seq(S)
           /\ \A i \in 1..Len(parts) :
                  ToSet(parts[i]) \subseteq ToSet(FlattenSeq(parts))
           /\ ToSet(FlattenSeq(parts))
                  \subseteq UNION {ToSet(parts[i]) : i \in 1..Len(parts)}
<1>. DEFINE Solves(f) == f = [i \in 1..Len(parts) |->
                                 IF i = 1 THEN parts[i]
                                 ELSE f[i - 1] \o parts[i]]
            Part(f, m) ==
                /\ f \in [1..m -> Seq(S)]
                /\ \A i \in 1..m : f[i] = IF i = 1 THEN parts[i]
                                          ELSE f[i - 1] \o parts[i]
            All(m) == UNION {ToSet(parts[i]) : i \in 1..m}
<1>1. PICK n \in Nat : n = Len(parts) /\ \A i \in 1..n : parts[i] \in Seq(S)
    BY LenProperties, ElementOfSeq
<1>2. CASE n = 0
    <2>1. FlattenSeq(parts) = <<>>
        BY <1>1, <1>2, EmptySeq DEF FlattenSeq
    <2>2. 1..n = {} /\ ToSet(<<>>) = {}  BY <1>2 DEF ToSet
    <2>3. <<>> \in Seq(S)  OBVIOUS
    <2>. QED BY <1>1, <2>1, <2>2, <2>3
<1>3. CASE n # 0
    <2>. DEFINE P == {m \in 0..n : \E f : Part(f, m)}
    <2>1. 0 \in P
        <3>1. Part([i \in 1..0 |-> <<>>], 0)
            <4>1. 1..0 = {}  OBVIOUS
            <4>. QED BY <4>1
        <3>. HIDE DEF Part
        <3>. QED BY <3>1
    <2>2. ASSUME NEW m \in 1..n, m - 1 \in P PROVE m \in P
        <3>1. PICK g : Part(g, m - 1)  BY <2>2
        <3>. DEFINE last == IF m = 1 THEN parts[m] ELSE g[m - 1] \o parts[m]
                    f == [i \in 1..m |-> IF i = m THEN last ELSE g[i]]
        <3>2. last \in Seq(S)
            <4>1. m # 1 => m - 1 \in 1..(m - 1)  OBVIOUS
            <4>2. m # 1 => g[m - 1] \in Seq(S)  BY <3>1, <4>1
            <4>. QED BY <1>1, <4>2, ConcatProperties
        <3>3. \A i \in 1..m : i # m => i \in 1..(m - 1)  OBVIOUS
        <3>. HIDE DEF last
        <3>4. f \in [1..m -> Seq(S)]  BY <3>1, <3>2, <3>3
        <3>5. ASSUME NEW i \in 1..m
              PROVE  f[i] = IF i = 1 THEN parts[i] ELSE f[i - 1] \o parts[i]
            <4>1. CASE i = m
                <5>1. m # 1 => f[m - 1] = g[m - 1]  OBVIOUS
                <5>. QED BY <4>1, <5>1 DEF last
            <4>2. CASE i # m
                <5>1. i # 1 => f[i - 1] = g[i - 1]  BY <4>2
                <5>. QED BY <3>1, <3>3, <4>2, <5>1
            <4>. QED BY <4>1, <4>2
        <3>. HIDE DEF f
        <3>6. Part(f, m)  BY <3>4, <3>5
        <3>. HIDE DEF Part
        <3>. QED BY <3>6
    <2>. HIDE DEF P
    <2>3. n \in P  BY <2>1, <2>2, NumbersClimb
    <2>4. PICK g : Part(g, n)
        <3>. HIDE DEF Part
        <3>. QED BY <2>3 DEF P
    <2>5. PICK c : c = CHOOSE f : Solves(f)  OBVIOUS
    <2>6. Solves(c)
        <3>1. g = [i \in 1..n |-> g[i]]  BY <2>4
        <3>2. Solves(g)  BY <1>1, <2>4, <3>1
        <3>. HIDE DEF Solves
        <3>. QED BY <2>5, <3>2
    <2>7. FlattenSeq(parts) = c[n]
        BY <1>1, <1>3, <2>5 DEF FlattenSeq
    <2>8. \A i \in 1..n : c[i] = IF i = 1 THEN parts[i]
                                 ELSE c[i - 1] \o parts[i]
        BY <1>1, <2>6
    <2>. HIDE DEF Solves, Part
    <2>. DEFINE Q == {m \in 0..n : m # 0 =>
                         /\ c[m] \in Seq(S)
                         /\ ToSet(c[m]) = All(m)}
    <2>9. 0 \in Q  OBVIOUS
    <2>10. ASSUME NEW m \in 1..n, m - 1 \in Q PROVE m \in Q
        <3>1. PICK s \in Seq(S) : s = parts[m]  BY <1>1
        <3>2. All(m) = All(m - 1) \union ToSet(s)
            <4>1. 1..m = (1..(m - 1)) \union {m}  OBVIOUS
            <4>. QED BY <3>1, <4>1
        <3>3. CASE m = 1
            <4>1. c[m] = s  BY <2>8, <3>1, <3>3
            <4>2. 1..(m - 1) = {}  BY <3>3
            <4>3. All(m - 1) = {}  BY <4>2
            <4>4. m \in 0..n  OBVIOUS
            <4>. HIDE DEF All
            <4>5. ToSet(s) = All(m)  BY <3>2, <4>3
            <4>. QED BY <4>1, <4>4, <4>5
        <3>4. CASE m # 1
            <4>1. m - 1 # 0 /\ m \in 0..n  BY <3>4
            <4>. HIDE DEF All
            <4>2. PICK t \in Seq(S) : t = c[m - 1] /\ ToSet(t) = All(m - 1)
                BY <2>10, <4>1
            <4>3. c[m] = t \o s  BY <2>8, <3>1, <3>4, <4>2
            <4>4. t \o s \in Seq(S) /\ ToSet(t \o s) = ToSet(t) \union ToSet(s)
                BY ChainSays
            <4>. QED BY <3>2, <4>1, <4>2, <4>3, <4>4
        <3>. QED BY <3>3, <3>4
    <2>. HIDE DEF Q
    <2>11. n \in Q  BY <2>9, <2>10, NumbersClimb
    <2>12. c[n] \in Seq(S) /\ ToSet(c[n]) = All(n)
        <3>. HIDE DEF All
        <3>. QED BY <1>3, <2>11 DEF Q
    <2>. QED BY <1>1, <2>7, <2>12
<1>. QED BY <1>2, <1>3

(* The names of some tables, in order: each of them and no other.          *)
LEMMA InOrderNames ==
    ASSUME NEW tables
    PROVE  /\ InOrder(tables) \in Seq(ToSet(TableNames))
           /\ ToSet(InOrder(tables)) = tables \cap ToSet(TableNames)
<1>. DEFINE N == ToSet(TableNames)
            part(i) == IF TableNames[i] \in tables THEN <<TableNames[i]>>
                       ELSE <<>>
            parts == [i \in DOMAIN TableNames |-> part(i)]
<1>1. PICK n \in Nat : /\ n = Len(TableNames) /\ DOMAIN TableNames = 1..n
                       /\ \A i \in 1..n : TableNames[i] \in N
    <2>1. TableNames \in Seq(N)  BY NamesAssumption
    <2>. HIDE DEF N
    <2>. QED BY <2>1, LenProperties, ElementOfSeq
<1>2. N = {TableNames[i] : i \in 1..n}  BY <1>1 DEF ToSet
<1>. HIDE DEF N
<1>3. ASSUME NEW i \in 1..n
      PROVE  /\ part(i) \in Seq(N)
             /\ ToSet(part(i)) = {TableNames[i]} \cap tables
    <2>1. PICK t \in N : t = TableNames[i]  BY <1>1
    <2>2. <<t>> \in Seq(N) /\ ToSet(<<t>>) = {t}  BY DEF ToSet
    <2>3. <<>> \in Seq(N) /\ ToSet(<<>>) = {}  BY DEF ToSet
    <2>4. CASE t \in tables  BY <2>1, <2>2, <2>4
    <2>5. CASE t \notin tables  BY <2>1, <2>3, <2>5
    <2>. QED BY <2>4, <2>5
<1>4. \A i \in 1..n : parts[i] = part(i)  BY <1>1
<1>. HIDE DEF part
<1>5. parts \in [1..n -> Seq(N)]  BY <1>1, <1>3
<1>6. InOrder(tables) = FlattenSeq(parts)  BY DEF InOrder, part
<1>. HIDE DEF parts
<1>7. parts \in Seq(Seq(N)) /\ Len(parts) = n  BY <1>5, IsASeq
<1>8. PICK found : found = InOrder(tables)  OBVIOUS
<1>9. /\ found \in Seq(N)
      /\ \A i \in 1..n : ToSet(part(i)) \subseteq ToSet(found)
      /\ ToSet(found) \subseteq UNION {ToSet(part(i)) : i \in 1..n}
    BY <1>4, <1>6, <1>7, <1>8, ChainsSay
<1>10. ToSet(found) \subseteq tables \cap N
    <2>1. ASSUME NEW t \in ToSet(found) PROVE t \in tables \cap N
        <3>1. PICK i \in 1..n : t \in ToSet(part(i))  BY <1>9, <2>1
        <3>. QED BY <1>1, <1>3, <3>1
    <2>. QED BY <2>1
<1>11. tables \cap N \subseteq ToSet(found)
    <2>1. ASSUME NEW t \in tables \cap N PROVE t \in ToSet(found)
        <3>1. PICK i \in 1..n : t = TableNames[i]  BY <1>2, <2>1
        <3>2. t \in ToSet(part(i))  BY <1>3, <2>1, <3>1
        <3>. QED BY <1>9, <3>2
    <2>. QED BY <2>1
<1>. QED BY <1>8, <1>9, <1>10, <1>11 DEF N

(* The start of a list.                                                    *)
LEMMA StartIsList ==
    ASSUME NEW S, NEW s \in Seq(S), NEW n \in Nat, n <= Len(s)
    PROVE  SubSeq(s, 1, n) \in Seq(S) /\ Len(SubSeq(s, 1, n)) = n
<1>1. \A i \in 1..n : s[i] \in S
    <2>1. Len(s) \in Nat  BY LenProperties
    <2>2. \A i \in 1..n : i \in 1..Len(s)  BY <2>1
    <2>. QED BY <2>2, ElementOfSeq
<1>2. /\ SubSeq(s, 1, n) \in Seq(S)
      /\ Len(SubSeq(s, 1, n)) = IF 1 <= n THEN n - 1 + 1 ELSE 0
    BY <1>1, SubSeqProperties
<1>. QED BY <1>2

(* Of a list no longer than the bound, the first are all.                  *)
LEMMA FirstAreAll ==
    ASSUME NEW S, NEW s \in Seq(S), NEW n \in Nat
    PROVE  /\ FirstOf(s, n) \in Seq(S)
           /\ Len(s) <= n => FirstOf(s, n) = s
           /\ Len(s) = Len(FirstOf(s, n)) => FirstOf(s, n) = s
<1>1. PICK l \in Nat : l = Len(s)  BY LenProperties
<1>2. SubSeq(s, 1, l) = s  BY <1>1, SubSeqFull
<1>3. CASE l < n  BY <1>1, <1>2, <1>3 DEF FirstOf
<1>4. CASE ~(l < n)
    <2>1. FirstOf(s, n) = SubSeq(s, 1, n)  BY <1>1, <1>4 DEF FirstOf
    <2>2. PICK f : f = SubSeq(s, 1, n)  OBVIOUS
    <2>3. f \in Seq(S) /\ Len(f) = n
        <3>1. n <= Len(s)  BY <1>1, <1>4
        <3>. QED BY <2>2, <3>1, StartIsList
    <2>4. l = n => f = s  BY <1>2, <2>2
    <2>. QED BY <1>1, <1>4, <2>1, <2>2, <2>3, <2>4
<1>. QED BY <1>3, <1>4

(* What is true of a text, or that it is not the whole, is true of what    *)
(* the budget leaves of it.                                                *)
LEMMA CutSaysSo ==
    ASSUME NEW S, NEW says \in Seq(S), NEW budget \in Nat \ {0},
           ~(Len(says) <= budget)
    PROVE  SaysItIsPartial(CutToBudget(says, budget))
<1>. DEFINE note == [fact |-> "cut"]
            U == S \union {note}
            start == SubSeq(says, 1, budget)
<1>1. start \in Seq(S)
    <2>1. Len(says) \in Nat  BY LenProperties
    <2>2. budget <= Len(says)  BY <2>1
    <2>. QED BY <2>2, StartIsList
<1>2. PICK cut : cut = CutToBudget(says, budget)  OBVIOUS
<1>3. cut.says = Append(start, note)  BY <1>2 DEF CutToBudget
<1>. HIDE DEF start
<1>4. note \in U /\ S \subseteq U /\ note.fact = "cut"  OBVIOUS
<1>. HIDE DEF note, U
<1>5. start \in Seq(U)  BY <1>1, <1>4, SeqMonotonic
<1>6. PICK t \in Seq(U) : t = Append(start, note)
    BY <1>4, <1>5, AppendProperties
<1>7. note \in ToSet(t)
    <2>1. PICK k \in Nat : k = Len(start)  BY <1>5, LenProperties
    <2>2. Len(t) = k + 1 /\ t[k + 1] = note
        BY <1>4, <1>5, <1>6, <2>1, AppendProperties
    <2>3. k + 1 \in DOMAIN t  BY <2>2, LenProperties
    <2>. QED BY <2>2, <2>3 DEF ToSet
<1>. QED BY <1>2, <1>3, <1>4, <1>6, <1>7 DEF SaysItIsPartial

LEMMA CutAccounts ==
    ASSUME NEW S, NEW says \in Seq(S), NEW asked, NEW budget \in Nat \ {0},
           \/ \E s \in ToSet(says) : s.fact \in {"cut", "more"}
           \/ \A about \in asked : \E s \in ToSet(says) : Tells(s, about)
    PROVE  Whole(CutToBudget(says, budget), asked)
<1>1. PICK cut : cut = CutToBudget(says, budget)  OBVIOUS
<1>2. CASE Len(says) <= budget
    <2>1. cut.says = says  BY <1>1, <1>2 DEF CutToBudget
    <2>. QED BY <1>1, <2>1 DEF Whole, SaysItIsPartial, Accounts
<1>3. CASE ~(Len(says) <= budget)
    BY <1>3, CutSaysSo DEF Whole
<1>. QED BY <1>2, <1>3

LEMMA BudgetIsRoom == Budget \in Nat \ {0}
    BY BudgetsAssumption

(* However many databases there are, list_databases has a line for each.   *)
LEMMA EveryDatabaseHasALine ==
    ASSUME NEW n \in Nat, NEW registered, registered \in Seq(Databases),
           Len(registered) = n
    PROVE  Whole(ListDatabases(registered), 1..n)
<1>1. CASE registered = <<>>
    BY <1>1 DEF ListDatabases, Correction, Whole
<1>2. CASE registered # <<>>
    <2>. DEFINE line(i) == DescribeDatabase(i, registered[i])
                says == [i \in DOMAIN registered |-> line(i)]
    <2>1. DOMAIN registered = 1..n  BY LenProperties
    <2>2. says = [i \in 1..n |-> says[i]] /\ DOMAIN says = 1..n
        BY <2>1
    <2>3. \A i \in 1..n : says[i] = line(i)  BY <2>1
    <2>4. \A i \in 1..n : Tells(line(i), i)
        BY DEF DescribeDatabase, Tells
    <2>5. ListDatabases(registered) = CutToBudget(says, Budget)
        BY <1>2 DEF ListDatabases
    <2>. HIDE DEF line, says
    <2>6. says \in Seq(ToSet(says))  BY <2>2, ListIsSeq
    <2>7. \A i \in 1..n : \E s \in ToSet(says) : Tells(s, i)
        <3>1. \A i \in 1..n : says[i] \in ToSet(says)
            BY <2>2 DEF ToSet
        <3>. QED BY <2>3, <2>4, <3>1
    <2>. QED BY <2>5, <2>6, <2>7, CutAccounts, BudgetIsRoom
<1>. QED BY <1>1, <1>2

LEMMA AllDatabasesAreListed == DatabasesAreListed
<1>1. ASSUME NEW d \in Databases, NEW e \in Databases
      PROVE  Whole(ListDatabases(<<d, e>>), {1, 2})
    <2>1. PICK pair \in Seq(Databases) : pair = <<d, e>> /\ Len(pair) = 2
        <3>1. <<d, e>> \in Seq(Databases)  OBVIOUS
        <3>2. Len(<<d, e>>) = 2  OBVIOUS
        <3>. QED BY <3>1, <3>2, Zenon
    <2>2. Whole(ListDatabases(pair), 1..2)
        BY <2>1, EveryDatabaseHasALine
    <2>3. 1..2 = {1, 2}  OBVIOUS
    <2>. QED BY <2>1, <2>2, <2>3
<1>. QED BY <1>1 DEF DatabasesAreListed

(* list_tables names every table that passes, or says that there are more. *)
LEMMA AllTablesAreListed == TablesAreListed
<1>1. ASSUME NEW d \in Databases, NEW filter
      PROVE  Whole(ListTables(d, filter), d.tables \cap filter)
    <2>. DEFINE passing == InOrder(d.tables \cap filter)
                listed  == FirstOf(passing, MaxTables)
                heading == [fact |-> IF Len(passing) = Len(listed) THEN "all"
                                     ELSE "more"]
                line(t) == [fact |-> "listed", about |-> t]
                facts   == [i \in DOMAIN listed |-> line(listed[i])]
    <2>1. PICK found \in Seq(ToSet(TableNames)) :
              found = passing /\ ToSet(found) = d.tables \cap filter
        <3>1. ToSet(passing) = (d.tables \cap filter) \cap ToSet(TableNames)
              /\ passing \in Seq(ToSet(TableNames))
            BY InOrderNames
        <3>2. d.tables \subseteq ToSet(TableNames)  BY NamesAssumption
        <3>. HIDE DEF passing
        <3>. QED BY <3>1, <3>2
    <2>2. /\ listed \in Seq(ToSet(TableNames))
          /\ Len(found) = Len(listed) => listed = found
        <3>1. MaxTables \in Nat  BY BudgetsAssumption
        <3>. HIDE DEF passing
        <3>. QED BY <2>1, <3>1, FirstAreAll
    <2>3. ListTables(d, filter)
              \in {Failure, Correction, CutToBudget(<<heading>> \o facts, Budget)}
        BY DEF ListTables
    <2>4. /\ Whole(Failure, d.tables \cap filter)
          /\ Whole(Correction, d.tables \cap filter)
        BY DEF Failure, Correction, Whole
    <2>. DEFINE S == ToSet(facts) \union {heading}
    <2>5. facts \in Seq(ToSet(facts)) /\ DOMAIN facts = DOMAIN listed
          /\ \A i \in DOMAIN listed : facts[i] = line(listed[i])
        <3>. HIDE DEF listed, line
        <3>1. PICK m \in Nat : DOMAIN listed = 1..m  BY <2>2, LenProperties
        <3>2. facts = [i \in 1..m |-> facts[i]]  BY <3>1
        <3>3. DOMAIN facts = DOMAIN listed
              /\ \A i \in DOMAIN listed : facts[i] = line(listed[i])
            OBVIOUS
        <3>. HIDE DEF facts
        <3>4. facts \in Seq(ToSet(facts))  BY <3>2, ListIsSeq
        <3>. QED BY <3>3, <3>4
    <2>6. heading.fact = IF Len(passing) = Len(listed) THEN "all" ELSE "more"
        OBVIOUS
    <2>. HIDE DEF heading, facts, listed, passing
    <2>7. PICK says \in Seq(S) : /\ says = <<heading>> \o facts
                                 /\ ToSet(says) = {heading} \union ToSet(facts)
        <3>1. <<heading>> \in Seq(S) /\ ToSet(<<heading>>) = {heading}
            BY DEF ToSet
        <3>2. ToSet(facts) \subseteq S  OBVIOUS
        <3>. HIDE DEF S
        <3>3. facts \in Seq(S)  BY <2>5, <3>2, SeqMonotonic
        <3>4. PICK one \in Seq(S) : one = <<heading>>  BY <3>1, Zenon
        <3>5. /\ one \o facts \in Seq(S)
              /\ ToSet(one \o facts) = ToSet(one) \union ToSet(facts)
            BY <3>3, ChainSays
        <3>. QED BY <3>1, <3>4, <3>5, Zenon
    <2>. HIDE DEF S
    <2>8. CASE Len(passing) = Len(listed)
        <3>1. ASSUME NEW t \in d.tables \cap filter
              PROVE  \E s \in ToSet(says) : Tells(s, t)
            <4>1. PICK i \in DOMAIN listed : t = listed[i]
                BY <2>1, <2>2, <2>8, <3>1 DEF ToSet
            <4>2. facts[i] = line(t) /\ facts[i] \in ToSet(facts)
                BY <2>5, <4>1 DEF ToSet
            <4>3. Tells(line(t), t)  BY DEF Tells
            <4>. HIDE DEF line
            <4>. QED BY <2>7, <4>2, <4>3
        <3>2. Whole(CutToBudget(says, Budget), d.tables \cap filter)
            BY <3>1, CutAccounts, BudgetIsRoom
        <3>. QED BY <2>3, <2>4, <2>7, <3>2
    <2>9. CASE Len(passing) # Len(listed)
        <3>1. heading.fact = "more" /\ heading \in ToSet(says)
            BY <2>6, <2>7, <2>9
        <3>2. Whole(CutToBudget(says, Budget), d.tables \cap filter)
            BY <3>1, CutAccounts, BudgetIsRoom
        <3>. QED BY <2>3, <2>4, <2>7, <3>2
    <2>. QED BY <2>8, <2>9
<1>. QED BY <1>1 DEF TablesAreListed

(* describe_tables describes every table asked for, or names it as missing,*)
(* or says that there are more.                                            *)
LEMMA AllTablesAreDescribed == TablesAreDescribed
<1>1. ASSUME NEW d \in Databases, NEW c \in TableCalls
      PROVE  Whole(DescribeTables(c, d), ToSet(c))
    <2>. DEFINE named   == ToSet(FirstOf(c, MaxNamed))
                found   == InOrder(named \cap d.tables)
                missing == named \ d.tables
                Section(t) == [fact |-> IF t \in d.broken THEN "noRows"
                                        ELSE "described",
                               about |-> t]
                sections == [i \in DOMAIN found |-> Section(found[i])]
                absent == IF missing = {} THEN <<>>
                          ELSE <<[fact |-> "missing", tables |-> missing]>>
                rest == IF Len(c) <= MaxNamed THEN <<>>
                        ELSE <<[fact |-> "more"]>>
    <2>1. DescribeTables(c, d)
              \in {Failure, Correction,
                   CutToBudget(sections \o absent \o rest, Budget)}
        BY DEF DescribeTables
    <2>2. Whole(Failure, ToSet(c)) /\ Whole(Correction, ToSet(c))
        BY DEF Failure, Correction, Whole
    <2>3. Len(c) <= MaxNamed => named = ToSet(c)
        <3>1. MaxNamed \in Nat /\ c \in Seq(ToSet(c))
            BY BudgetsAssumption, NamesAssumption
        <3>. QED BY <3>1, FirstAreAll
    <2>. HIDE DEF named
    <2>4. found \in Seq(ToSet(TableNames)) /\ ToSet(found) = named \cap d.tables
        <3>1. /\ InOrder(named \cap d.tables) \in Seq(ToSet(TableNames))
              /\ ToSet(InOrder(named \cap d.tables))
                 = (named \cap d.tables) \cap ToSet(TableNames)
            BY InOrderNames
        <3>2. d.tables \subseteq ToSet(TableNames)  BY NamesAssumption
        <3>. QED BY <3>1, <3>2
    <2>. HIDE DEF found
    <2>5. /\ sections \in Seq(ToSet(sections))
          /\ \A t \in named \cap d.tables : Section(t) \in ToSet(sections)
        <3>1. PICK m \in Nat : DOMAIN found = 1..m  BY <2>4, LenProperties
        <3>. HIDE DEF Section
        <3>2. sections = [i \in 1..m |-> sections[i]]  BY <3>1
        <3>3. ASSUME NEW t \in named \cap d.tables
              PROVE  Section(t) \in ToSet(sections)
            <4>1. PICK i \in DOMAIN found : t = found[i]
                BY <2>4, <3>3 DEF ToSet
            <4>2. sections[i] = Section(t) /\ i \in DOMAIN sections
                BY <4>1
            <4>. QED BY <4>2 DEF ToSet
        <3>. HIDE DEF sections
        <3>. QED BY <3>2, <3>3, ListIsSeq
    <2>. DEFINE lost == [fact |-> "missing", tables |-> missing]
                more == [fact |-> "more"]
                S == ToSet(sections) \union {lost, more}
    <2>6. /\ \A t : Tells(Section(t), t)
          /\ \A t \in missing : Tells(lost, t)
          /\ more.fact = "more"
        BY DEF Tells
    <2>7. /\ absent \in Seq({lost}) /\ rest \in Seq({more})
          /\ missing # {} => ToSet(absent) = {lost}
          /\ ~(Len(c) <= MaxNamed) => ToSet(rest) = {more}
        <3>. HIDE DEF lost, more
        <3>1. <<lost>> \in Seq({lost}) /\ ToSet(<<lost>>) = {lost}
            BY DEF ToSet
        <3>2. <<more>> \in Seq({more}) /\ ToSet(<<more>>) = {more}
            BY DEF ToSet
        <3>3. <<>> \in Seq({lost}) /\ <<>> \in Seq({more})  OBVIOUS
        <3>4. absent = IF missing = {} THEN <<>> ELSE <<lost>>
            BY DEF lost
        <3>5. rest = IF Len(c) <= MaxNamed THEN <<>> ELSE <<more>>
            BY DEF more
        <3>. HIDE DEF absent, rest, missing
        <3>. QED BY <3>1, <3>2, <3>3, <3>4, <3>5
    <2>. HIDE DEF sections, absent, rest, lost, more
    <2>8. sections \in Seq(S) /\ absent \in Seq(S) /\ rest \in Seq(S)
        <3>1. ToSet(sections) \subseteq S /\ {lost} \subseteq S
              /\ {more} \subseteq S
            OBVIOUS
        <3>. HIDE DEF S
        <3>. QED BY <2>5, <2>7, <3>1, SeqMonotonic
    <2>. HIDE DEF S
    <2>9. PICK says \in Seq(S) :
              /\ says = sections \o absent \o rest
              /\ ToSet(says) = (ToSet(sections) \union ToSet(absent))
                                   \union ToSet(rest)
        <3>1. PICK two \in Seq(S) :
                  /\ two = sections \o absent
                  /\ ToSet(two) = ToSet(sections) \union ToSet(absent)
            BY <2>8, ChainSays
        <3>2. two \o rest \in Seq(S)
              /\ ToSet(two \o rest) = ToSet(two) \union ToSet(rest)
            BY <2>8, ChainSays
        <3>. QED BY <3>1, <3>2
    <2>10. CASE Len(c) <= MaxNamed
        <3>1. ASSUME NEW t \in ToSet(c)
              PROVE  \E s \in ToSet(says) : Tells(s, t)
            <4>1. CASE t \in d.tables
                <5>1. Section(t) \in ToSet(says)
                    BY <2>3, <2>5, <2>9, <2>10, <3>1, <4>1
                <5>. QED BY <2>6, <5>1
            <4>2. CASE t \notin d.tables
                <5>1. t \in missing  BY <2>3, <2>10, <3>1, <4>2
                <5>2. lost \in ToSet(says)  BY <2>7, <2>9, <5>1
                <5>. QED BY <2>6, <5>1, <5>2
            <4>. QED BY <4>1, <4>2
        <3>2. Whole(CutToBudget(says, Budget), ToSet(c))  BY <3>1, CutAccounts, BudgetIsRoom
        <3>. QED BY <2>1, <2>2, <2>9, <3>2
    <2>11. CASE ~(Len(c) <= MaxNamed)
        <3>1. more \in ToSet(says)  BY <2>7, <2>9, <2>11
        <3>2. Whole(CutToBudget(says, Budget), ToSet(c))
            BY <2>6, <3>1, CutAccounts, BudgetIsRoom
        <3>. QED BY <2>1, <2>2, <2>9, <3>2
    <2>. QED BY <2>10, <2>11
<1>. QED BY <1>1 DEF TablesAreDescribed

(* execute_sql states every row it read, or says it is cut; when it read   *)
(* fewer than the statement matches, it counts to the limit.               *)
LEMMA AllRowsAreCounted == RowsAreCounted
<1>1. ASSUME NEW statement \in Statements, NEW d \in Databases,
             NEW runs \in BOOLEAN, NEW matched \in RowCounts,
             NEW budget \in RowBudgets, NEW reply,
             reply = ExecuteSql(statement, d, runs, matched, budget)
      PROVE  CountsToTheLimit(reply) \/ Whole(reply, 1..matched)
    <2>1. /\ matched \in Nat /\ budget \in Nat \ {0}
          /\ MaxRows \in Nat
        BY BudgetsAssumption
    <2>2. PICK n \in Nat : n = RowsRead(matched)
        BY <2>1 DEF RowsRead
    <2>3. PICK facts : facts = RowFacts(n)  OBVIOUS
    <2>4. /\ facts = [i \in 1..(n + 1) |-> facts[i]]
          /\ \A i \in 1..n : facts[i] = [fact |-> "row", about |-> i]
          /\ facts[n + 1] = [fact |-> "count", rows |-> n]
        BY <2>2, <2>3 DEF RowFacts
    <2>5. facts \in Seq(ToSet(facts)) /\ DOMAIN facts = 1..(n + 1)
        BY <2>2, <2>4, ListIsSeq
    <2>6. \A i \in 1..(n + 1) : facts[i] \in ToSet(facts)
        BY <2>5 DEF ToSet
    <2>7. CASE reply \in {Correction, Failure}
        BY <2>7 DEF Correction, Failure, Whole
    <2>8. CASE reply \notin {Correction, Failure}
        <3>1. reply = CutToBudget(facts, budget)
            BY <1>1, <2>2, <2>3, <2>8 DEF ExecuteSql
        <3>2. CASE n = matched
            <4>1. ASSUME NEW i \in 1..matched PROVE Tells(facts[i], i)
                <5>1. facts[i] = [fact |-> "row", about |-> i]
                    BY <2>4, <3>2, <4>1
                <5>. QED BY <5>1 DEF Tells
            <4>2. \A i \in 1..matched : \E s \in ToSet(facts) : Tells(s, i)
                BY <2>2, <2>6, <3>2, <4>1
            <4>. QED BY <2>1, <2>5, <3>1, <4>2, CutAccounts
        <3>3. CASE n # matched
            <4>1. n = MaxRows  BY <2>2, <3>3 DEF RowsRead
            <4>2. CASE Len(facts) <= budget
                <5>1. reply.says = facts
                    BY <3>1, <4>2 DEF CutToBudget
                <5>2. facts[n + 1] \in ToSet(reply.says)
                    BY <2>2, <2>6, <5>1
                <5>. QED BY <2>4, <4>1, <5>2 DEF CountsToTheLimit
            <4>3. CASE ~(Len(facts) <= budget)
                <5>1. SaysItIsPartial(reply)
                    BY <2>1, <2>5, <3>1, <4>3, CutSaysSo
                <5>. QED BY <5>1 DEF Whole
            <4>. QED BY <4>2, <4>3
        <3>. QED BY <3>2, <3>3
    <2>. QED BY <2>7, <2>8
<1>. QED BY <1>1 DEF RowsAreCounted

(* Whatever tools a response calls, on however many databases, tables and  *)
(* rows and within whatever limits (database.tools.ts), what the model     *)
(* reads accounts for all it asked for or says that it is partial; of a    *)
(* statement that matches more rows than are read, the count says so.      *)
THEOREM ToolTextsAlwaysAccount == Spec => []ToolTextsAccount
<1>1. ToolTextsAccount
    BY AllDatabasesAreListed, AllTablesAreListed, AllTablesAreDescribed,
       AllRowsAreCounted
    DEF ToolTextsAccount
<1>. QED BY <1>1, PTL
=============================================================================
