-------------------------- MODULE ChatTurnsProofs --------------------------
(***************************************************************************)
(* What holds of the turns of a chat for every set of requests and every   *)
(* number of turns, however long a run takes and whenever a process boots. *)
(***************************************************************************)
EXTENDS ChatTurns, SequenceTheorems, TLAPS

-----------------------------------------------------------------------------
(* The inductive invariants.  While the chat stands, a run that holds a    *)
(* turn holds one of the stored ones.                                      *)
HeldTurnsStand ==
    chat.exists => \A r \in Runs : Holds(r) => run[r].index <= Len(turns)

WriterInv == HeldTurnsStand /\ TurnsHaveOneWriter

(* The notes of a view cover its compacted turns, as those of the chat do; *)
(* and the turns of a view are stored turns, older than the one its run    *)
(* has inserted.                                                           *)
ViewsAreWhole ==
    \A r \in Runs :
        /\ {n.turn : n \in run[r].notes} = 1..run[r].compacted
        /\ chat.exists /\ run[r].phase # "idle" => run[r].length <= Len(turns)
        /\ chat.exists /\ Holds(r) => run[r].length < Len(turns)

NotesInv == ViewsAreWhole /\ NotesMatchCount

-----------------------------------------------------------------------------
LEMMA IdleIsRun == Idle \in Run
BY DEF Idle, Run

LEMMA NewTurnIsTurn == NewTurn \in Turn
BY DEF NewTurn, Turn

LEMMA FailedIsTurn == \A t \in Turn : Failed(t) \in Turn
BY DEF Failed, Turn

(* A write to one turn keeps the turns and their number, and a write to a  *)
(* turn that is not there does nothing.                                    *)
LEMMA TurnWritten ==
    ASSUME NEW s \in Seq(Turn), NEW i, NEW t, i \in 1..Len(s) => t \in Turn
    PROVE  /\ [s EXCEPT ![i] = t] \in Seq(Turn)
           /\ Len([s EXCEPT ![i] = t]) = Len(s)
<1>1. CASE i \in 1..Len(s)
  BY <1>1, ExceptSeq
<1>2. CASE i \notin 1..Len(s)
  <2>1. s \in [1..Len(s) -> Turn]
    BY LenProperties
  <2>2. [s EXCEPT ![i] = t] = s
    BY <1>2, <2>1
  <2>. QED BY <2>2
<1>. QED BY <1>1, <1>2

LEMMA TurnAppended ==
    ASSUME NEW s \in Seq(Turn)
    PROVE  /\ Append(s, NewTurn) \in Seq(Turn)
           /\ Len(Append(s, NewTurn)) = Len(s) + 1
BY NewTurnIsTurn, AppendProperties

(* The boot sweep keeps the turns and their number.                        *)
LEMMA TurnsSwept ==
    ASSUME ChatTypeOK, Boot
    PROVE  turns' \in Seq(Turn) /\ Len(turns') = Len(turns)
<1> DEFINE swept(i) == IF turns[i].state = "running" THEN Failed(turns[i])
                       ELSE turns[i]
<1>1. Len(turns) \in Nat /\ turns \in [1..Len(turns) -> Turn]
  BY LenProperties DEF ChatTypeOK
<1>2. \A i \in 1..Len(turns) : swept(i) \in Turn
  BY <1>1, FailedIsTurn
<1>3. turns' = [i \in 1..Len(turns) |-> swept(i)]
  BY DEF Boot
<1> HIDE DEF swept
<1>4. turns' \in [1..Len(turns) -> Turn]
  BY <1>2, <1>3
<1>5. turns' \in Seq(Turn)
  BY <1>1, <1>4, SeqDef
<1>6. DOMAIN turns' = 1..Len(turns) /\ DOMAIN turns' = 1..Len(turns')
  BY <1>4, <1>5, LenProperties
<1>7. Len(turns') \in Nat
  BY <1>5, LenProperties
<1>8. Len(turns') = Len(turns)
  BY <1>1, <1>6, <1>7
<1>. QED BY <1>5, <1>8

LEMMA KeptTurnsBound == \A n \in Int : KeptTurns(n) \in Int /\ KeptTurns(n) >= 2
BY DEF KeptTurns

LEMMA PhaseMoved ==
    ASSUME NEW x \in Run, NEW ph \in {"count", "prompt", "answer"}
    PROVE  LET y == [x EXCEPT !.phase = ph]
           IN  /\ y \in Run /\ y.phase = ph
               /\ y.length = x.length /\ y.compacted = x.compacted
               /\ y.notes = x.notes /\ y.index = x.index
BY DEF Run

(* The view a run reads. *)
LEMMA ViewRead ==
    ASSUME ChatTypeOK, NEW r \in Runs, ReadChat(r)
    PROVE  \E x \in Run : /\ run' = [run EXCEPT ![r] = x]
                          /\ x.phase \in {"stale", "count"}
                          /\ x.length = Len(turns)
                          /\ x.compacted = chat.compactedTurnCount
                          /\ x.notes = chat.notes
<1> DEFINE x == [phase |-> IF NewestRunning THEN "stale" ELSE "count",
                 length |-> Len(turns),
                 compacted |-> chat.compactedTurnCount,
                 notes |-> chat.notes,
                 answered |-> {i \in 1..Len(turns) : turns[i].answered},
                 index |-> 0]
<1>1. Len(turns) \in Nat
  BY LenProperties DEF ChatTypeOK
<1>2. {i \in 1..Len(turns) : turns[i].answered} \in SUBSET Nat
  BY <1>1
<1>3. chat.compactedTurnCount \in Nat /\ chat.notes \in SUBSET Note
  BY DEF ChatTypeOK, Chat
<1>4. x \in Run
  BY <1>1, <1>2, <1>3 DEF Run
<1>5. run' = [run EXCEPT ![r] = x]
  BY DEF ReadChat
<1>6. x.phase \in {"stale", "count"}
  OBVIOUS
<1>. QED BY <1>4, <1>5, <1>6

LEMMA TurnsCounted ==
    ASSUME ChatTypeOK, NEW r \in Runs, CountTurns(r)
    PROVE  \E x \in Run : /\ run' = [run EXCEPT ![r] = x]
                          /\ x.phase = "insert"
                          /\ x.index = Len(turns) + 1
                          /\ x.length = run[r].length
                          /\ x.compacted = run[r].compacted
                          /\ x.notes = run[r].notes
<1> DEFINE x == [run[r] EXCEPT !.phase = "insert", !.index = Len(turns) + 1]
<1>1. Len(turns) + 1 \in Nat /\ run[r] \in Run
  BY LenProperties DEF ChatTypeOK
<1>2. \A y \in Run, n \in Nat :
         LET z == [y EXCEPT !.phase = "insert", !.index = n]
         IN  /\ z \in Run /\ z.phase = "insert" /\ z.index = n
             /\ z.length = y.length /\ z.compacted = y.compacted
             /\ z.notes = y.notes
  BY DEF Run
<1>3. run' = [run EXCEPT ![r] = x]
  BY DEF CountTurns
<1>4. /\ x \in Run /\ x.phase = "insert" /\ x.index = Len(turns) + 1
      /\ x.length = run[r].length /\ x.compacted = run[r].compacted
      /\ x.notes = run[r].notes
  BY <1>1, <1>2
<1> HIDE DEF x
<1>. QED BY <1>3, <1>4

(* What a compaction writes on the chat row. *)
LEMMA Compacted ==
    ASSUME ChatTypeOK, NEW r \in Runs, Compact(r)
    PROVE  /\ chat' \in Chat
           /\ chat'.exists = chat.exists
           /\ chat'.notes = Notes(r)
           /\ chat'.compactedTurnCount = run[r].compacted + CompactedTurns(r)
           /\ CompactedTurns(r) \in Nat \ {0}
           /\ chat'.compactedTurnCount + 1 <= run[r].length
<1>1. /\ run[r].compacted \in Nat /\ run[r].length \in Nat
      /\ run[r].notes \in SUBSET Note
  BY DEF ChatTypeOK, Run
<1>2. MessageTurns(r) \in Int
  BY <1>1 DEF MessageTurns
<1>3. /\ KeptTurns(MessageTurns(r)) \in Int
      /\ KeptTurns(MessageTurns(r)) >= 2
  BY <1>2, KeptTurnsBound
<1>4. CompactedTurns(r) \in Nat \ {0}
  BY <1>2, <1>3 DEF Compact, CompactedTurns
<1>5. run[r].compacted + CompactedTurns(r) + 1 <= run[r].length
  BY <1>1, <1>2, <1>3 DEF CompactedTurns, MessageTurns
<1> DEFINE newly == {[turn |-> i, answered |-> i \in run[r].answered] :
                       i \in run[r].compacted + 1 ..
                               run[r].compacted + CompactedTurns(r)}
<1>6. newly \in SUBSET Note
  <2>1. \A i \in run[r].compacted + 1 .. run[r].compacted + CompactedTurns(r) :
           i \in Nat
    BY <1>1, <1>4
  <2>2. \A i \in Nat, b \in BOOLEAN : [turn |-> i, answered |-> b] \in Note
    BY DEF Note
  <2>3. \A i : (i \in run[r].answered) \in BOOLEAN
    OBVIOUS
  <2>. QED BY <2>1, <2>2, <2>3, Zenon
<1>7. Notes(r) \in SUBSET Note
  BY <1>1, <1>6 DEF Notes
<1> HIDE DEF newly
<1>8. chat' = [chat EXCEPT
                 !.notes = Notes(r),
                 !.compactedTurnCount = run[r].compacted + CompactedTurns(r)]
  BY DEF Compact
<1>9. chat \in Chat /\ run[r].compacted + CompactedTurns(r) \in Nat
  BY <1>1, <1>4 DEF ChatTypeOK
<1>10. /\ chat' \in Chat /\ chat'.exists = chat.exists
       /\ chat'.notes = Notes(r)
       /\ chat'.compactedTurnCount = run[r].compacted + CompactedTurns(r)
  BY <1>7, <1>8, <1>9 DEF Chat
<1>. QED BY <1>4, <1>5, <1>10
-----------------------------------------------------------------------------
(* Most steps are quiet: they leave the chat row and the number of turns   *)
(* alone, and a run they move either ends or keeps its view and takes no   *)
(* turn.                                                                   *)
Ended(x) == x.phase = "idle" /\ x.compacted = 0 /\ x.notes = {}

GoesOn(x, y) ==
    /\ x.phase # "idle"
    /\ y.length = x.length /\ y.compacted = x.compacted /\ y.notes = x.notes
    /\ y.phase \in {"prompt", "answer"}
          => x.phase \in {"prompt", "answer"} /\ y.index = x.index

Quiet ==
    /\ up' \in BOOLEAN
    /\ chat' = chat
    /\ turns' \in Seq(Turn) /\ Len(turns') = Len(turns)
    /\ run' \in [Runs -> Run]
    /\ overrun' \subseteq 1..Len(turns)
    /\ \A s \in Runs : \/ Ended(run'[s])
                       \/ GoesOn(run[s], run'[s])
                       \/ run'[s] = run[s]

LEMMA IdleIsEnded == Ended(Idle)
BY DEF Ended, Idle

(* A step of one run that writes at most a turn already there. *)
LEMMA QuietRun ==
    ASSUME ChatTypeOK, NEW r \in Runs, NEW x \in Run,
           run' = [run EXCEPT ![r] = x],
           Ended(x) \/ GoesOn(run[r], x),
           up' = up, chat' = chat, overrun' \subseteq overrun,
           turns' \in Seq(Turn), Len(turns') = Len(turns)
    PROVE  Quiet
BY DEF ChatTypeOK, Quiet

LEMMA QuietFailStaleTurn ==
    ASSUME ChatTypeOK, NEW r \in Runs, FailStaleTurn(r)
    PROVE  Quiet
<1> DEFINE x == [run[r] EXCEPT !.phase = "count"]
<1>1. /\ x \in Run /\ x.phase = "count"
      /\ x.length = run[r].length /\ x.compacted = run[r].compacted
      /\ x.notes = run[r].notes
  BY PhaseMoved DEF ChatTypeOK
<1>2. run' = [run EXCEPT ![r] = x] /\ run[r].phase = "stale"
  BY DEF FailStaleTurn
<1> HIDE DEF x
<1>3. GoesOn(run[r], x)
  BY <1>1, <1>2 DEF GoesOn
<1>4. turns' = [turns EXCEPT ![run[r].length] = Failed(turns[run[r].length])]
  BY DEF FailStaleTurn
<1>5. run[r].length \in 1..Len(turns) => Failed(turns[run[r].length]) \in Turn
  BY ElementOfSeq, FailedIsTurn DEF ChatTypeOK
<1>6. turns' \in Seq(Turn) /\ Len(turns') = Len(turns)
  BY <1>4, <1>5, TurnWritten DEF ChatTypeOK
<1>7. up' = up /\ chat' = chat /\ overrun' \subseteq overrun
  BY DEF FailStaleTurn, Forget
<1>. QED BY <1>1, <1>2, <1>3, <1>6, <1>7, QuietRun

LEMMA QuietCountTurns ==
    ASSUME ChatTypeOK, NEW r \in Runs, CountTurns(r)
    PROVE  Quiet
<1>1. PICK x \in Run : /\ run' = [run EXCEPT ![r] = x]
                       /\ x.phase = "insert"
                       /\ x.index = Len(turns) + 1
                       /\ x.length = run[r].length
                       /\ x.compacted = run[r].compacted
                       /\ x.notes = run[r].notes
  BY TurnsCounted
<1>2. GoesOn(run[r], x)
  BY <1>1 DEF CountTurns, GoesOn
<1>3. /\ up' = up /\ chat' = chat /\ turns' = turns
      /\ overrun' \subseteq overrun
  BY DEF CountTurns
<1>4. turns' \in Seq(Turn) /\ Len(turns') = Len(turns)
  BY <1>3 DEF ChatTypeOK
<1>. QED BY <1>1, <1>2, <1>3, <1>4, QuietRun

LEMMA QuietCompleteTurn ==
    ASSUME ChatTypeOK, NEW r \in Runs, CompleteTurn(r)
    PROVE  Quiet
<1>1. PICK outcome \in {"done", "error"} :
         turns' = [turns EXCEPT ![run[r].index] =
                     [state |-> outcome, old |-> FALSE, answered |-> TRUE]]
  BY DEF CompleteTurn
<1>2. [state |-> outcome, old |-> FALSE, answered |-> TRUE] \in Turn
  BY DEF Turn
<1>3. turns' \in Seq(Turn) /\ Len(turns') = Len(turns)
  BY <1>1, <1>2, TurnWritten DEF ChatTypeOK
<1>4. /\ run' = [run EXCEPT ![r] = Idle]
      /\ up' = up /\ chat' = chat /\ overrun' \subseteq overrun
  BY DEF CompleteTurn, Forget
<1>. QED BY <1>3, <1>4, IdleIsRun, IdleIsEnded, QuietRun

(* A step that leaves every run where it is, or ends them all.             *)
LEMMA QuietOutside ==
    ASSUME ChatTypeOK, chat' = chat, up' \in BOOLEAN,
           turns' \in Seq(Turn), Len(turns') = Len(turns),
           overrun' \subseteq 1..Len(turns),
           run' = run \/ run' = [r \in Runs |-> Idle]
    PROVE  Quiet
BY IdleIsRun, IdleIsEnded DEF ChatTypeOK, Quiet

LEMMA QuietElapse ==
    ASSUME ChatTypeOK, NEW i \in 1..MaxTurns, Elapse(i)
    PROVE  Quiet
<1>1. \A t \in Turn : [t EXCEPT !.old = TRUE] \in Turn
  BY DEF Turn
<1>2. turns' = [turns EXCEPT ![i] = [turns[i] EXCEPT !.old = TRUE]]
  BY DEF Elapse
<1>3. i \in 1..Len(turns) => [turns[i] EXCEPT !.old = TRUE] \in Turn
  BY <1>1, ElementOfSeq DEF ChatTypeOK
<1>4. turns' \in Seq(Turn) /\ Len(turns') = Len(turns)
  BY <1>2, <1>3, TurnWritten DEF ChatTypeOK
<1>5. up' = up /\ chat' = chat /\ run' = run
  BY DEF Elapse
<1>6. overrun' \subseteq overrun \cup {i} /\ i \in 1..Len(turns)
  BY DEF Elapse
<1>. QED BY <1>4, <1>5, <1>6, QuietOutside DEF ChatTypeOK

LEMMA QuietBoot == ASSUME ChatTypeOK, Boot PROVE Quiet
<1>1. up' \in BOOLEAN /\ chat' = chat /\ run' = run
  BY DEF Boot
<1>2. overrun' \subseteq 1..Len(turns)
  BY DEF Boot, ChatTypeOK
<1>. QED BY <1>1, <1>2, TurnsSwept, QuietOutside

LEMMA QuietStop == ASSUME ChatTypeOK, Stop PROVE Quiet
<1>1. /\ up' = FALSE /\ chat' = chat /\ turns' = turns
      /\ run' = [r \in Runs |-> Idle] /\ overrun' = {}
  BY DEF Stop
<1>. QED BY <1>1, QuietOutside DEF ChatTypeOK

LEMMA QuietRefusal ==
    ASSUME ChatTypeOK, NEW r \in Runs,
           run' = [run EXCEPT ![r] = Idle],
           UNCHANGED <<up, chat, turns>>,
           overrun' \subseteq overrun
    PROVE  Quiet
<1>1. up' = up /\ chat' = chat /\ turns' = turns
  OBVIOUS
<1>2. turns' \in Seq(Turn) /\ Len(turns') = Len(turns)
  BY <1>1 DEF ChatTypeOK
<1>. QED BY <1>1, <1>2, IdleIsRun, IdleIsEnded, QuietRun

(* The question got its turn. *)
Inserted(r) ==
    /\ chat.exists
    /\ run[r].phase = "insert"
    /\ run[r].index = Len(turns) + 1
    /\ turns' = Append(turns, NewTurn)
    /\ run' = [run EXCEPT ![r] = [run[r] EXCEPT !.phase = "prompt"]]
    /\ up' = up /\ chat' = chat /\ overrun' = overrun

LEMMA StepKinds ==
    ASSUME ChatTypeOK, [Next]_vars
    PROVE  \/ Quiet
           \/ DeleteChat
           \/ \E r \in Runs : ReadChat(r) \/ Inserted(r) \/ Compact(r)
<1>1. ASSUME NEW r \in Runs, RunStep(r)
      PROVE  Quiet \/ Inserted(r) \/ Compact(r)
  <2>1. CASE FailStaleTurn(r)
    BY <2>1, QuietFailStaleTurn
  <2>2. CASE CountTurns(r)
    BY <2>2, QuietCountTurns
  <2>3. CASE InsertTurn(r)
    <3>1. CASE run[r].index = Len(turns) + 1
      BY <2>3, <3>1 DEF InsertTurn, Inserted
    <3>2. CASE run[r].index # Len(turns) + 1
      BY <2>3, <3>2, QuietRefusal DEF InsertTurn
    <3>. QED BY <3>1, <3>2
  <2>4. CASE CompleteTurn(r)
    BY <2>4, QuietCompleteTurn
  <2>5. CASE FailRun(r)
    BY <2>5, QuietRefusal DEF FailRun, Forget
  <2>. QED BY <1>1, <2>1, <2>2, <2>3, <2>4, <2>5 DEF RunStep
<1>2. CASE UNCHANGED vars
  <2>1. /\ up' = up /\ chat' = chat /\ turns' = turns /\ run' = run
        /\ overrun' = overrun
    BY <1>2 DEF vars
  <2>. QED BY <2>1, QuietOutside DEF ChatTypeOK
<1>. QED BY <1>1, <1>2, QuietElapse, QuietBoot, QuietStop DEF Next

-----------------------------------------------------------------------------
LEMMA TypeStep == ASSUME ChatTypeOK, [Next]_vars PROVE ChatTypeOK'
<1>1. CASE Quiet
  BY <1>1 DEF Quiet, ChatTypeOK
<1>2. CASE DeleteChat
  <2>1. [exists |-> FALSE, compactedTurnCount |-> 0, notes |-> {}] \in Chat
    BY DEF Chat
  <2>. QED BY <1>2, <2>1 DEF DeleteChat, ChatTypeOK
<1>3. ASSUME NEW r \in Runs, ReadChat(r) PROVE ChatTypeOK'
  <2>1. up' = up /\ chat' = chat /\ turns' = turns /\ overrun' = overrun
    BY <1>3 DEF ReadChat
  <2>. QED BY <1>3, <2>1, ViewRead DEF ChatTypeOK
<1>4. ASSUME NEW r \in Runs, Inserted(r) PROVE ChatTypeOK'
  <2>1. [run[r] EXCEPT !.phase = "prompt"] \in Run
    BY PhaseMoved DEF ChatTypeOK
  <2>2. overrun' \subseteq 1..Len(turns) /\ Len(turns) \in Nat
    BY <1>4, LenProperties DEF Inserted, ChatTypeOK
  <2>3. turns' \in Seq(Turn) /\ Len(turns') = Len(turns) + 1
    BY <1>4, TurnAppended DEF Inserted, ChatTypeOK
  <2>4. overrun' \subseteq 1..Len(turns')
    BY <2>2, <2>3
  <2>. QED BY <1>4, <2>1, <2>3, <2>4 DEF Inserted, ChatTypeOK
<1>5. ASSUME NEW r \in Runs, Compact(r) PROVE ChatTypeOK'
  <2>1. [run[r] EXCEPT !.phase = "answer"] \in Run
    BY PhaseMoved DEF ChatTypeOK
  <2>2. /\ run' = [run EXCEPT ![r] = [run[r] EXCEPT !.phase = "answer"]]
        /\ up' = up /\ turns' = turns /\ overrun' = overrun
    BY <1>5 DEF Compact
  <2>. QED BY <1>5, <2>1, <2>2, Compacted DEF ChatTypeOK
<1>. QED BY <1>1, <1>2, <1>3, <1>4, <1>5, StepKinds

(* Every reachable state is of its type: the chat row, the turns and what  *)
(* each request holds of them.                                             *)
THEOREM ChatTypeCorrect == Spec => []ChatTypeOK
<1>1. Init => ChatTypeOK
  <2>1. [exists |-> TRUE, compactedTurnCount |-> 0, notes |-> {}] \in Chat
    BY DEF Chat
  <2>. QED BY <2>1, IdleIsRun, EmptySeq DEF Init, ChatTypeOK
<1>2. ChatTypeOK /\ [Next]_vars => ChatTypeOK'
  BY TypeStep
<1>. QED BY <1>1, <1>2, PTL DEF Spec

-----------------------------------------------------------------------------
LEMMA WriterStep ==
    ASSUME ChatTypeOK, WriterInv, [Next]_vars
    PROVE  WriterInv'
<1>1. CASE Quiet
  <2>1. \A s \in Runs : Holds(s)' => Holds(s) /\ run'[s].index = run[s].index
    BY <1>1 DEF Quiet, Ended, GoesOn, Holds
  <2>2. chat' = chat /\ Len(turns') = Len(turns)
    BY <1>1 DEF Quiet
  <2>. QED BY <2>1, <2>2 DEF WriterInv, HeldTurnsStand, TurnsHaveOneWriter
<1>2. CASE DeleteChat
  <2>1. chat'.exists = FALSE /\ run' = run
    BY <1>2 DEF DeleteChat
  <2>. QED BY <2>1 DEF WriterInv, HeldTurnsStand, TurnsHaveOneWriter, Holds
<1>3. ASSUME NEW r \in Runs, ReadChat(r) PROVE WriterInv'
  <2>1. chat' = chat /\ turns' = turns
    BY <1>3 DEF ReadChat
  <2>2. PICK x \in Run : /\ run' = [run EXCEPT ![r] = x]
                         /\ x.phase \in {"stale", "count"}
    BY <1>3, ViewRead
  <2>3. \A s \in Runs : Holds(s)' => Holds(s) /\ run'[s].index = run[s].index
    BY <2>2 DEF ChatTypeOK, Holds
  <2>. QED BY <2>1, <2>3 DEF WriterInv, HeldTurnsStand, TurnsHaveOneWriter
<1>4. ASSUME NEW r \in Runs, Inserted(r) PROVE WriterInv'
  <2>1. /\ run'[r].index = run[r].index
        /\ \A s \in Runs : s # r => run'[s] = run[s]
    <3>1. [run[r] EXCEPT !.phase = "prompt"].index = run[r].index
      BY PhaseMoved DEF ChatTypeOK
    <3>. QED BY <1>4, <3>1 DEF Inserted, ChatTypeOK
  <2>2. /\ Len(turns) \in Nat /\ Len(turns') = Len(turns) + 1
        /\ run[r].index = Len(turns) + 1
    BY <1>4, TurnAppended, LenProperties DEF Inserted, ChatTypeOK
  <2>3. \A s \in Runs : s # r /\ Holds(s)' =>
           /\ run'[s].index = run[s].index /\ run[s].index <= Len(turns)
           /\ run[s].index \in Nat /\ Holds(s)
    BY <1>4, <2>1 DEF Inserted, WriterInv, HeldTurnsStand, Holds,
                      ChatTypeOK, Run
  <2>4. HeldTurnsStand'
    BY <2>1, <2>2, <2>3 DEF HeldTurnsStand
  <2>5. TurnsHaveOneWriter'
    BY <2>1, <2>2, <2>3 DEF TurnsHaveOneWriter, WriterInv
  <2>. QED BY <2>4, <2>5 DEF WriterInv
<1>5. ASSUME NEW r \in Runs, Compact(r) PROVE WriterInv'
  <2>1. run[r].phase = "prompt" /\ turns' = turns /\ chat.exists
    BY <1>5 DEF Compact
  <2>2. run' = [run EXCEPT ![r] = [run[r] EXCEPT !.phase = "answer"]]
    BY <1>5 DEF Compact
  <2>3. [run[r] EXCEPT !.phase = "answer"].index = run[r].index
    BY PhaseMoved DEF ChatTypeOK
  <2>4. \A s \in Runs : Holds(s)' => Holds(s) /\ run'[s].index = run[s].index
    BY <2>1, <2>2, <2>3 DEF Holds, ChatTypeOK
  <2>. QED BY <2>1, <2>4 DEF WriterInv, HeldTurnsStand, TurnsHaveOneWriter
<1>. QED BY <1>1, <1>2, <1>3, <1>4, <1>5, StepKinds

(* Whatever questions, restarts and releases interleave, no two runs ever  *)
(* write into one turn: the primary key decides every race for an index.   *)
THEOREM TurnsAlwaysHaveOneWriter == Spec => []TurnsHaveOneWriter
<1>1. Init => WriterInv
  BY DEF Init, WriterInv, HeldTurnsStand, TurnsHaveOneWriter, Holds, Idle
<1>2. ChatTypeOK /\ WriterInv /\ [Next]_vars => WriterInv'
  BY WriterStep
<1>3. WriterInv => TurnsHaveOneWriter
  BY DEF WriterInv
<1>. QED BY <1>1, <1>2, <1>3, ChatTypeCorrect, PTL DEF Spec

-----------------------------------------------------------------------------
(* The notes of a run, once it compacts, tell of every turn up to its new  *)
(* count and of no other.                                                  *)
LEMMA NotesCover ==
    ASSUME ChatTypeOK, ViewsAreWhole, NEW r \in Runs,
           CompactedTurns(r) \in Nat
    PROVE  {n.turn : n \in Notes(r)} = 1..run[r].compacted + CompactedTurns(r)
<1> DEFINE c == run[r].compacted
           k == CompactedTurns(r)
           newly == {[turn |-> i, answered |-> i \in run[r].answered] :
                       i \in c + 1 .. c + k}
<1>1. c \in Nat
  BY DEF ChatTypeOK, Run
<1>2. {n.turn : n \in run[r].notes} = 1..c
  BY DEF ViewsAreWhole
<1>3. {n.turn : n \in newly} = c + 1 .. c + k
  <2> DEFINE note(i) == [turn |-> i, answered |-> i \in run[r].answered]
  <2>1. \A i : note(i).turn = i
    OBVIOUS
  <2>2. newly = {note(i) : i \in c + 1 .. c + k}
    OBVIOUS
  <2> HIDE DEF note, newly, c, k
  <2>. QED BY <2>1, <2>2
<1>4. Notes(r) = run[r].notes \cup newly
  BY DEF Notes
<1> HIDE DEF newly, c, k
<1>5. {n.turn : n \in Notes(r)} = (1..c) \cup (c + 1 .. c + k)
  BY <1>2, <1>3, <1>4
<1>6. k \in Nat
  BY DEF k
<1>7. (1..c) \cup (c + 1 .. c + k) = 1..c + k
  BY <1>1, <1>6
<1>. QED BY <1>5, <1>7 DEF c, k

LEMMA NotesStep ==
    ASSUME ChatTypeOK, NotesInv, [Next]_vars
    PROVE  NotesInv'
<1>0. Len(turns) \in Nat /\ \A s \in Runs : run[s].length \in Nat
  BY LenProperties DEF ChatTypeOK, Run
<1>1. CASE Quiet
  <2>1. chat' = chat /\ Len(turns') = Len(turns)
    BY <1>1 DEF Quiet
  <2>2. ASSUME NEW s \in Runs
        PROVE  /\ {n.turn : n \in run'[s].notes} = 1..run'[s].compacted
               /\ chat'.exists /\ run'[s].phase # "idle"
                     => run'[s].length <= Len(turns')
               /\ chat'.exists /\ Holds(s)' => run'[s].length < Len(turns')
    <3>1. CASE Ended(run'[s])
      BY <3>1 DEF Ended, Holds
    <3>2. CASE GoesOn(run[s], run'[s])
      BY <2>1, <3>2 DEF GoesOn, Holds, NotesInv, ViewsAreWhole
    <3>3. CASE run'[s] = run[s]
      BY <2>1, <3>3 DEF Holds, NotesInv, ViewsAreWhole
    <3>. QED BY <1>1, <3>1, <3>2, <3>3 DEF Quiet
  <2>. QED BY <2>1, <2>2 DEF NotesInv, ViewsAreWhole, NotesMatchCount
<1>2. CASE DeleteChat
  <2>1. /\ chat'.exists = FALSE /\ chat'.notes = {}
        /\ chat'.compactedTurnCount = 0 /\ run' = run
    BY <1>2 DEF DeleteChat
  <2>2. NotesMatchCount'
    BY <2>1 DEF NotesMatchCount
  <2>. QED BY <2>1, <2>2 DEF NotesInv, ViewsAreWhole, Holds
<1>3. ASSUME NEW r \in Runs, ReadChat(r) PROVE NotesInv'
  <2>1. chat' = chat /\ turns' = turns
    BY <1>3 DEF ReadChat
  <2>2. PICK x \in Run : /\ run' = [run EXCEPT ![r] = x]
                         /\ x.phase \in {"stale", "count"}
                         /\ x.length = Len(turns)
                         /\ x.compacted = chat.compactedTurnCount
                         /\ x.notes = chat.notes
    BY <1>3, ViewRead
  <2>3. run'[r] = x /\ \A s \in Runs : s # r => run'[s] = run[s]
    BY <2>2 DEF ChatTypeOK
  <2>4. ViewsAreWhole'
    BY <1>0, <2>1, <2>2, <2>3
       DEF ViewsAreWhole, NotesInv, NotesMatchCount, Holds
  <2>. QED BY <2>1, <2>4 DEF NotesInv, NotesMatchCount
<1>4. ASSUME NEW r \in Runs, Inserted(r) PROVE NotesInv'
  <2> DEFINE x == [run[r] EXCEPT !.phase = "prompt"]
  <2>1. /\ x.length = run[r].length /\ x.compacted = run[r].compacted
        /\ x.notes = run[r].notes
    BY PhaseMoved DEF ChatTypeOK
  <2>2. run'[r] = x /\ \A s \in Runs : s # r => run'[s] = run[s]
    BY <1>4 DEF Inserted, ChatTypeOK
  <2> HIDE DEF x
  <2>3. chat' = chat /\ chat.exists /\ run[r].phase = "insert"
    BY <1>4 DEF Inserted
  <2>4. Len(turns') = Len(turns) + 1
    BY <1>4, TurnAppended DEF Inserted, ChatTypeOK
  <2>5. ASSUME NEW s \in Runs
        PROVE  /\ {n.turn : n \in run'[s].notes} = 1..run'[s].compacted
               /\ chat'.exists /\ run'[s].phase # "idle"
                     => run'[s].length <= Len(turns')
               /\ chat'.exists /\ Holds(s)' => run'[s].length < Len(turns')
    <3>1. CASE s = r
      BY <1>0, <2>1, <2>2, <2>3, <2>4, <3>1 DEF NotesInv, ViewsAreWhole
    <3>2. CASE s # r
      BY <1>0, <2>2, <2>3, <2>4, <3>2 DEF NotesInv, ViewsAreWhole, Holds
    <3>. QED BY <3>1, <3>2
  <2>6. NotesMatchCount'
    <3>1. chat.compactedTurnCount \in Nat
      BY DEF ChatTypeOK, Chat
    <3>. QED BY <1>0, <2>3, <2>4, <3>1 DEF NotesInv, NotesMatchCount
  <2>. QED BY <2>5, <2>6 DEF NotesInv, ViewsAreWhole
<1>5. ASSUME NEW r \in Runs, Compact(r) PROVE NotesInv'
  <2> DEFINE x == [run[r] EXCEPT !.phase = "answer"]
  <2>1. /\ x.length = run[r].length /\ x.compacted = run[r].compacted
        /\ x.notes = run[r].notes
    BY PhaseMoved DEF ChatTypeOK
  <2>2. run' = [run EXCEPT ![r] = x] /\ turns' = turns
    BY <1>5 DEF Compact
  <2>3. run'[r] = x /\ \A s \in Runs : s # r => run'[s] = run[s]
    BY <2>2 DEF ChatTypeOK
  <2> HIDE DEF x
  <2>4. /\ chat'.exists = chat.exists /\ chat'.notes = Notes(r)
        /\ chat'.compactedTurnCount = run[r].compacted + CompactedTurns(r)
        /\ chat'.compactedTurnCount + 1 <= run[r].length
        /\ CompactedTurns(r) \in Nat /\ chat'.compactedTurnCount \in Nat
    BY <1>5, Compacted DEF Chat
  <2>5. chat.exists /\ Holds(r)
    BY <1>5 DEF Compact, Holds
  <2>6. run[r].length < Len(turns)
    BY <2>5 DEF NotesInv, ViewsAreWhole
  <2>7. NotesMatchCount'
    <3>1. {n.turn : n \in chat'.notes} = 1..chat'.compactedTurnCount
      BY <2>4, NotesCover DEF NotesInv
    <3>2. chat'.compactedTurnCount + 2 <= Len(turns')
      BY <1>0, <2>2, <2>4, <2>6
    <3>. QED BY <3>1, <3>2 DEF NotesMatchCount
  <2>8. ASSUME NEW s \in Runs
        PROVE  /\ {n.turn : n \in run'[s].notes} = 1..run'[s].compacted
               /\ chat'.exists /\ run'[s].phase # "idle"
                     => run'[s].length <= Len(turns')
               /\ chat'.exists /\ Holds(s)' => run'[s].length < Len(turns')
    <3>1. CASE s = r
      BY <1>0, <2>1, <2>2, <2>3, <2>6, <3>1 DEF NotesInv, ViewsAreWhole
    <3>2. CASE s # r
      BY <2>2, <2>3, <2>4, <3>2 DEF NotesInv, ViewsAreWhole, Holds
    <3>. QED BY <3>1, <3>2
  <2>. QED BY <2>7, <2>8 DEF NotesInv, ViewsAreWhole
<1>. QED BY <1>1, <1>2, <1>3, <1>4, <1>5, StepKinds

(* The notes and the compacted count of a chat always agree, and the two   *)
(* newest turns are never compacted, whichever of two runs with different  *)
(* old views writes last.                                                  *)
THEOREM NotesAlwaysMatchCount == Spec => []NotesMatchCount
<1>1. Init => NotesInv
  <2>1. ASSUME Init PROVE NotesInv
    <3>1. chat.notes = {} /\ chat.compactedTurnCount = 0
      BY <2>1 DEF Init
    <3>2. \A r \in Runs : /\ run[r].notes = {} /\ run[r].compacted = 0
                          /\ run[r].phase = "idle"
      BY <2>1 DEF Init, Idle
    <3>. QED BY <3>1, <3>2 DEF NotesInv, ViewsAreWhole, NotesMatchCount, Holds
  <2>. QED BY <2>1
<1>2. ChatTypeOK /\ NotesInv /\ [Next]_vars => NotesInv'
  BY NotesStep
<1>3. NotesInv => NotesMatchCount
  BY DEF NotesInv
<1>. QED BY <1>1, <1>2, <1>3, ChatTypeCorrect, PTL DEF Spec

-----------------------------------------------------------------------------
(* What makes an outcome final.  Of the turns that no history tells of, a  *)
(* turn that a run holds is running and young, and a turn that a run is    *)
(* about to fail is failed already or old, so nobody holds it.             *)
Written(r) ==
    /\ run[r].index \in 1..Len(turns)
    /\ \/ run[r].index \in overrun
       \/ /\ turns[run[r].index].state = "running"
          /\ ~turns[run[r].index].old

ToFail(r) ==
    /\ run[r].length \in 1..Len(turns)
    /\ \/ run[r].length \in overrun
       \/ turns[run[r].length].state = "error"
       \/ turns[run[r].length].state = "running" /\ turns[run[r].length].old

TurnsAreWritten ==
    \A r \in Runs : /\ Holds(r) => Written(r)
                    /\ run[r].phase = "stale" => ToFail(r)

SettledInv == chat.exists => TurnsAreWritten

Settles ==
    \A i \in 1..Len(turns) :
        i <= Len(turns') /\ turns[i].state # "running" /\ i \notin overrun
            => turns'[i].state = turns[i].state

(* Every run that holds or is about to fail a turn did so before.          *)
RunsGoOn ==
    \A r \in Runs :
        /\ Holds(r)' => Holds(r) /\ run'[r].index = run[r].index
        /\ run'[r].phase = "stale" =>
               run[r].phase = "stale" /\ run'[r].length = run[r].length

(* The history keeps what a run may yet write.                             *)
Remembers == \A i \in overrun : Wanted(i)' => i \in overrun'

LEMMA Overwritten ==
    ASSUME ChatTypeOK, NEW i \in 1..Len(turns), NEW t \in Turn,
           turns' = [turns EXCEPT ![i] = t]
    PROVE  /\ Len(turns') = Len(turns)
           /\ turns'[i] = t
           /\ \A j \in 1..Len(turns) : j # i => turns'[j] = turns[j]
<1>1. turns \in Seq(Turn)
  BY DEF ChatTypeOK
<1>. QED BY <1>1, ExceptSeq

(* A step that leaves the turns alone.                                     *)
LEMMA TurnsKept ==
    ASSUME SettledInv, RunsGoOn, turns' = turns, Remembers,
           chat'.exists => chat.exists
    PROVE  SettledInv' /\ Settles
<1>1. ASSUME TurnsAreWritten PROVE TurnsAreWritten'
  <2>1. ASSUME NEW r \in Runs, Holds(r)' PROVE Written(r)'
    <3>1. Written(r) /\ run'[r].index = run[r].index
      BY <1>1, <2>1 DEF TurnsAreWritten, RunsGoOn
    <3>2. Wanted(run[r].index)'
      BY <2>1, <3>1 DEF Wanted, Held
    <3>. QED BY <3>1, <3>2 DEF Written, Remembers
  <2>2. ASSUME NEW r \in Runs, run'[r].phase = "stale" PROVE ToFail(r)'
    <3>1. ToFail(r) /\ run'[r].length = run[r].length
      BY <1>1, <2>2 DEF TurnsAreWritten, RunsGoOn
    <3>2. Wanted(run[r].length)'
      BY <2>2, <3>1 DEF Wanted
    <3>. QED BY <3>1, <3>2 DEF ToFail, Remembers
  <2>. QED BY <2>1, <2>2 DEF TurnsAreWritten
<1>2. Settles
  BY DEF Settles
<1>. QED BY <1>1, <1>2 DEF SettledInv

(* A run that ends, or goes on without a new hold.                         *)
LEMMA RunMoved ==
    ASSUME ChatTypeOK, NEW r \in Runs,
           \E x \in Run : /\ run' = [run EXCEPT ![r] = x]
                          /\ x.phase \in {"idle", "count", "insert", "answer"}
                          /\ x.phase = "answer" =>
                                 Holds(r) /\ x.index = run[r].index
    PROVE  RunsGoOn
<1>1. PICK x \in Run : /\ run' = [run EXCEPT ![r] = x]
                       /\ x.phase \in {"idle", "count", "insert", "answer"}
                       /\ x.phase = "answer" =>
                              Holds(r) /\ x.index = run[r].index
  OBVIOUS
<1>2. \A s \in Runs : run'[s] = IF s = r THEN x ELSE run[s]
  BY <1>1 DEF ChatTypeOK
<1>. QED BY <1>1, <1>2 DEF RunsGoOn, Holds

LEMMA RunEnded ==
    ASSUME ChatTypeOK, NEW r \in Runs, run' = [run EXCEPT ![r] = Idle]
    PROVE  RunsGoOn
<1>1. Idle \in Run /\ Idle.phase = "idle"
  BY IdleIsRun DEF Idle
<1>. QED BY <1>1, RunMoved

LEMMA SettledStep ==
    ASSUME ChatTypeOK, TurnsHaveOneWriter, SettledInv, [Next]_vars
    PROVE  SettledInv' /\ Settles
<1> USE DEF SettledInv
<1>1. ASSUME NEW r \in Runs, ReadChat(r) PROVE SettledInv' /\ Settles
  <2>1. PICK x \in Run : /\ run' = [run EXCEPT ![r] = x]
                         /\ x.phase \in {"stale", "count"}
                         /\ x.phase = "stale" => NewestRunning
                         /\ x.length = Len(turns)
    <3> DEFINE y == [phase |-> IF NewestRunning THEN "stale" ELSE "count",
                     length |-> Len(turns),
                     compacted |-> chat.compactedTurnCount,
                     notes |-> chat.notes,
                     answered |-> {i \in 1..Len(turns) : turns[i].answered},
                     index |-> 0]
    <3>1. y.phase \in {"stale", "count"} /\ y.length = Len(turns)
          /\ (y.phase = "stale" => NewestRunning)
      OBVIOUS
    <3>2. run' = [run EXCEPT ![r] = y]
      BY <1>1 DEF ReadChat
    <3> HIDE DEF y
    <3>3. run' \in [Runs -> Run]
      BY <1>1, TypeStep DEF Next, ChatTypeOK
    <3>4. y \in Run
      BY <3>2, <3>3 DEF ChatTypeOK
    <3>. QED BY <3>1, <3>2, <3>4
  <2>2. \A s \in Runs : run'[s] = IF s = r THEN x ELSE run[s]
    BY <2>1 DEF ChatTypeOK
  <2>3. turns' = turns /\ overrun' = overrun /\ chat.exists
        /\ (NewestRunning => NewestIsOld)
    BY <1>1 DEF ReadChat
  <2>4. NewestRunning => /\ Len(turns) \in 1..Len(turns)
                         /\ turns[Len(turns)].state = "running"
                         /\ turns[Len(turns)].old
    <3>1. turns # <<>> => Len(turns) \in 1..Len(turns)
      BY EmptySeq DEF ChatTypeOK
    <3>. QED BY <2>3, <3>1 DEF NewestRunning, NewestIsOld
  <2>5. TurnsAreWritten'
    BY <2>1, <2>2, <2>3, <2>4 DEF TurnsAreWritten, Holds, Written, ToFail
  <2>. QED BY <2>3, <2>5 DEF Settles
<1>2. ASSUME NEW r \in Runs, FailStaleTurn(r) PROVE SettledInv' /\ Settles
  <2> DEFINE x == [run[r] EXCEPT !.phase = "count"]
             i == run[r].length
             t == Failed(turns[i])
  <2>1. x \in Run /\ x.phase = "count"
    BY PhaseMoved DEF ChatTypeOK
  <2>2. run' = [run EXCEPT ![r] = x] /\ run[r].phase = "stale"
        /\ turns' = [turns EXCEPT ![i] = t] /\ chat.exists
        /\ Remembers
    BY <1>2 DEF FailStaleTurn, Forget, Remembers
  <2> HIDE DEF x
  <2>3. RunsGoOn
    BY <2>1, <2>2, RunMoved
  <2>4. /\ i \in 1..Len(turns)
        /\ \/ i \in overrun
           \/ turns[i].state = "error"
           \/ turns[i].state = "running" /\ turns[i].old
    BY <2>2 DEF TurnsAreWritten, ToFail
  <2>5. t \in Turn /\ t.state = "error"
    <3>1. turns[i] \in Turn
      BY <2>4, ElementOfSeq DEF ChatTypeOK
    <3>. QED BY <3>1, FailedIsTurn DEF Failed, Turn
  <2> HIDE DEF t, i
  <2>6. /\ Len(turns') = Len(turns) /\ turns'[i] = t
        /\ \A j \in 1..Len(turns) : j # i => turns'[j] = turns[j]
    BY <2>2, <2>4, <2>5, Overwritten
  <2>7. Settles
    BY <2>4, <2>5, <2>6 DEF Settles
  <2>8. TurnsAreWritten'
    BY <2>2, <2>3, <2>4, <2>5, <2>6
       DEF TurnsAreWritten, RunsGoOn, Written, ToFail, Remembers, Wanted, Held
  <2>. QED BY <2>7, <2>8
<1>3. ASSUME NEW r \in Runs, CountTurns(r) PROVE SettledInv' /\ Settles
  <2>1. PICK x \in Run : run' = [run EXCEPT ![r] = x] /\ x.phase = "insert"
    BY <1>3, TurnsCounted
  <2>2. RunsGoOn
    BY <2>1, RunMoved
  <2>. QED BY <1>3, <2>2, TurnsKept DEF CountTurns, Remembers
<1>4. ASSUME NEW r \in Runs, Inserted(r) PROVE SettledInv' /\ Settles
  <2> DEFINE x == [run[r] EXCEPT !.phase = "prompt"]
             n == Len(turns) + 1
  <2>1. x \in Run /\ x.phase = "prompt" /\ x.index = run[r].index
    BY PhaseMoved DEF ChatTypeOK
  <2>2. /\ run' = [run EXCEPT ![r] = x]
        /\ chat.exists /\ run[r].index = n /\ overrun' = overrun
        /\ turns' = Append(turns, NewTurn)
    BY <1>4 DEF Inserted
  <2> HIDE DEF x
  <2>3. /\ Len(turns') = n /\ n \in Nat /\ Len(turns) \in Nat
        /\ turns'[n] = NewTurn
        /\ \A j \in 1..Len(turns) : turns'[j] = turns[j]
    BY <2>2, NewTurnIsTurn, AppendProperties, LenProperties DEF ChatTypeOK
  <2>4. NewTurn.state = "running" /\ ~NewTurn.old
    BY DEF NewTurn
  <2>5. \A s \in Runs : run'[s] = IF s = r THEN x ELSE run[s]
    BY <2>1, <2>2 DEF ChatTypeOK
  <2>6. Settles
    BY <2>3 DEF Settles
  <2>7. ASSUME NEW s \in Runs
        PROVE  /\ Holds(s)' => Written(s)'
               /\ run'[s].phase = "stale" => ToFail(s)'
    <3>1. CASE s = r
      <4>1. run'[s].phase = "prompt" /\ run'[s].index = n
        BY <2>1, <2>2, <2>5, <3>1
      <4>. QED BY <2>3, <2>4, <4>1 DEF Written
    <3>2. CASE s # r
      <4>1. run'[s] = run[s]
        BY <2>5, <3>2
      <4>2. Holds(s)' => Written(s)'
        BY <2>2, <2>3, <4>1 DEF TurnsAreWritten, Holds, Written
      <4>3. run'[s].phase = "stale" => ToFail(s)'
        BY <2>2, <2>3, <4>1 DEF TurnsAreWritten, ToFail
      <4>. QED BY <4>2, <4>3
    <3>. QED BY <3>1, <3>2
  <2>8. TurnsAreWritten'
    BY <2>7 DEF TurnsAreWritten
  <2>. QED BY <2>6, <2>8
<1>5. ASSUME NEW r \in Runs, Compact(r) PROVE SettledInv' /\ Settles
  <2> DEFINE x == [run[r] EXCEPT !.phase = "answer"]
  <2>1. x \in Run /\ x.phase = "answer" /\ x.index = run[r].index
    BY PhaseMoved DEF ChatTypeOK
  <2>2. run' = [run EXCEPT ![r] = x] /\ Holds(r)
        /\ turns' = turns /\ Remembers /\ chat.exists
    BY <1>5 DEF Compact, Holds, Remembers
  <2> HIDE DEF x
  <2>3. RunsGoOn
    BY <2>1, <2>2, RunMoved
  <2>. QED BY <2>2, <2>3, TurnsKept
<1>6. ASSUME NEW r \in Runs, CompleteTurn(r) PROVE SettledInv' /\ Settles
  <2> DEFINE i == run[r].index
  <2>1. PICK outcome \in {"done", "error"} :
            turns' = [turns EXCEPT ![i] =
                        [state |-> outcome, old |-> FALSE, answered |-> TRUE]]
    BY <1>6 DEF CompleteTurn
  <2> DEFINE t == [state |-> outcome, old |-> FALSE, answered |-> TRUE]
  <2>2. t \in Turn
    BY DEF Turn
  <2>3. Holds(r) /\ Remembers
        /\ chat.exists /\ run' = [run EXCEPT ![r] = Idle]
    BY <1>6 DEF CompleteTurn, Forget, Remembers
  <2>4. RunsGoOn
    BY <2>3, RunEnded
  <2>5. /\ i \in 1..Len(turns)
        /\ \/ i \in overrun
           \/ turns[i].state = "running" /\ ~turns[i].old
    BY <2>3 DEF TurnsAreWritten, Written
  <2>6. ~Holds(r)' /\ run'[r].phase # "stale"
    BY <2>3 DEF ChatTypeOK, Idle, Holds
  <2> HIDE DEF t
  <2>7. /\ Len(turns') = Len(turns)
        /\ \A j \in 1..Len(turns) : j # i => turns'[j] = turns[j]
    BY <2>1, <2>2, <2>5, Overwritten DEF t
  <2>8. \A s \in Runs : s # r /\ Holds(s) => run[s].index # i
    BY <2>3 DEF TurnsHaveOneWriter
  <2> HIDE DEF i
  <2>9. Settles
    BY <2>5, <2>7 DEF Settles
  <2>10. TurnsAreWritten'
    BY <2>3, <2>4, <2>5, <2>6, <2>7, <2>8
       DEF TurnsAreWritten, RunsGoOn, Written, ToFail, Remembers, Wanted, Held
  <2>. QED BY <2>9, <2>10
<1>7. ASSUME NEW r \in Runs,
             run' = [run EXCEPT ![r] = Idle],
             UNCHANGED <<chat, turns>>,
             Remembers
      PROVE  SettledInv' /\ Settles
  BY <1>7, RunEnded, TurnsKept
<1>8. ASSUME DeleteChat PROVE SettledInv' /\ Settles
  <2>1. chat'.exists = FALSE /\ turns' = <<>>
    BY <1>8 DEF DeleteChat
  <2>2. Len(turns') = 0
    BY <2>1
  <2>. QED BY <2>1, <2>2 DEF Settles
<1>9. ASSUME NEW i \in 1..MaxTurns, Elapse(i) PROVE SettledInv' /\ Settles
  <2> DEFINE t == [turns[i] EXCEPT !.old = TRUE]
  <2>1. /\ i \in 1..Len(turns) /\ turns[i].state = "running"
        /\ overrun \subseteq overrun'
        /\ \A r \in Runs : Holds(r) /\ run[r].index = i => i \in overrun'
        /\ chat' = chat /\ run' = run
        /\ turns' = [turns EXCEPT ![i] = t]
    BY <1>9 DEF Elapse, Held
  <2>2. t \in Turn /\ t.state = "running" /\ t.old
    <3>1. turns[i] \in Turn
      BY <2>1, ElementOfSeq DEF ChatTypeOK
    <3>. QED BY <2>1, <3>1 DEF Turn
  <2> HIDE DEF t
  <2>3. /\ Len(turns') = Len(turns) /\ turns'[i] = t
        /\ \A j \in 1..Len(turns) : j # i => turns'[j] = turns[j]
    BY <2>1, <2>2, Overwritten
  <2>4. Settles
    BY <2>1, <2>3 DEF Settles
  <2>5. chat.exists => TurnsAreWritten'
    BY <2>1, <2>2, <2>3 DEF TurnsAreWritten, Holds, Written, ToFail
  <2>. QED BY <2>1, <2>4, <2>5
<1>10. ASSUME Stop PROVE SettledInv' /\ Settles
  <2>1. \A r \in Runs : run'[r].phase = "idle"
    BY <1>10 DEF Stop, Idle
  <2>2. RunsGoOn
    BY <2>1 DEF RunsGoOn, Holds
  <2>3. Remembers
    BY <2>1 DEF Remembers, Wanted, Held, Holds
  <2>. QED BY <1>10, <2>2, <2>3, TurnsKept DEF Stop
<1>11. ASSUME Boot PROVE SettledInv' /\ Settles
  <2>1. /\ chat' = chat /\ run' = run /\ overrun \subseteq overrun'
        /\ \A r \in Runs : Holds(r) /\ run[r].index \in 1..Len(turns)
                               => run[r].index \in overrun'
    BY <1>11 DEF Boot, Held
  <2>2. \A i \in 1..Len(turns) :
            turns'[i] = IF turns[i].state = "running" THEN Failed(turns[i])
                        ELSE turns[i]
    BY <1>11 DEF Boot
  <2>3. \A i \in 1..Len(turns) : Failed(turns[i]).state = "error"
    BY ElementOfSeq DEF ChatTypeOK, Failed, Turn
  <2>4. Len(turns') = Len(turns)
    BY <1>11, TurnsSwept
  <2>5. Settles
    BY <2>2 DEF Settles
  <2>6. TurnsAreWritten => TurnsAreWritten'
    BY <2>1, <2>2, <2>3, <2>4 DEF TurnsAreWritten, Holds, Written, ToFail
  <2>. QED BY <2>1, <2>5, <2>6
<1>12. ASSUME UNCHANGED vars PROVE SettledInv' /\ Settles
  <2>1. run' = run /\ turns' = turns /\ chat' = chat /\ overrun' = overrun
    BY <1>12 DEF vars
  <2>2. RunsGoOn
    BY <2>1 DEF RunsGoOn, Holds
  <2>. QED BY <2>1, <2>2, TurnsKept DEF Remembers
<1>13. ASSUME NEW r \in Runs, RunStep(r) PROVE SettledInv' /\ Settles
  <2>1. CASE InsertTurn(r)
    <3>1. CASE run[r].index = Len(turns) + 1
      <4>1. Inserted(r)
        BY <2>1, <3>1 DEF InsertTurn, Inserted
      <4>. QED BY <1>4, <4>1
    <3>2. CASE run[r].index # Len(turns) + 1
      BY <1>7, <2>1, <3>2 DEF InsertTurn, Remembers
    <3>. QED BY <3>1, <3>2
  <2>2. CASE FailRun(r)
    BY <1>7, <2>2 DEF FailRun, Forget, Remembers
  <2>. QED BY <1>2, <1>3, <1>5, <1>6, <1>13, <2>1, <2>2 DEF RunStep
<1>. QED BY <1>1, <1>8, <1>9, <1>10, <1>11, <1>12, <1>13 DEF Next

(* A turn that is done or failed keeps that outcome, unless its own run    *)
(* was still at work when its ten minutes were over or a process booted,   *)
(* and a run is left that may write it: the age test of streamTurn, the    *)
(* boot sweep and the late writes of any other run reach only turns that   *)
(* are not settled.                                                        *)
THEOREM SettledTurnsAreFinal == Spec => SettledTurnIsFinal
<1>1. Init => SettledInv
  <2>1. ASSUME Init PROVE SettledInv
    <3>1. \A r \in Runs : run[r].phase = "idle"
      BY <2>1 DEF Init, Idle
    <3>. QED BY <3>1 DEF SettledInv, TurnsAreWritten, Holds
  <2>. QED BY <2>1
<1>2. ChatTypeOK /\ TurnsHaveOneWriter /\ SettledInv /\ [Next]_vars => SettledInv'
  BY SettledStep
<1>3. ChatTypeOK /\ TurnsHaveOneWriter /\ SettledInv /\ [Next]_vars
      => [\A i \in 1..Len(turns) :
             i <= Len(turns') /\ turns[i].state # "running" /\ i \notin overrun
                 => turns'[i].state = turns[i].state]_vars
  BY SettledStep DEF Settles
<1>. QED BY <1>1, <1>2, <1>3, ChatTypeCorrect, TurnsAlwaysHaveOneWriter, PTL
         DEF Spec, SettledTurnIsFinal
=============================================================================
