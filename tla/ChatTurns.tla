----------------------------- MODULE ChatTurns -----------------------------
(***************************************************************************)
(* The turns of one chat: chat/chat.service.ts (streamTurn, deleteChat,    *)
(* onModuleInit), the writes it makes through chat/chat.repository.ts, and *)
(* the compaction that chat/agent.loop.ts runs before an answer            *)
(* (chat/compaction.service.ts).                                           *)
(*                                                                         *)
(* A run is one POST of a question.  It reads the chat once, at its start, *)
(* and works from that view until it ends; nothing locks the chat, so an   *)
(* action is what a run does between two awaits and runs interleave.       *)
(*                                                                         *)
(* Turns are numbered from 1 here and from 0 in the code: turnIndex i is   *)
(* turn i + 1, and the turn count is the last turn.                        *)
(***************************************************************************)
EXTENDS Integers, Sequences

CONSTANTS
    Runs,           \* the requests that can carry a question
    MaxTurns        \* bound on the turns of the chat

ASSUME MaxTurnsAssumption == MaxTurns \in Nat

VARIABLES
    up,     \* an API process runs
    chat,   \* the row of `chats`
    turns,  \* its rows of `turns`, by turn index
    run,    \* the local state of each request
    overrun \* a history, which no step reads: the turns whose run was still
            \* at work when their ten minutes were over or a process booted,
            \* until no run is left that may write them

vars == <<up, chat, turns, run, overrun>>

-----------------------------------------------------------------------------
(* What the notes hold of one turn: its question, and its answer if that   *)
(* was there to read.                                                      *)
Note == [turn: Nat, answered: BOOLEAN]

Chat == [exists: BOOLEAN, compactedTurnCount: Nat, notes: SUBSET Note]

(* `old` says ten minutes passed since updatedAt, and `answered` that the  *)
(* row carries what its run produced.                                      *)
Turn == [state: {"running", "done", "error"}, old: BOOLEAN, answered: BOOLEAN]

NewTurn == [state |-> "running", old |-> FALSE, answered |-> FALSE]

(* A run, with its view of the chat: how many turns, how many of them      *)
(* compacted, the notes, and the turns that carried an answer.             *)
Run == [phase: {"idle", "stale", "count", "insert", "prompt", "answer"},
        length: Nat, compacted: Nat, notes: SUBSET Note,
        answered: SUBSET Nat, index: Nat]

Idle == [phase |-> "idle", length |-> 0, compacted |-> 0, notes |-> {},
         answered |-> {}, index |-> 0]

ChatTypeOK ==
    /\ up \in BOOLEAN
    /\ chat \in Chat
    /\ turns \in Seq(Turn)
    /\ run \in [Runs -> Run]
    /\ overrun \subseteq 1..Len(turns)

Init ==
    /\ up = TRUE
    /\ chat = [exists |-> TRUE, compactedTurnCount |-> 0, notes |-> {}]
    /\ turns = <<>>
    /\ run = [r \in Runs |-> Idle]
    /\ overrun = {}

(* The run inserted its turn and has not written the outcome. *)
Holds(r) == run[r].phase \in {"prompt", "answer"}

Held(i) == \E r \in Runs : Holds(r) /\ run[r].index = i

(* A run may yet write turn i: the one that holds it, or one that found it *)
(* too old.                                                                *)
Wanted(i) ==
    \/ Held(i)
    \/ \E r \in Runs : run[r].phase = "stale" /\ run[r].length = i

Forget == overrun' = {i \in overrun : Wanted(i)'}

Failed(t) == [t EXCEPT !.state = "error", !.old = FALSE]

NewestRunning == turns # <<>> /\ turns[Len(turns)].state = "running"

(* Mutants: a running turn of any age is failed, or none is. *)
AnyTurnIsOld == TRUE
NoTurnIsOld == FALSE

NewestIsOld == turns[Len(turns)].old

-----------------------------------------------------------------------------
(* streamTurn reads the chat with every turn.  The newest turn decides: a  *)
(* running one younger than ten minutes is a conflict, and an older one    *)
(* must be failed first.                                                   *)
ReadChat(r) ==
    /\ up /\ chat.exists
    /\ run[r].phase = "idle"
    /\ NewestRunning => NewestIsOld
    /\ run' = [run EXCEPT ![r] =
                 [phase |-> IF NewestRunning THEN "stale" ELSE "count",
                  length |-> Len(turns),
                  compacted |-> chat.compactedTurnCount,
                  notes |-> chat.notes,
                  answered |-> {i \in 1..Len(turns) : turns[i].answered},
                  index |-> 0]]
    /\ UNCHANGED <<up, chat, turns, overrun>>

(* failTurn, on the turn the view holds as the newest; it writes whatever  *)
(* that row holds by now.                                                  *)
FailStaleTurn(r) ==
    /\ run[r].phase = "stale"
    /\ chat.exists
    /\ turns' = [turns EXCEPT ![run[r].length] = Failed(@)]
    /\ run' = [run EXCEPT ![r] = [@ EXCEPT !.phase = "count"]]
    /\ Forget
    /\ UNCHANGED <<up, chat>>

(* createTurn counts the turns inside its transaction ...                  *)
CountTurns(r) ==
    /\ run[r].phase = "count"
    /\ run' = [run EXCEPT ![r] = [@ EXCEPT !.phase = "insert",
                                           !.index = Len(turns) + 1]]
    /\ UNCHANGED <<up, chat, turns, overrun>>

(* Mutant: no primary key, so the second writer takes the turn over. *)
InsertOverTurn(r) ==
    /\ run[r].phase = "insert"
    /\ chat.exists
    /\ run[r].index <= MaxTurns
    /\ turns' = IF run[r].index = Len(turns) + 1
                THEN Append(turns, NewTurn) ELSE turns
    /\ run' = [run EXCEPT ![r] = [@ EXCEPT !.phase = "prompt"]]
    /\ UNCHANGED <<up, chat, overrun>>

(* ... and inserts under that number.  The primary key over the chat and   *)
(* the index refuses a number that is taken, and the question ends there.  *)
InsertTurn(r) ==
    /\ run[r].phase = "insert"
    /\ chat.exists
    /\ IF run[r].index = Len(turns) + 1
       THEN /\ Len(turns) < MaxTurns
            /\ turns' = Append(turns, NewTurn)
            /\ run' = [run EXCEPT ![r] = [@ EXCEPT !.phase = "prompt"]]
       ELSE /\ turns' = turns
            /\ run' = [run EXCEPT ![r] = Idle]
    /\ UNCHANGED <<up, chat, overrun>>

(* compact: the messages are the turns of the view after the compacted     *)
(* ones, and the question.  The newest tenth stays, two at the least.      *)
MessageTurns(r) == run[r].length - run[r].compacted + 1

KeptTurns(n) == IF n <= 20 THEN 2 ELSE (n + 9) \div 10

CompactedTurns(r) == MessageTurns(r) - KeptTurns(MessageTurns(r))

(* The notes fold the earlier ones in. *)
Notes(r) ==
    run[r].notes \cup
        {[turn |-> i, answered |-> i \in run[r].answered] :
            i \in run[r].compacted + 1 .. run[r].compacted + CompactedTurns(r)}

(* Mutant: the stored count is incremented, whatever another run wrote. *)
CompactIncrement(r) ==
    /\ run[r].phase = "prompt"
    /\ chat.exists
    /\ CompactedTurns(r) > 0
    /\ chat' = [chat EXCEPT !.notes = Notes(r),
                            !.compactedTurnCount = @ + CompactedTurns(r)]
    /\ run' = [run EXCEPT ![r] = [@ EXCEPT !.phase = "answer"]]
    /\ UNCHANGED <<up, turns, overrun>>

(* A chat at either limit compacts before the answer; the notes and the    *)
(* count go to the chat row at once (recordCompaction).  Which chats reach *)
(* the token limit, and whether the model writes notes, is open.           *)
Compact(r) ==
    /\ run[r].phase = "prompt"
    /\ chat.exists
    /\ CompactedTurns(r) > 0
    /\ chat' = [chat EXCEPT
                  !.notes = Notes(r),
                  !.compactedTurnCount = run[r].compacted + CompactedTurns(r)]
    /\ run' = [run EXCEPT ![r] = [@ EXCEPT !.phase = "answer"]]
    /\ UNCHANGED <<up, turns, overrun>>

(* The finally block: completeTurn writes what the run produced, done, or  *)
(* error for a model failure or a closed browser.                          *)
CompleteTurn(r) ==
    /\ Holds(r)
    /\ chat.exists
    /\ \E outcome \in {"done", "error"} :
          turns' = [turns EXCEPT ![run[r].index] =
                      [state |-> outcome, old |-> FALSE, answered |-> TRUE]]
    /\ run' = [run EXCEPT ![r] = Idle]
    /\ Forget
    /\ UNCHANGED <<up, chat>>

(* A statement throws, because the database fails or the chat is gone, and *)
(* the run ends without another write.                                     *)
FailRun(r) ==
    /\ run[r].phase # "idle"
    /\ run' = [run EXCEPT ![r] = Idle]
    /\ Forget
    /\ UNCHANGED <<up, chat, turns>>

RunStep(r) ==
    \/ FailStaleTurn(r) \/ CountTurns(r) \/ InsertTurn(r)
    \/ Compact(r) \/ CompleteTurn(r) \/ FailRun(r)

-----------------------------------------------------------------------------
(* deleteChat: the cascade takes the turns. *)
DeleteChat ==
    /\ up /\ chat.exists
    /\ chat' = [exists |-> FALSE, compactedTurnCount |-> 0, notes |-> {}]
    /\ turns' = <<>>
    /\ overrun' = {}
    /\ UNCHANGED <<up, run>>

(* Ten minutes pass since a turn started to run.  Nothing in the code      *)
(* ends its run by then: the loop bounds the model calls, not their time,  *)
(* and one statement of a tool may take a minute.                          *)
Elapse(i) ==
    /\ i <= Len(turns)
    /\ turns[i].state = "running" /\ ~turns[i].old
    /\ turns' = [turns EXCEPT ![i] = [@ EXCEPT !.old = TRUE]]
    /\ overrun' = IF Held(i) THEN overrun \cup {i} ELSE overrun
    /\ UNCHANGED <<up, chat, run>>

(* The process stops, and every run with it. *)
Stop ==
    /\ up
    /\ up' = FALSE
    /\ run' = [r \in Runs |-> Idle]
    /\ overrun' = {}
    /\ UNCHANGED <<chat, turns>>

(* onModuleInit: the boot sweep fails every running turn.  In a release    *)
(* the new process boots beside the old one, whose runs go on until each   *)
(* of them ends (CompleteTurn, FailRun).                                   *)
Boot ==
    /\ up' = TRUE
    /\ overrun' = overrun \cup {i \in 1..Len(turns) : Held(i)}
    /\ turns' = [i \in 1..Len(turns) |->
                   IF turns[i].state = "running" THEN Failed(turns[i])
                   ELSE turns[i]]
    /\ UNCHANGED <<chat, run>>

Next ==
    \/ \E r \in Runs : ReadChat(r) \/ RunStep(r)
    \/ \E i \in 1..MaxTurns : Elapse(i)
    \/ DeleteChat \/ Stop \/ Boot

Spec == Init /\ [][Next]_vars

(* Every await of a run returns or throws, time passes, and the platform   *)
(* restarts a process that stopped.  Two assumptions are not the code's:   *)
(* the person keeps asking, and a statement that is tried again and again  *)
(* succeeds in the end.                                                    *)
Fairness ==
    /\ \A r \in Runs : /\ WF_vars(RunStep(r))
                       /\ WF_vars(ReadChat(r))
                       /\ SF_vars(FailStaleTurn(r))
    /\ \A i \in 1..MaxTurns : WF_vars(Elapse(i))
    /\ WF_vars(Boot /\ ~up)

FairSpec == Spec /\ Fairness

-----------------------------------------------------------------------------
(* Two runs never write their answers into one turn (chat.repository.ts    *)
(* createTurn: the count decides the index and the primary key the race).  *)
TurnsHaveOneWriter ==
    \A r, s \in Runs : r # s /\ Holds(r) /\ Holds(s)
                          => run[r].index # run[s].index

(* The notes on the chat row cover exactly the turns that the compacted    *)
(* count leaves out of the next prompt, and the two newest turns are never *)
(* among them: no turn drops out of the chat, and none is told twice,      *)
(* although every run computes both from its own old view.                 *)
NotesMatchCount ==
    /\ {n.turn : n \in chat.notes} = 1..chat.compactedTurnCount
    /\ chat.compactedTurnCount > 0
          => chat.compactedTurnCount + 2 <= Len(turns)

(* A turn that is done or failed keeps that outcome, however long a run    *)
(* takes and whenever a process boots, unless the run of this very turn    *)
(* was still at work when its ten minutes were over or a process booted,   *)
(* and that run or a question that found the turn too old is yet to write  *)
(* it.  So a question that fails the turn before it, a sweep and a late    *)
(* write of another run reach no outcome that was already stored.          *)
SettledTurnIsFinal ==
    [][\A i \in 1..Len(turns) :
          i <= Len(turns') /\ turns[i].state # "running" /\ i \notin overrun
              => turns'[i].state = turns[i].state]_vars

(* A chat whose person keeps asking is not locked for ever by a run that   *)
(* was lost: there is again a moment when the newest turn does not run.    *)
ChatUnlocks == NewestRunning ~> ~NewestRunning
=============================================================================
