---------------------------- MODULE MCChatTurns ----------------------------
(* ChatTurns for TLC: two questions that can be in flight together.  No    *)
(* symmetry, because a liveness property is checked.                       *)
EXTENDS ChatTurns

CONSTANTS r1, r2

MCRuns == {r1, r2}
=============================================================================
