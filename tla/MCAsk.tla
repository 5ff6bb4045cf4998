------------------------------ MODULE MCAsk ------------------------------
(* The constants of Ask for TLC.                                           *)
EXTENDS Ask

CONSTANTS t1, t2, t3

(* Databases that answer, one with a table that gives no row, one down.    *)
MCDatabases ==
    {[answers |-> TRUE, tables |-> {t1, t2}, broken |-> {t1}],
     [answers |-> TRUE, tables |-> {t1, t2, t3}, broken |-> {}],
     [answers |-> FALSE, tables |-> {t1}, broken |-> {}]}

MCTableCalls == {<<t2, t1>>, <<t3>>, <<t1, t3, t2>>, <<t3, t3>>}

MCTableNames == <<t1, t2, t3>>

MCSymmetry == Permutations(Chats) \union Permutations(Runs)
                                \union Permutations(Chunks)

(* The answers together make at most MaxModelCalls model calls.            *)
MCFewSteps ==
    /\ FoldFunction(LAMBDA a, n : a.calls + n, 0, answer) <= MaxModelCalls
    /\ FoldFunction(LAMBDA a, n : Len(a.text) + n, 0, answer) <= MaxPieces
==========================================================================
