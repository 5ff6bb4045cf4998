--------------------------- MODULE DatabaseTools ---------------------------
(***************************************************************************)
(* tools/database.tools.ts: what the four database tools let the model     *)
(* read.  A database is [answers, tables, broken]: whether it is reached,  *)
(* the tables it holds and those whose rows it does not give.  The text of *)
(* an answer is the sequence of facts it states; where it is cut, the end  *)
(* is lost and the answer says so.                                         *)
(***************************************************************************)
EXTENDS Integers, FiniteSets, Sequences, SequencesExt

CONSTANTS
    MaxNamed,    \* tables one describe_tables call reads, 5 in the code
    MaxListed,   \* tables list_databases names for one database, 50
    MaxTables,   \* tables one list_tables call names, 200
    MaxRows,     \* rows execute_sql reads, 1000
    Budget,      \* facts an answer has room for
    RowBudgets,  \* facts an answer of execute_sql may have room for: as many
                 \* as its rows are short
    RowCounts,   \* rows a statement may match
    TableNames,  \* every table name, in the order of names
    Databases,   \* what a registered database may hold
    TableCalls   \* the tables a describe_tables call may ask for

ASSUME BudgetsAssumption ==
    /\ {MaxNamed, MaxListed, MaxTables, MaxRows, Budget} \subseteq Nat \ {0}
    /\ RowBudgets \subseteq Nat \ {0}
    /\ RowCounts \subseteq Nat

(* Calls are lists of names, and a database holds tables that have one.    *)
ASSUME NamesAssumption ==
    /\ TableNames \in Seq(ToSet(TableNames))
    /\ \A database \in Databases :
           database.tables \subseteq ToSet(TableNames)
    /\ \A call \in TableCalls : call \in Seq(ToSet(call))

(* The answers that state nothing: the call is wrong, or the database is.  *)
Correction == [kind |-> "correction", says |-> <<>>]

Failure == [kind |-> "failure", says |-> <<>>]

(* Mutant: the end is cut without a word.                                  *)
CutQuietly(says, budget) ==
    [kind |-> "text",
     says |-> IF Len(says) <= budget THEN says ELSE SubSeq(says, 1, budget)]

(* cutToBudget: the text from the start, and a note if some is cut.        *)
CutToBudget(says, budget) ==
    [kind |-> "text",
     says |-> IF Len(says) <= budget THEN says
              ELSE Append(SubSeq(says, 1, budget), [fact |-> "cut"])]

FirstOf(s, n) == SubSeq(s, 1, IF Len(s) < n THEN Len(s) ELSE n)

InOrder(tables) ==
    FlattenSeq([i \in DOMAIN TableNames |->
                   IF TableNames[i] \in tables THEN <<TableNames[i]>>
                   ELSE <<>>])

(* One line of list_databases, also for a database that does not answer.   *)
DescribeDatabase(d, database) ==
    [fact  |-> IF ~database.answers THEN "unreachable"
               ELSE IF Cardinality(database.tables) <= MaxListed THEN "named"
               ELSE "counted",
     about |-> d]

(* list_databases, of the registered databases in order.                   *)
ListDatabases(registered) ==
    IF registered = <<>> THEN Correction
    ELSE CutToBudget([i \in DOMAIN registered |->
                          DescribeDatabase(i, registered[i])], Budget)

(* list_tables: the first tables whose name passes the filter, under a     *)
(* heading that says whether they are all.                                 *)
ListTables(database, filter) ==
    LET passing == InOrder(database.tables \cap filter)
        listed  == FirstOf(passing, MaxTables)
        heading == [fact |-> IF Len(passing) = Len(listed) THEN "all"
                             ELSE "more"]
    IN  IF ~database.answers THEN Failure
        ELSE IF passing = <<>> THEN Correction
        ELSE CutToBudget(<<heading>> \o
                         [i \in DOMAIN listed |-> [fact  |-> "listed",
                                                   about |-> listed[i]]],
                         Budget)

(* describe_tables: the first tables asked for, those that exist with      *)
(* their columns and, when they can be read, some rows; then the ones that *)
(* do not exist, and a note if more were asked for.  A table whose rows do *)
(* not read hides no other.                                                *)
DescribeTables(requested, database) ==
    LET named   == ToSet(FirstOf(requested, MaxNamed))
        found   == InOrder(named \cap database.tables)
        missing == named \ database.tables
        Section(t) == [fact  |-> IF t \in database.broken THEN "noRows"
                                 ELSE "described",
                       about |-> t]
    IN  IF requested = <<>> THEN Correction
        ELSE IF ~database.answers \/ found = <<>> THEN Failure
        ELSE CutToBudget(
                 [i \in DOMAIN found |-> Section(found[i])]
                 \o (IF missing = {} THEN <<>>
                     ELSE <<[fact |-> "missing", tables |-> missing]>>)
                 \o (IF Len(requested) <= MaxNamed THEN <<>>
                     ELSE <<[fact |-> "more"]>>),
                 Budget)

(* execute_sql: only one statement that starts as a query is sent, inside  *)
(* one that limits its rows, and the answer states the rows read and then  *)
(* their number.                                                           *)
Statements == {"empty", "select", "with", "several", "update"}

RowsRead(matched) == IF matched < MaxRows THEN matched ELSE MaxRows

RowFacts(n) ==
    [i \in 1..(n + 1) |-> IF i <= n THEN [fact |-> "row", about |-> i]
                          ELSE [fact |-> "count", rows |-> n]]

ExecuteSql(statement, database, runs, matched, budget) ==
    IF statement \notin {"select", "with"} THEN Correction
    ELSE IF ~database.answers \/ ~runs THEN Failure
    ELSE CutToBudget(RowFacts(RowsRead(matched)), budget)

-----------------------------------------------------------------------------
SaysItIsPartial(reply) ==
    \E s \in ToSet(reply.says) : s.fact \in {"cut", "more"}

Tells(s, about) ==
    \/ s.fact = "missing" /\ about \in s.tables
    \/ /\ s.fact \notin {"missing", "cut", "more", "all", "count"}
       /\ about = s.about

Accounts(reply, about) == \E s \in ToSet(reply.says) : Tells(s, about)

Whole(reply, asked) ==
    reply.kind = "text" => \/ SaysItIsPartial(reply)
                            \/ \A about \in asked : Accounts(reply, about)

(* What the model reads accounts for everything it asked for: every        *)
(* database it may query, every table that passes the filter, every table  *)
(* it wants described.  Or the answer says that it is not the whole.       *)
DatabasesAreListed ==
    \A d, e \in Databases : Whole(ListDatabases(<<d, e>>), {1, 2})

TablesAreListed ==
    \A d \in Databases, filter \in {ToSet(c) : c \in TableCalls} :
        Whole(ListTables(d, filter), d.tables \cap filter)

TablesAreDescribed ==
    \A d \in Databases, c \in TableCalls :
        Whole(DescribeTables(c, d), ToSet(c))

(* Every row a statement matches, as many as the limit lets it read: that  *)
(* there may be more, the answer tells by nothing but a count that is the  *)
(* limit itself.                                                           *)
CountsToTheLimit(reply) ==
    \E s \in ToSet(reply.says) : s = [fact |-> "count", rows |-> MaxRows]

RowsAreCounted ==
    \A statement \in Statements, d \in Databases, runs \in BOOLEAN,
       matched \in RowCounts, budget \in RowBudgets :
        LET reply == ExecuteSql(statement, d, runs, matched, budget)
        IN  CountsToTheLimit(reply) \/ Whole(reply, 1..matched)
=============================================================================
