------------------------------ MODULE MCIngest ------------------------------
(* Small pages and files for TLC.                                            *)
EXTENDS Ingest

MCPages == {1, 2, 3}
MCJoins == -1..1

(* Parents of a tree of n nodes in document order: a node hangs on the one   *)
(* before it or on an ancestor of that one.                                  *)
Trees(n) ==
    {f \in [1..n -> 0..(n - 1)] :
        /\ \A i \in 1..n : f[i] < i
        /\ \A i \in 2..n : \A k \in (f[i] + 1)..(i - 1) : f[k] >= f[i]}

(* A row over the ceiling by itself, and a block of code with backticks.     *)
Block(type, parent, header, tokens) ==
    [type |-> type, parent |-> parent, header |-> header, tokens |-> tokens,
     ticks |-> IF type = "code" THEN {2} ELSE {}]

TokensOfType(type) ==
    CASE type = "table_row" -> 5 [] type = "code" -> 3 [] OTHER -> 1

Shaped(n, types, Allowed(_, _)) ==
    {[i \in 1..n |-> Block(t[i], f[i], TRUE, TokensOfType(t[i]))] :
        <<t, f>> \in {<<t, f>> \in [1..n -> types] \X Trees(n) :
            \A i \in 1..n :
                Allowed(t[i], IF f[i] = 0 THEN "page" ELSE t[f[i]])}}

NotionTypes == {"paragraph", "heading_1", "bulleted_list_item", "quote",
                "table", "table_row", "column_list", "column", "code",
                "child_page"}

NotionAllows(type, parent) ==
    /\ type = "table_row" <=> parent = "table"
    /\ type = "column" <=> parent = "column_list"
    /\ parent \notin {"heading_1", "table_row", "code"}

(* A table of three rows below a block, then text.                           *)
LongTables ==
    {<<Block(above, 0, FALSE, 1), Block("table", 1, header, 0),
       Block("table_row", 2, FALSE, 1), Block("table_row", 2, FALSE, 2),
       Block("table_row", 2, FALSE, 2), Block("paragraph", 0, FALSE, 1)>> :
        above \in {"quote", "to_do", "toggle", "paragraph"},
        header \in BOOLEAN}

MCNotionPages == LongTables \union Shaped(3, NotionTypes, NotionAllows)

BlockTypes == {"paragraph", "heading", "bulletList", "blockquote",
               "codeBlock", "table", "headerTable", "panel"}

Node(type, parent) ==
    [type |-> type, parent |-> parent,
     tokens |-> CASE type = "codeBlock" -> 3 [] type = "text" -> 2 [] OTHER -> 1,
     ticks |-> IF type = "codeBlock" THEN {2} ELSE {}]

(* Any block around a paragraph, and any block after it.                     *)
Around(type) ==
    CASE type = "bulletList" ->
             <<Node("bulletList", 0), Node("listItem", 1), Node("paragraph", 2),
               Node("text", 3), Node("bulletList", 2), Node("listItem", 5),
               Node("paragraph", 6), Node("text", 7), Node("listItem", 1),
               Node("paragraph", 9), Node("text", 10)>>
      [] type = "table" ->
             <<Node("table", 0), Node("tableRow", 1), Node("tableHeader", 2),
               Node("paragraph", 3), Node("text", 4), Node("tableRow", 1),
               Node("tableCell", 6), Node("paragraph", 7), Node("text", 8)>>
      [] type = "headerTable" ->
             <<Node("table", 0), Node("tableRow", 1), Node("tableHeader", 2),
               Node("paragraph", 3), [Node("text", 4) EXCEPT !.tokens = 5]>>
      [] type \in {"blockquote", "panel"} ->
             <<Node(type, 0), Node("paragraph", 1), Node("text", 2),
               Node("hardBreak", 2), Node("mention", 2), Node("codeBlock", 1)>>
      [] type = "codeBlock" -> <<Node("codeBlock", 0)>>
      [] OTHER -> <<Node(type, 0), Node("text", 1), Node("hardBreak", 1)>>

After(first, second) ==
    first \o [i \in DOMAIN second |->
                 [second[i] EXCEPT !.parent =
                     IF @ = 0 THEN 0 ELSE @ + Len(first)]]

MCConfluencePages ==
    {After(Around(a), Around(b)) : a \in BlockTypes, b \in BlockTypes}
        \union {After(Around(a), <<Node("rule", 0)>>) : a \in BlockTypes}

ASSUME \A page \in MCConfluencePages : TextLiesInBlocks(page)

Part(kind, depth, title, units) ==
    [kind |-> kind, depth |-> depth, title |-> title, units |-> units,
     ticks |-> {}]

MCFew == {}  \* for runs about files alone
MCNodes ==
    {Part("heading", 1, "A", <<1>>), Part("heading", 2, "B", <<1>>),
     Part("heading", 1, "C", <<2>>),
     Part("paragraph", 0, "", <<1>>), Part("paragraph", 0, "", <<2>>),
     Part("paragraph", 0, "", <<6>>), Part("code", 0, "", <<4>>),
     [Part("code", 0, "", <<5>>) EXCEPT !.ticks = {4}],
     Part("code", 0, "", <<2>>), Part("list", 0, "", <<1, 2, 1, 2>>),
     Part("list", 0, "", <<5, 1>>), Part("table", 0, "", <<1, 1, 2, 4>>),
     Part("table", 0, "", <<6>>)}

MCFiles ==
    {[nodes |-> nodes, textFormat |-> "markdown"] :
         nodes \in UNION {[1..n -> MCNodes] : n \in 0..3}}
    \union {[nodes |-> <<Part("paragraph", 0, "", <<n>>)>>,
             textFormat |-> "text"] : n \in 1..9}

(* A table that is nothing but a header row, over the ceiling.               *)
MCHeaderTables == {[nodes |-> <<Part("table", 0, "", <<6>>)>>,
                    textFormat |-> "markdown"]}
=============================================================================
