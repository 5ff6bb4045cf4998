----------------------------- MODULE Rendering -----------------------------
(***************************************************************************)
(* What the connectors make of a provider's page: the Markdown text of     *)
(* connectors/notion.connector.ts and connectors/confluence.connector.ts.  *)
(*                                                                         *)
(* A page is a tree.  Its nodes are numbered in document order, and a node *)
(* names its type and its parent, 0 for the page itself, so a page is a    *)
(* sequence of nodes.  Wording is left out: a rendered text is the number  *)
(* of the node it came from.                                               *)
(***************************************************************************)
EXTENDS Integers, Sequences, FiniteSets, SequencesExt, Texts

CONSTANT BlocksPerRequest  \* page_size of one blocks.children request

ASSUME BlocksPerRequestAssumption == BlocksPerRequest \in Nat \ {0}

(* The nodes of a page, in document order.                                 *)
Places(page) == [i \in DOMAIN page |-> i]

(* What hangs on node b, in order.                                         *)
Children(page, b) ==
    Without(Places(page), {i \in DOMAIN page : page[i].parent # b})

(* The numbering: the nodes between a node and its parent hang on the      *)
(* parent or below it.                                                     *)
IsTree(page) ==
    /\ Len(page) \in Nat /\ DOMAIN page = 1..Len(page)
    /\ \A i \in DOMAIN page :
           /\ page[i].parent \in 0..(i - 1)
           /\ \A k \in (page[i].parent + 1)..(i - 1) :
                  page[k].parent >= page[i].parent

(* A row lies in a table, and a table holds rows.                          *)
RowsLieInTables(page, row) ==
    \A i \in DOMAIN page :
        page[i].type = row <=> /\ page[i].parent # 0
                               /\ page[page[i].parent].type = "table"

-----------------------------------------------------------------------------
(* Notion: blocks, fetched level by level in requests of BlocksPerRequest. *)

(* formatNotionBlockContents gives no text for a block that only holds     *)
(* others.                                                                 *)
HasText(type) == type \notin {"table", "column_list", "column", "synced_block"}

(* A page or database inside the page is a document of its own.            *)
Entered(type) == type \notin {"child_page", "child_database"}

(* What nests the lists, and the quotes, of the blocks below it.           *)
ListItems == {"bulleted_list_item", "numbered_list_item", "to_do"}

Quotes == {"callout", "quote", "toggle"}

ChildListDepth(type, listDepth) ==
    IF type \in ListItems THEN listDepth + 1 ELSE listDepth

ChildQuoteDepth(type, quoteDepth) ==
    IF type \in Quotes THEN quoteDepth + 1 ELSE quoteDepth

(* The request that brings block b, counted among the requests for its     *)
(* siblings.                                                               *)
RequestOf(page, b) ==
    (Cardinality({s \in 1..(b - 1) : page[s].parent = page[b].parent})
        \div BlocksPerRequest) + 1

RowsBefore(page, b) ==
    {s \in 1..(b - 1) : /\ page[s].parent = page[b].parent
                        /\ page[s].type = "table_row"}

(* Mutant: the row counter restarts with every request.                    *)
TableRowIndexOfRequest(page, b) ==
    Cardinality({s \in RowsBefore(page, b) :
                     RequestOf(page, s) = RequestOf(page, b)})

(* The rows counted so far: the counter outlives the loop over requests.   *)
TableRowIndex(page, b) == Cardinality(RowsBefore(page, b))

IsTableHeaderRow(page, b) ==
    /\ page[b].type = "table_row"
    /\ page[b].parent # 0
    /\ page[page[b].parent].header
    /\ TableRowIndex(page, b) = 0

(* formatNotionBlock: the line of a block, its prefixes and, under the     *)
(* first row of a table with a header, the delimiter row.                  *)
FormatNotionBlock(page, b, listDepth, quoteDepth) ==
    IF HasText(page[b].type)
    THEN <<[block |-> b, list |-> listDepth, quote |-> quoteDepth,
            delimiter |-> IsTableHeaderRow(page, b)]>>
    ELSE <<>>

(* The body: a sequence of parts, separated by blank lines, each a         *)
(* sequence of lines.  The rows of a table make one part.                  *)
FetchNotionBlockContents(page) ==
    LET Contents[at \in (0..Len(page)) \X Nat \X Nat] ==
            LET nodes    == Children(page, at[1])
                Inner(c) == Contents[<<c, ChildListDepth(page[c].type, at[2]),
                                       ChildQuoteDepth(page[c].type, at[3])>>]
                Below(c) == IF ~Entered(page[c].type) \/ Children(page, c) = <<>>
                            THEN <<>>
                            ELSE IF page[c].type = "table"
                            THEN <<FlattenSeq(Inner(c))>>
                            ELSE Inner(c)
                Own(c) == LET line == FormatNotionBlock(page, c, at[2], at[3])
                          IN  IF line = <<>> THEN <<>> ELSE <<line>>
            IN  FlattenSeq([k \in DOMAIN nodes |-> Own(nodes[k]) \o Below(nodes[k])])
    IN  Contents[<<0, 0, 0>>]

-----------------------------------------------------------------------------
(* Confluence: an Atlassian document, rendered bottom up into one text, a  *)
(* sequence of node numbers and of the marks below.                        *)
NewLine == -1     \* a line end
Indented == -2    \* a line end followed by a list indent or a quote mark
CellEnd == -3     \* the bar between two cells
Delimiter == -4   \* the delimiter row of a table

Marks == {NewLine, Indented, CellEnd, Delimiter}

Leaves == {"text", "mention", "emoji", "status", "date", "inlineCard",
           "blockCard", "media", "codeBlock", "rule"}

Paragraphs == {"paragraph", "heading", "mediaSingle", "codeBlock", "rule"}

Lists == {"bulletList", "orderedList"}

TrimText(text) ==
    LET kept == {i \in DOMAIN text : text[i] # NewLine}
    IN  IF kept = {} THEN <<>>
        ELSE SubSeq(text, CHOOSE i \in kept : \A j \in kept : i <= j,
                          CHOOSE i \in kept : \A j \in kept : i >= j)

Indent(text) ==
    [i \in DOMAIN text |-> IF text[i] = NewLine THEN Indented ELSE text[i]]

(* formatMarkdownTableCell: a cell is one line.                            *)
OnOneLine(text) == Without(text, {NewLine, Indented})

(* Array.join.                                                             *)
JoinTexts(texts, mark) ==
    FlattenSeq([i \in DOMAIN texts |-> IF i = 1 THEN texts[i]
                                       ELSE <<mark>> \o texts[i]])

RenderAtlassianList(items) ==
    JoinTexts([i \in DOMAIN items |-> Indent(TrimText(items[i]))], NewLine)

RenderAtlassianTableRow(doc, row, cells) ==
    LET header == \A c \in DOMAIN doc :
                      doc[c].parent = row => doc[c].type = "tableHeader"
    IN  JoinTexts([i \in DOMAIN cells |-> OnOneLine(TrimText(cells[i]))],
                  CellEnd)
            \o <<NewLine>>
            \o (IF header THEN <<Delimiter, NewLine>> ELSE <<>>)

(* What the renderer writes after a node.                                  *)
BlockEnd(type) ==
    CASE type \in Paragraphs \union Lists \union {"blockquote"} ->
             <<NewLine, NewLine>>
      [] type = "table" -> <<NewLine>>
      [] OTHER -> <<>>

(* The page itself is the node that every other one hangs below.           *)
TypeOf(doc, n) == IF n = 0 THEN "doc" ELSE doc[n].type

(* The text of node n, given those of the nodes that hang on it.           *)
OwnText(doc, n, texts) ==
    LET type == TypeOf(doc, n)
    IN  CASE type \in Leaves -> <<n>>
          [] type = "hardBreak" -> <<NewLine>>
          [] type \in Lists -> RenderAtlassianList(texts)
          [] type = "blockquote" -> Indent(TrimText(FlattenSeq(texts)))
          [] type = "tableRow" -> RenderAtlassianTableRow(doc, n, texts)
          [] OTHER -> FlattenSeq(texts)

RenderAtlassianNode(doc) ==
    LET Text[n \in 0..Len(doc)] ==
            LET nodes == Children(doc, n)
            IN  OwnText(doc, n, [i \in DOMAIN nodes |-> Text[nodes[i]]])
                    \o BlockEnd(TypeOf(doc, n))
    IN  Text[0]

(* The last lines of fetchDocumentById: no two blank lines in a row, none  *)
(* at the ends.                                                            *)
Normalized(text) ==
    TrimText(FoldLeft(LAMBDA out, x :
                          IF /\ x = NewLine
                             /\ Len(out) >= 2
                             /\ SubSeq(out, Len(out) - 1, Len(out))
                                    = <<NewLine, NewLine>>
                          THEN out ELSE Append(out, x),
                      <<>>, text))

-----------------------------------------------------------------------------
(* What a rendered page must be, stated on the tree.                       *)
Ancestors(page, b) ==
    LET Up[n \in 0..Len(page)] == IF n = 0 THEN {}
                                  ELSE {page[n].parent} \union Up[page[n].parent]
    IN  Up[b] \ {0}

Depth(page, b, types) ==
    Cardinality({a \in Ancestors(page, b) : page[a].type \in types})

(* Every block that carries text and lies in no other document is rendered *)
(* once, in document order, under the prefixes of the lists and quotes it  *)
(* lies in; a delimiter row follows the first row of each table that has a *)
(* header, and no other line, however the rows were paged.                 *)
NotionTextIsComplete(page, body) ==
    LET Shown(b) == /\ HasText(page[b].type)
                    /\ \A a \in Ancestors(page, b) : Entered(page[a].type)
        FirstRow(b) == \E t \in DOMAIN page :
                           /\ page[t].type = "table" /\ page[t].header
                           /\ \A s \in DOMAIN page : page[s].parent = t => b <= s
                           /\ page[b].parent = t
        LineOf(b) == [block |-> b, list |-> Depth(page, b, ListItems),
                      quote |-> Depth(page, b, Quotes),
                      delimiter |-> FirstRow(b)]
    IN  FlattenSeq(body)
            = FlattenSeq([b \in DOMAIN page |-> IF Shown(b) THEN <<LineOf(b)>>
                                                ELSE <<>>])

(* The block a node of the document's top level lies in.                   *)
TopBlock(doc, n) ==
    CHOOSE a \in Ancestors(doc, n) \union {n} : doc[a].parent = 0

(* Every text is rendered once, in document order.                         *)
EveryTextInOrder(doc, text) ==
    Without(text, Marks)
        = Without(Places(doc), {n \in DOMAIN doc : doc[n].type \notin Leaves})

(* A blank line keeps two blocks of the top level apart, so that Markdown  *)
(* reads two blocks.                                                       *)
BlocksAreApart(doc, text) ==
    LET at == {i \in DOMAIN text : text[i] \notin Marks}
    IN  \A i, j \in at :
            (i < j /\ TopBlock(doc, text[i]) # TopBlock(doc, text[j]))
            => \E k \in (i + 1)..(j - 2) :
                   text[k] = NewLine /\ text[k + 1] = NewLine

ConfluenceTextIsComplete(doc, text) ==
    EveryTextInOrder(doc, text) /\ BlocksAreApart(doc, text)

(* Nothing hangs on a leaf.                                                *)
LeavesHoldNothing(doc) ==
    \A c \in DOMAIN doc :
        doc[c].parent # 0 =>
            doc[doc[c].parent].type \notin Leaves \union {"hardBreak"}

(* A list holds items and a row holds cells.  renderAtlassianList and      *)
(* renderAtlassianTableRow write only what hangs on these.                 *)
ItemsAndCells(doc) ==
    \A c \in DOMAIN doc :
        doc[c].parent # 0 =>
            /\ doc[doc[c].parent].type \in Lists => doc[c].type = "listItem"
            /\ doc[doc[c].parent].type = "tableRow" =>
                   doc[c].type \in {"tableCell", "tableHeader"}

(* The blocks that the renderer ends with a blank line.                    *)
Blocks == Paragraphs \union Lists \union {"blockquote", "table"}

(* Every text is a block or lies in one.  Not so of a card or of a task:   *)
(* the renderer ends neither with a line.                                  *)
TextLiesInBlocks(doc) ==
    \A n \in DOMAIN doc :
        doc[n].type \in Leaves \ Blocks =>
            \E a \in Ancestors(doc, n) : doc[a].type \in Blocks
=============================================================================
