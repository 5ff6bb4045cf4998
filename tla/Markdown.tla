------------------------------ MODULE Markdown ------------------------------
(***************************************************************************)
(* What fromMarkdown, the parser that chunkMarkdown calls, makes of the    *)
(* body a connector rendered: the nodes of Chunking.  It is a library, so  *)
(* only what chunking.ts tells apart is here: headings, code blocks, lists *)
(* of items, tables of rows and everything else.                           *)
(*                                                                         *)
(* A block of a page has two more fields here: `tokens`, what its own text *)
(* counts, and `ticks`, the places of its tokens that hold three backticks *)
(* or more in a row.                                                       *)
(***************************************************************************)
EXTENDS Chunking, Rendering

(* Lists with nothing between them are one list, and what is indented      *)
(* below an item belongs to the item.                                      *)
ExtendList(nodes, units, indented) ==
    LET list == Last(nodes)
        last == Len(list.units)
    IN  Append(Front(nodes),
               [list EXCEPT !.units =
                   IF indented THEN [@ EXCEPT ![last] = @ + Total(units)]
                               ELSE @ \o units])

EndsInList(nodes) == nodes # <<>> /\ Last(nodes).kind = "list"

-----------------------------------------------------------------------------
(* Notion: formatNotionBlockContents writes these as headings.             *)
HeadingDepth == [heading_1 |-> 1, heading_2 |-> 2, heading_3 |-> 3,
                 heading_4 |-> 4, child_page |-> 1, child_database |-> 1]

(* Rows are a table when a delimiter row follows the first; without a      *)
(* column header they are lines of a paragraph, and so is all a quote      *)
(* holds.                                                                  *)
NotionKind(page, line) ==
    LET type == page[line.block].type
    IN  CASE line.quote > 0 -> "paragraph"
          [] type \in ListItems -> "list"
          [] type \in DOMAIN HeadingDepth -> "heading"
          [] type = "code" -> "code"
          [] line.delimiter -> "table"
          [] OTHER -> "paragraph"

NotionNode(page, part, place) ==
    LET kind  == NotionKind(page, part[1])
        block == page[part[1].block]
        costs == [k \in DOMAIN part |-> page[part[k].block].tokens]
    IN  [kind |-> kind, title |-> place,
         depth |-> IF kind = "heading" THEN HeadingDepth[block.type] ELSE 0,
         units |-> IF kind = "table" THEN costs ELSE <<Total(costs)>>,
         ticks |-> block.ticks]

(* Numbers and bullets are told apart no further.                          *)
NotionNodes(page, body) ==
    LET AddPart(nodes, i) ==
            LET node == NotionNode(page, body[i], i)
                line == body[i][1]
            IN  IF /\ EndsInList(nodes)
                   /\ line.quote = 0
                   /\ line.list > 0 \/ node.kind = "list"
                THEN ExtendList(nodes, <<Total(node.units)>>, line.list > 0)
                ELSE Append(nodes, node)
    IN  FoldLeft(AddPart, <<>>, Places(body))

-----------------------------------------------------------------------------
(* Confluence: the body is one text of lines.                              *)
SplitAt(text, mark) ==
    FoldLeft(LAMBDA parts, x :
                 IF x = mark THEN Append(parts, <<>>)
                 ELSE Append(Front(parts), Append(Last(parts), x)),
             << <<>> >>, text)

(* Lines between blank lines.                                              *)
Paragraphed(text) ==
    SelectSeq(SplitAt(SplitAt(text, NewLine), <<>>), LAMBDA part : part # <<>>)

(* What a text lies in, seen from the top of the page; a panel or a layout *)
(* writes nothing of its own.                                              *)
OutermostType(page, n) ==
    LET around == {a \in Ancestors(page, n) \union {n} :
                       page[a].type \in Lists \union
                           {"heading", "codeBlock", "table", "blockquote"}}
    IN  IF around = {} THEN "paragraph" ELSE page[Min(around)].type

ConfluenceKind(page, part) ==
    LET type == OutermostType(page, Without(FlattenSeq(part), Marks)[1])
    IN  CASE type = "heading" -> "heading"
          [] type = "codeBlock" -> "code"
          [] type \in Lists -> "list"
          [] type = "table" /\ Len(part) > 1 /\ part[2] = <<Delimiter>> -> "table"
          [] OTHER -> "paragraph"

(* Each line of a list is an item, and each of a table a row, but for the  *)
(* delimiter row.  Bounds: headings of one depth, and every part has text. *)
ConfluenceNode(page, part, place) ==
    LET kind  == ConfluenceKind(page, part)
        Cost(line) == Total([i \in DOMAIN line |->
                                IF line[i] \in Marks THEN 0
                                ELSE page[line[i]].tokens])
        lines == SelectSeq(part, LAMBDA line : line # <<Delimiter>>)
        costs == [k \in DOMAIN lines |-> Cost(lines[k])]
    IN  [kind |-> kind, depth |-> 1, title |-> place,
         units |-> IF kind \in {"table", "list"} THEN costs
                   ELSE <<Total(costs)>>,
         ticks |-> page[Without(FlattenSeq(part), Marks)[1]].ticks]

ConfluenceNodes(page, body) ==
    LET parts == Paragraphed(body)
        AddPart(nodes, i) ==
            LET node == ConfluenceNode(page, parts[i], i)
            IN  IF EndsInList(nodes) /\ node.kind = "list"
                THEN ExtendList(nodes, node.units, FALSE)
                ELSE Append(nodes, node)
    IN  FoldLeft(AddPart, <<>>, Places(parts))
=============================================================================
