------------------------------ MODULE Chunking ------------------------------
(***************************************************************************)
(* chunking/chunking.ts: the cut of a document body into chunks.           *)
(*                                                                         *)
(* A text is a sequence of tokens, and a token is named by the node it     *)
(* belongs to and its place there.  A node of the Markdown tree is         *)
(*   [kind, depth, title, units, ticks]: `depth` and `title` of a heading, *)
(* the token counts of the lines a cut may not divide, one for a           *)
(* paragraph, one per row of a table or item of a list, and the places of  *)
(* the tokens that hold three backticks or more in a row.                  *)
(* The encoder does not count joined text as the sum of its parts: a join  *)
(* costs o.join tokens, which may be negative.                             *)
(***************************************************************************)
EXTENDS Integers, Sequences, SequencesExt, Texts

(* What the parser gives: a list of nodes, and no table without a row.     *)
IsParsed(nodes) ==
    /\ Len(nodes) \in Nat /\ DOMAIN nodes = 1..Len(nodes)
    /\ \A n \in DOMAIN nodes :
           /\ nodes[n].units \in Seq(Nat)
           /\ nodes[n].kind = "table" => nodes[n].units # <<>>

Total(seq) == FoldLeft(LAMBDA a, b : a + b, 0, seq)

Tokens(n, from, count) == [i \in 1..count |-> <<n, from + i>>]

(* The source text of unit k of node n.                                    *)
UnitText(nodes, n, k) ==
    Tokens(n, Total(SubSeq(nodes[n].units, 1, k - 1)), nodes[n].units[k])

NodeText(nodes, n) == Tokens(n, 0, Total(nodes[n].units))

(* The tokens of the fence of an empty code block: what splitOversizeNode  *)
(* takes off the room of each piece.                                       *)
Fence(nodes, n) == IF nodes[n].kind = "code" THEN 1 ELSE 0

(* formatMarkdownCodeBlock: what the fence adds to the tokens of a text.   *)
(* Fence and text are joined, and text that holds three backticks in a row *)
(* is given a longer fence.                                                *)
FenceTokens(nodes, n, text, o) ==
    IF nodes[n].kind # "code" THEN 0
    ELSE IF \E t \in ToSet(text) : t[2] \in nodes[n].ticks
    THEN Fence(nodes, n) + o.join + 1
    ELSE Fence(nodes, n) + o.join

Chunk(text, tokenCount, headingPath) ==
    [text |-> text, tokenCount |-> tokenCount, headingPath |-> headingPath]

-----------------------------------------------------------------------------
(* splitText: consecutive pieces that fit, no token in two of them.        *)
SplitText(text, maxTokens) ==
    LET count == (Len(text) + maxTokens - 1) \div maxTokens
        Least(a, b) == IF a < b THEN a ELSE b
    IN  [k \in 1..count |-> SubSeq(text, (k - 1) * maxTokens + 1,
                                         Least(k * maxTokens, Len(text)))]

(* A piece: its source text, and of how many lines it was joined.          *)
Line(text) == [text |-> text, lines |-> 1]

(* The tokens of a piece: its units' and one join for every line end.      *)
CountTokens(piece, o) == Len(piece.text) + (piece.lines - 1) * o.join

NoLines == [text |-> <<>>, lines |-> 0]

UnderHeader(header, piece) ==
    IF header = <<>> THEN piece
    ELSE [text |-> header \o piece.text, lines |-> piece.lines + 1]

(* The loop over the units: the pieces closed so far and the one growing.  *)
PackUnit(acc, unit, header, maxTokens) ==
    IF /\ acc.pending.lines > 0
       /\ Len(header) + Len(acc.pending.text) + Len(unit) > maxTokens
    THEN [pieces |-> Append(acc.pieces, UnderHeader(header, acc.pending)),
          pending |-> Line(unit)]
    ELSE [pieces |-> acc.pieces,
          pending |-> [text |-> acc.pending.text \o unit,
                       lines |-> acc.pending.lines + 1]]

PackUnits(units, header, maxTokens) ==
    FoldLeft(LAMBDA acc, unit : PackUnit(acc, unit, header, maxTokens),
             [pieces |-> <<>>, pending |-> NoLines], units)

(* Mutant: the units still pending after the loop are forgotten.           *)
PackFullUnits(units, header, maxTokens) ==
    PackUnits(units, header, maxTokens).pieces

(* Units together under the ceiling, the header on every piece.  A unit    *)
(* over the ceiling stays whole, and line ends are not counted: the units  *)
(* are summed.                                                             *)
PackSourceUnits(units, header, maxTokens) ==
    LET end == PackUnits(units, header, maxTokens)
    IN  IF end.pending.lines = 0 THEN end.pieces
        ELSE Append(end.pieces, UnderHeader(header, end.pending))

SplitOversizeNode(nodes, n, maxTokens) ==
    LET units  == [k \in DOMAIN nodes[n].units |-> UnitText(nodes, n, k)]
        pieces == SplitText(NodeText(nodes, n), maxTokens - Fence(nodes, n))
    IN  IF nodes[n].kind = "table"
        THEN PackSourceUnits(Tail(units), Head(units), maxTokens)
        ELSE IF nodes[n].kind = "list"
        THEN PackSourceUnits(units, <<>>, maxTokens)
        ELSE [k \in DOMAIN pieces |-> Line(pieces[k])]

(* The stack of headings above a block: a heading pops headings of its     *)
(* depth or deeper off the end.                                            *)
PushHeading(nodes, stack, h) ==
    LET kept == {k \in 1..Len(stack) : nodes[stack[k]].depth < nodes[h].depth}
    IN  IF nodes[h].kind # "heading" THEN stack
        ELSE Append(SubSeq(stack, 1, Max(kept \union {0})), h)

HeadingStack(nodes, n) ==
    FoldLeft(LAMBDA stack, h : PushHeading(nodes, stack, h),
             <<>>, [i \in 1..n |-> i])

HeadingPath(nodes, n) ==
    LET stack == HeadingStack(nodes, n)
    IN  [i \in DOMAIN stack |-> nodes[stack[i]].title]

ChunkNode(nodes, n, o) ==
    LET ChunkOf(piece) ==
            Chunk(piece.text,
                  CountTokens(piece, o) + FenceTokens(nodes, n, piece.text, o),
                  HeadingPath(nodes, n))
        whole  == ChunkOf([text |-> NodeText(nodes, n),
                           lines |-> Len(nodes[n].units)])
        pieces == SplitOversizeNode(nodes, n, o.maxTokens)
    IN  IF whole.tokenCount <= o.maxTokens THEN <<whole>>
        ELSE [i \in DOMAIN pieces |-> ChunkOf(pieces[i])]

ChunkMarkdown(nodes, o) ==
    FlattenSeq([n \in DOMAIN nodes |-> ChunkNode(nodes, n, o)])

(* Plain text has no structure.                                            *)
ChunkText(nodes, o) ==
    LET text   == FlattenSeq([n \in DOMAIN nodes |-> NodeText(nodes, n)])
        pieces == SplitText(text, o.maxTokens)
    IN  [i \in DOMAIN pieces |-> Chunk(pieces[i], Len(pieces[i]), <<>>)]

-----------------------------------------------------------------------------
FindCommonPrefixLength(left, right) ==
    LET agree == {k \in 0..Len(left) : /\ k <= Len(right)
                                       /\ SubSeq(left, 1, k) = SubSeq(right, 1, k)}
    IN  CHOOSE k \in agree : \A j \in agree : j <= k

IsSameSection(left, right) ==
    /\ Len(left.headingPath) = Len(right.headingPath)
    /\ FindCommonPrefixLength(left.headingPath, right.headingPath)
           = Len(left.headingPath)

(* What the heading paths of all chunks begin with.                        *)
SharedPath(chunks) ==
    FoldLeft(LAMBDA path, chunk :
                 SubSeq(path, 1, FindCommonPrefixLength(path,
                                                        chunk.headingPath)),
             chunks[1].headingPath, chunks)

JoinChunks(chunks, o) ==
    Chunk(FlattenSeq([i \in DOMAIN chunks |-> chunks[i].text]),
          Total([i \in DOMAIN chunks |-> chunks[i].tokenCount])
              + (Len(chunks) - 1) * o.join,
          SharedPath(chunks))

(* Mutant: the estimate decides, the joined text is not counted again.     *)
MergeAllChunks(chunks, o) == Len(chunks)

(* How many leading chunks merge: as many as fit by the exact count.       *)
MergeLeadingChunks(chunks, o) ==
    LET fit == {k \in 2..Len(chunks) :
                    JoinChunks(SubSeq(chunks, 1, k), o).tokenCount
                        <= o.maxTokens}
    IN  CHOOSE k \in fit \union {1} : \A j \in fit : j <= k

(* The loop that empties `pending`.                                        *)
MergePending(pending, o) ==
    LET From[i \in 1..(Len(pending) + 1)] ==
            IF i > Len(pending) THEN <<>>
            ELSE LET rest == SubSeq(pending, i, Len(pending))
                     k    == MergeLeadingChunks(rest, o)
                 IN  <<JoinChunks(SubSeq(rest, 1, k), o)>> \o From[i + k]
    IN  From[1]

(* A fragment at the end joins the chunk before it when the section and    *)
(* the ceiling allow.                                                      *)
MergeTail(packed, o) ==
    LET n == Len(packed)
        joined == JoinChunks(<<packed[n - 1], packed[n]>>, o)
    IN  IF /\ n >= 2
           /\ packed[n].tokenCount < o.minTokens
           /\ IsSameSection(packed[n - 1], packed[n])
           /\ joined.tokenCount <= o.maxTokens
        THEN Append(SubSeq(packed, 1, n - 2), joined)
        ELSE packed

(* The run of chunks that grows, and what was packed before it.            *)
PackChunk(acc, chunk, o) ==
    IF acc.pending = <<>>
       \/ /\ Total([i \in DOMAIN acc.pending |-> acc.pending[i].tokenCount])
                 + chunk.tokenCount <= o.maxTokens
          /\ IsSameSection(acc.pending[1], chunk)
    THEN [packed |-> acc.packed, pending |-> Append(acc.pending, chunk)]
    ELSE [packed |-> acc.packed \o MergePending(acc.pending, o),
          pending |-> <<chunk>>]

PackedRuns(chunks, o) ==
    FoldLeft(LAMBDA acc, chunk : PackChunk(acc, chunk, o),
             [packed |-> <<>>, pending |-> <<>>], chunks)

PackChunks(chunks, o) ==
    LET end == PackedRuns(chunks, o)
    IN  MergeTail(end.packed \o MergePending(end.pending, o), o)

CreateChunks(nodes, textFormat, o) ==
    PackChunks(IF textFormat = "markdown" THEN ChunkMarkdown(nodes, o)
                                          ELSE ChunkText(nodes, o), o)

-----------------------------------------------------------------------------
(* What the chunks of a body must be.                                      *)

(* The tokens of a table's header row, which every piece of it repeats.    *)
HeaderTokens(nodes) ==
    UNION {{<<n, i>> : i \in 1..nodes[n].units[1]} :
               n \in {m \in DOMAIN nodes : nodes[m].kind = "table"}}

(* The tables that are a header row alone and over the ceiling: there is   *)
(* no row below it to put in a piece.                                      *)
LoneHeaders(nodes, maxTokens) ==
    {n \in DOMAIN nodes : /\ nodes[n].kind = "table"
                          /\ Len(nodes[n].units) = 1
                          /\ nodes[n].units[1] > maxTokens}

(* Every token of the body, but for the nodes that are lost, stands in     *)
(* exactly one chunk, in the order of the body; only the header row of a   *)
(* table comes again.                                                      *)
TextIsKept(nodes, lost, chunks) ==
    LET source == FlattenSeq([n \in DOMAIN nodes |->
                                 IF n \in lost THEN <<>>
                                 ELSE NodeText(nodes, n)])
        kept   == FlattenSeq([i \in DOMAIN chunks |-> chunks[i].text])
    IN  /\ Without(kept, HeaderTokens(nodes))
               = Without(source, HeaderTokens(nodes))
        /\ ToSet(kept) = ToSet(source)

(* No chunk runs over two sections: its heading path is the path of every  *)
(* token in it.                                                            *)
SectionsStayApart(nodes, chunks) ==
    \A i \in DOMAIN chunks : \A t \in ToSet(chunks[i].text) :
        chunks[i].headingPath = HeadingPath(nodes, t[1])

(* A chunk over the ceiling is no product of a merge: it is one piece of   *)
(* one table or list, whose rows and items are never cut, or a piece of a  *)
(* code block that has room for its text and an empty fence.               *)
ChunksFit(nodes, chunks, o) ==
    \A i \in DOMAIN chunks :
        chunks[i].tokenCount > o.maxTokens =>
            \E n \in DOMAIN nodes :
                /\ nodes[n].kind \in {"table", "list", "code"}
                /\ nodes[n].kind = "code" =>
                       Len(chunks[i].text) + Fence(nodes, n) <= o.maxTokens
                /\ ToSet(chunks[i].text) \subseteq ToSet(NodeText(nodes, n))
                /\ \A j \in DOMAIN chunks[i].text, k \in DOMAIN chunks[i].text :
                       chunks[i].text[j] = chunks[i].text[k] => j = k
=============================================================================
