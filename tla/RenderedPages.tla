---------------------------- MODULE RenderedPages ----------------------------
(***************************************************************************)
(* What the text of a fetched page is reasoned about in: no operation of   *)
(* the code is here. A document is the list of its nodes, each before the  *)
(* nodes that hang on it, so what lies below a node is an interval of the  *)
(* list. fetchNotionBlockContents and renderAtlassianNode are recursions   *)
(* over it, and a family of texts solves one of them when every node has   *)
(* the text that the code makes of its children's.                         *)
(***************************************************************************)
EXTENDS Rendering

-----------------------------------------------------------------------------
(* p[i] is the parent of node i of n.                                      *)
Preorder(p, n) ==
    \A i \in 1..n :
        /\ p[i] \in 0..(i - 1)
        /\ \A k \in (p[i] + 1)..(i - 1) : p[k] >= p[i]

(* The last node below c, or c.                                            *)
EndOf(p, n, c) ==
    Max({e \in c..n : \A i \in (c + 1)..e : p[i] >= c})

(* What that end is.                                                       *)
IsEnd(e, p, n, c) ==
    /\ e \in c..n
    /\ \A i \in (c + 1)..e : p[i] >= c
    /\ e < n => p[e + 1] < c

(* What is written of the children, nothing for any other node.            *)
OfChildren(parts, p, n, b, K) ==
    /\ Len(parts) = n
    /\ \A i \in 1..n : parts[i] = IF p[i] = b THEN K[i] ELSE <<>>

(* How far the walk over the children has come after node k: it has        *)
(* written all up to e, and the next node is a child or the end.           *)
Walked(x, X, p, b, end, k, e) ==
    /\ e \in k..end
    /\ X[e] = X[b] \o x
    /\ \A i \in (k + 1)..e : p[i] # b
    /\ e = end \/ p[e + 1] = b

(* Each child adds what K says.                                            *)
ChildrenGive(X, K, p, n, b) ==
    \A c \in 1..n : p[c] = b => X[EndOf(p, n, c)] = X[c - 1] \o K[c]

(* All that lies below b adds what the parts say.                          *)
AllGive(X, p, n, b, parts) == X[EndOf(p, n, b)] = X[b] \o FlattenSeq(parts)

-----------------------------------------------------------------------------
(* What takes a chain of two to the chain of what it takes them to.        *)
Chains(H, T) ==
    /\ H[<<>>] = <<>>
    /\ \A x, y \in Seq(T) : H[x \o y] = H[x] \o H[y]

(* The images of the parts, place by place.                                *)
Images(ts, H, ss) ==
    /\ Len(ts) = Len(ss)
    /\ \A i \in 1..Len(ss) : ts[i] = H[ss[i]]

(* A chain, filtered part by part.                                         *)
Filtered(ts, ss, D) ==
    Len(ts) = Len(ss) /\ \A i \in 1..Len(ss) : ts[i] = Without(ss[i], D)

(* What K says of each element.                                            *)
Mapped(K, s) == [j \in DOMAIN s |-> K[s[j]]]

(* K gives every element of C something of A.                              *)
Yields(K, C, A) == \A c \in C : K[c] \in A

(* Place by place.                                                         *)
IsMapped(f, K, s) ==
    f = Mapped(K, s) /\ Len(f) = Len(s) /\ \A j \in 1..Len(s) : f[j] = K[s[j]]

-----------------------------------------------------------------------------
(* The parents of a page.                                                  *)
Parents(page) == [i \in DOMAIN page |-> page[i].parent]

(* The nodes that hang on b.                                               *)
NodesUnder(page, b) == {c \in DOMAIN page : page[c].parent = b}

(* Each node of the page that hangs on b, in order.                        *)
Selecting(sel, page, b) ==
    /\ Children(page, b) = FlattenSeq(sel)
    /\ Len(sel) = Len(page)
    /\ \A i \in 1..Len(page) :
           sel[i] = IF i \in NodesUnder(page, b) THEN <<i>> ELSE <<>>

(* F computes a node's value from those of the nodes of a lower rank.      *)
LooksBelow(F, rank, n, A) ==
    \A b \in 0..n : \A f, g \in [0..n -> A] :
        (\A c \in 0..n : rank[c] < rank[b] => f[c] = g[c])
        => F[<<b, f>>] = F[<<b, g>>]

(* The values it gives.                                                    *)
Solution(h, F, n) == \A b \in 0..n : h[b] = F[<<b, h>>]

(* The ancestors of a node are its parent and those of its parent.         *)
AncestorsOf(page, n) ==
    /\ \A b \in 1..n : /\ Ancestors(page, b) \subseteq 1..(b - 1)
                       /\ page[b].parent = 0 => Ancestors(page, b) = {}
    /\ \A b \in 1..n :
           page[b].parent # 0 =>
               Ancestors(page, b)
                   = {page[b].parent} \union Ancestors(page, page[b].parent)

(* What is written of block c below prefixes of these depths, if inner is  *)
(* what its children give.                                                 *)
PartOf(page, c, l, q, inner) ==
    (IF FormatNotionBlock(page, c, l, q) = <<>> THEN <<>>
     ELSE <<FormatNotionBlock(page, c, l, q)>>)
    \o (IF ~Entered(page[c].type) \/ Children(page, c) = <<>> THEN <<>>
        ELSE IF page[c].type = "table" THEN <<FlattenSeq(inner)>> ELSE inner)

PartsOf(page, l, q, C) ==
    [c \in 1..Len(page) |->
        PartOf(page, c, l, q, C[<<c, ChildListDepth(page[c].type, l),
                                  ChildQuoteDepth(page[c].type, q)>>])]

(* C solves the recursion of fetchNotionBlockContents.                     *)
SolvesNotion(C, page) ==
    \A b \in 0..Len(page), l, q \in Nat :
        C[<<b, l, q>>] = FlattenSeq(Mapped(PartsOf(page, l, q, C),
                                           Children(page, b)))

(* The lines a page may have.                                              *)
LineAt(page, b, l, q) ==
    [block |-> b, list |-> l, quote |-> q, delimiter |-> IsTableHeaderRow(page, b)]

LinesOf(page) ==
    {LineAt(page, x[1], x[2], x[3]) : x \in (1..Len(page)) \X Nat \X Nat}

(* C gives a text for what hangs on the nodes below b.                     *)
TextsUnder(C, page, b) ==
    \A c \in NodesUnder(page, b), l, q \in Nat :
        C[<<c, l, q>>] \in Seq(Seq(LinesOf(page)))

(* C and D agree on what hangs on the nodes below b.                       *)
AgreeUnder(C, D, page, b) ==
    \A c \in NodesUnder(page, b), l, q \in Nat : C[<<c, l, q>>] = D[<<c, l, q>>]

(* A solution of the recursion, as the code's CHOOSE wants it.             *)
NotionSolution(C, page) ==
    /\ C = [at \in (0..Len(page)) \X Nat \X Nat |-> C[at]]
    /\ SolvesNotion(C, page)

(* How many lists, or quotes, what hangs on b lies in.                     *)
DepthUnder(page, b, types) ==
    IF b = 0 THEN 0
    ELSE IF page[b].type \in types THEN Depth(page, b, types) + 1
    ELSE Depth(page, b, types)

(* The first row of a table that has a header.                             *)
FirstRowOf(page, b) ==
    \E t \in DOMAIN page :
        /\ page[t].type = "table" /\ page[t].header
        /\ \A s \in DOMAIN page : page[s].parent = t => b <= s
        /\ page[b].parent = t

(* A block that lies in no other document, and one whose children do not.  *)
Visible(page, b) == \A a \in Ancestors(page, b) : Entered(page[a].type)

Open(page, b) == b = 0 \/ (Visible(page, b) /\ Entered(page[b].type))

(* The line NotionTextIsComplete asks of block b.                          *)
LineOfBlock(page, b) ==
    [block |-> b, list |-> Depth(page, b, ListItems),
     quote |-> Depth(page, b, Quotes), delimiter |-> FirstRowOf(page, b)]

ExpectedPart(page, b) ==
    IF HasText(page[b].type) /\ Visible(page, b) THEN <<LineOfBlock(page, b)>>
    ELSE <<>>

(* What the recursion writes below b, where anything is written.           *)
InnerOf(C, page, b) ==
    IF Open(page, b)
    THEN FlattenSeq(C[<<b, DepthUnder(page, b, ListItems),
                        DepthUnder(page, b, Quotes)>>])
    ELSE <<>>

(* The expected lines, block by block.                                     *)
ExpectedRun(X, page) ==
    /\ X \in [0..Len(page) -> Seq(LinesOf(page))]
    /\ X[0] = <<>>
    /\ \A k \in 1..Len(page) : X[k] = X[k - 1] \o ExpectedPart(page, k)

(* Below b the recursion writes what is expected of the blocks up to the   *)
(* end of b.                                                               *)
WritesBelow(X, C, page, b) ==
    X[EndOf(Parents(page), Len(page), b)] = X[b] \o InnerOf(C, page, b)

(* What a child adds, its own line and what hangs on it.                   *)
Adds(C, page) ==
    [c \in 1..Len(page) |-> ExpectedPart(page, c) \o InnerOf(C, page, c)]

-----------------------------------------------------------------------------
(* A piece of a text, between line ends only.                              *)
PieceOf(u, t, lo, hi) ==
    /\ u = SubSeq(t, lo, hi)
    /\ \A i \in 1..(lo - 1) : t[i] = NewLine
    /\ \A i \in (hi + 1)..Len(t) : t[i] = NewLine

(* A text that ends a line.                                                *)
EndsLine(t) == Len(t) # 0 /\ t[Len(t)] = NewLine

-----------------------------------------------------------------------------
(* The text of a node, with the lines after it.                            *)
RenderedText(page, n, texts) == OwnText(page, n, texts) \o BlockEnd(TypeOf(page, n))

(* What is left of it: a leaf's token, or the tokens of its children.      *)
NodeTokens(page, n, ws) ==
    IF TypeOf(page, n) \in Leaves THEN <<n>>
    ELSE IF TypeOf(page, n) = "hardBreak" THEN <<>>
    ELSE FlattenSeq(ws)

(* T solves the recursion of renderAtlassianNode.                          *)
SolvesConfluence(T, page) ==
    /\ T \in [0..Len(page) -> Seq(Int)]
    /\ \A b \in 0..Len(page) :
           T[b] = RenderedText(page, b, Mapped(T, Children(page, b)))

(* The tokens of each node's text.                                         *)
TreeTokens(T, page) == [b \in 0..Len(page) |-> Without(T[b], Marks)]

(* A leaf's own token.                                                     *)
LeafPart(page, b) == IF page[b].type \in Leaves THEN <<b>> ELSE <<>>

(* The leaves of the first nodes.                                          *)
LeafRun(X, page) ==
    /\ X \in [0..Len(page) -> Seq(Int)]
    /\ X[0] = <<>>
    /\ \A k \in 1..Len(page) : X[k] = X[k - 1] \o LeafPart(page, k)

(* What lies below a node.                                                 *)
TokensBelow(W, page, b) ==
    IF TypeOf(page, b) \in Leaves THEN <<>> ELSE W[b]

CountsBelow(X, W, page, b) ==
    X[EndOf(Parents(page), Len(page), b)] = X[b] \o TokensBelow(W, page, b)

(* W gives each node the tokens of its children, or its own.               *)
SolvesTokens(W, page) ==
    /\ W \in [0..Len(page) -> Seq(Int)]
    /\ \A b \in 0..Len(page) :
           W[b] = NodeTokens(page, b, Mapped(W, Children(page, b)))

-----------------------------------------------------------------------------
(* A token at the end of a text.                                           *)
Appended(u, t, x) ==
    /\ Len(u) = Len(t) + 1 /\ u[Len(t) + 1] = x
    /\ \A i \in 1..Len(t) : u[i] = t[i]

(* A blank line after place i of a text.                                   *)
BlankAfter(t, i) ==
    \E k \in (i + 1)..(Len(t) - 1) : t[k] = NewLine /\ t[k + 1] = NewLine

(* The tokens that no blank line follows.                                  *)
OpenPlaces(t) == {i \in 1..Len(t) : t[i] \notin Marks /\ ~BlankAfter(t, i)}

OpenTokens(t) == {t[i] : i \in OpenPlaces(t)}

(* Two tokens of different blocks have a blank line between them.          *)
ApartAt(page, t, i, j) ==
    TopBlock(page, t[i]) # TopBlock(page, t[j]) =>
        \E k \in (i + 1)..(j - 2) : t[k] = NewLine /\ t[k + 1] = NewLine

Apart(page, t) ==
    \A i, j \in 1..Len(t) :
        (t[i] \notin Marks /\ t[j] \notin Marks /\ i < j)
        => ApartAt(page, t, i, j)

(* A text that ends with a blank line leaves no token open.                *)
EndsBlank(t) ==
    /\ Len(t) >= 2
    /\ t[Len(t) - 1] = NewLine /\ t[Len(t)] = NewLine

-----------------------------------------------------------------------------
(* One turn of the last lines of fetchDocumentById.                        *)
Squeeze(out, x) ==
    IF /\ x = NewLine
       /\ Len(out) >= 2
       /\ SubSeq(out, Len(out) - 1, Len(out)) = <<NewLine, NewLine>>
    THEN out ELSE Append(out, x)

SqueezeRun(g, t) ==
    /\ g \in [0..Len(t) -> Seq(Int)]
    /\ g[0] = <<>>
    /\ \A k \in 1..Len(t) : g[k] = Squeeze(g[k - 1], t[k])
    /\ Normalized(t) = TrimText(g[Len(t)])

(* The first k tokens of a text, for each k.                               *)
PrefixRun(h, t) ==
    /\ h \in [0..Len(t) -> Seq(Int)]
    /\ h[0] = <<>> /\ h[Len(t)] = t
    /\ \A k \in 1..Len(t) : Appended(h[k], h[k - 1], t[k])

(* What the squeezed text keeps of the text.                               *)
Squeezed(page, g, h) ==
    /\ Without(g, Marks) = Without(h, Marks)
    /\ OpenTokens(g) \subseteq OpenTokens(h)
    /\ EndsLine(h) => EndsLine(g)
    /\ Apart(page, h) => Apart(page, g)

-----------------------------------------------------------------------------
(* A node that lies in no block.                                           *)
Outside(page, b) ==
    b = 0 \/ \A a \in Ancestors(page, b) : page[a].type \notin Blocks

(* What the proof assumes of a document.                                   *)
IsDocument(page) ==
    /\ IsTree(page) /\ RowsLieInTables(page, "tableRow")
    /\ LeavesHoldNothing(page) /\ TextLiesInBlocks(page)

(* The texts of the children of b.                                         *)
TextsUnderNode(texts, T, page, b) ==
    /\ texts \in Seq(Seq(Int))
    /\ T[b] = RenderedText(page, b, texts)
    /\ Children(page, b) \in Seq(NodesUnder(page, b))
    /\ IsMapped(texts, T, Children(page, b))

(* The nodes that lie in the block of the top level that b lies in.        *)
SameBlock(page, b) ==
    {x \in 1..Len(page) : TopBlock(page, x) = TopBlock(page, b)}

=============================================================================
