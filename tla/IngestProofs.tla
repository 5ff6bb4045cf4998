---------------------------- MODULE IngestProofs ----------------------------
(***************************************************************************)
(* Proofs about Ingest, for every number of pages, every size of a listing *)
(* request and every bound on the edits: the types, the walk over listings *)
(* that people disturb, and the sweep; then, for every document a parser   *)
(* may make, that its chunks hold its text and keep with their vectors;    *)
(* and for every page that may be fetched, that its text is rendered in    *)
(* full and in order. A chunking is a chain of folds: the part on folds    *)
(* says what each of them does turn by turn, and the rest is induction     *)
(* over the turns. A rendering is a recursion over a tree: its solution is *)
(* built rank by rank, and what holds of it is shown from the last node    *)
(* of the page to the first.                                               *)
(***************************************************************************)
EXTENDS Ingest, RenderedPages, SequenceTheorems, FiniteSetTheorems,
        WellFoundedInduction, NaturalsInduction, TLAPS

-----------------------------------------------------------------------------
(* Every edit gets an instant of its own, past those before it, and so     *)
(* does a position past every position so far.                             *)
Horizon == Cardinality(Pages) + clock

(* A document of the listing page is in hand.                              *)
Handling == {"fetch", "chunk", "embed", "store"}

PassTypeOK ==
    /\ provider \in {"notion", "confluence", "upload"}
    /\ clock \in 0..MaxClock
    /\ edited \in [Pages -> 1..Horizon]
    /\ scope \in [Pages -> Scopes]
    /\ steady \in [Pages -> BOOLEAN]
    /\ stale \subseteq Pages
    /\ phase \in Phases
    /\ cursor \in 0..Horizon
    /\ todo \in Seq(Pages)
    /\ phase \in Handling => todo # <<>>
    /\ seen \subseteq Pages
    /\ gone \subseteq Pages

(* The wait is the sum of delays of a minute at most.                      *)
RequestTypeOK ==
    /\ request \in [attempt : 0..4, waited : Nat]
    /\ request.waited <= 60 * request.attempt

EditsAreApart == \A p, q \in Pages : edited[p] = edited[q] => p = q

(* The walk goes on after the page in hand.                                *)
WalkIsOn == phase = "list" \/ (phase \in Handling /\ cursor # 0)

Ahead(p) == WalkIsOn /\ Position(p) > cursor

(* What was in the source all along and not listed yet is still to come:   *)
(* behind the cursor nothing was missed.                                   *)
UnseenLiesAhead ==
    phase # "aborted" =>
        \A p \in Pages :
            steady[p] /\ scope[p] = "current" /\ p \notin seen => Ahead(p)

(* A page that never moved is observed or swept according to where it is.  *)
SweepFollowsScope ==
    \A p \in Pages :
        steady[p] => /\ scope[p] = "current" => p \notin gone
                     /\ scope[p] # "current" => p \notin seen

SweepEndsWhole ==
    /\ phase # "done" => deleted = {}
    /\ phase = "done" => /\ deleted = gone
                         /\ seen \union gone = Pages

PassInv ==
    /\ PassTypeOK
    /\ RequestTypeOK
    /\ EditsAreApart
    /\ UnseenLiesAhead
    /\ SweepFollowsScope
    /\ SweepEndsWhole

-----------------------------------------------------------------------------
(* The order of a listing.                                                 *)

(* A position is a number, another one for every page.                     *)
LEMMA PositionsAreApart ==
  ASSUME PassTypeOK, EditsAreApart
  PROVE  /\ \A p \in Pages : Position(p) \in 1..Horizon
         /\ \A p, q \in Pages : Position(p) = Position(q) => p = q
<1>1. Cardinality(Pages) \in Nat /\ clock \in Nat
  BY FS_CardinalityType, IngestAssumption DEF PassTypeOK
<1>2. \A p \in Pages : p \in 1..Cardinality(Pages) /\ edited[p] \in 1..Horizon
  BY IngestAssumption DEF PassTypeOK
<1>. QED BY <1>1, <1>2 DEF Position, EditsAreApart, Horizon

(* The rank of a page in a set: how many pages lie before it.              *)
LEMMA RanksFollowPositions ==
  ASSUME PassTypeOK, EditsAreApart, NEW S \in SUBSET Pages
  PROVE  /\ IsFiniteSet(S) /\ Cardinality(S) \in Nat
         /\ \A p \in S : Cardinality(Before(S, p)) \in 0..(Cardinality(S) - 1)
         /\ \A p, q \in S : Position(p) < Position(q) =>
                Cardinality(Before(S, p)) < Cardinality(Before(S, q))
<1>1. IsFiniteSet(S) /\ Cardinality(S) \in Nat
  BY FS_Subset, FS_CardinalityType, IngestAssumption
<1>2. \A p \in Pages : Position(p) \in Int
  BY PositionsAreApart, FS_CardinalityType, IngestAssumption
     DEF PassTypeOK, Horizon
<1>3. ASSUME NEW p \in S
      PROVE  Cardinality(Before(S, p)) \in 0..(Cardinality(S) - 1)
  <2>1. Before(S, p) \in SUBSET (S \ {p})  BY <1>2 DEF Before
  <2>2. /\ IsFiniteSet(S \ {p})
        /\ Cardinality(S \ {p}) = Cardinality(S) - 1
    BY <1>1, FS_RemoveElement
  <2>3. /\ IsFiniteSet(Before(S, p))
        /\ Cardinality(Before(S, p)) <= Cardinality(S \ {p})
    BY <2>1, <2>2, FS_Subset
  <2>4. Cardinality(Before(S, p)) \in Nat  BY <2>3, FS_CardinalityType
  <2>. QED BY <1>1, <2>2, <2>3, <2>4
<1>4. ASSUME NEW p \in S, NEW q \in S, Position(p) < Position(q)
      PROVE  Cardinality(Before(S, p)) < Cardinality(Before(S, q))
  <2>1. /\ p \in Before(S, q)
        /\ Before(S, p) \in SUBSET (Before(S, q) \ {p})
    BY <1>2, <1>4 DEF Before
  <2>2. Before(S, q) \in SUBSET S  BY DEF Before
  <2>3. IsFiniteSet(Before(S, q))  BY <1>1, <2>2, FS_Subset
  <2>4. /\ IsFiniteSet(Before(S, q) \ {p})
        /\ Cardinality(Before(S, q) \ {p}) = Cardinality(Before(S, q)) - 1
    BY <2>1, <2>3, FS_RemoveElement
  <2>5. Cardinality(Before(S, p)) <= Cardinality(Before(S, q) \ {p})
    BY <2>1, <2>4, FS_Subset
  <2>6. Cardinality(Before(S, p)) \in Int /\ Cardinality(Before(S, q)) \in Int
    BY <1>1, <1>3
  <2>. QED BY <2>4, <2>5, <2>6
<1>. QED BY <1>1, <1>3, <1>4

(* InOrder lists every page of a set once, by ascending position.          *)
LEMMA OrderIsAscending ==
  ASSUME PassTypeOK, EditsAreApart, NEW S \in SUBSET Pages
  PROVE  /\ Cardinality(S) \in Nat
         /\ InOrder(S) \in [1..Cardinality(S) -> S]
         /\ \A p \in S : \E i \in 1..Cardinality(S) : InOrder(S)[i] = p
         /\ \A i, j \in 1..Cardinality(S) :
                i < j => Position(InOrder(S)[i]) < Position(InOrder(S)[j])
<1>. DEFINE n == Cardinality(S)
            rank == [p \in S |-> Cardinality(Before(S, p)) + 1]
<1>1. /\ IsFiniteSet(S) /\ n \in Nat
      /\ \A p \in S : Cardinality(Before(S, p)) \in 0..(n - 1)
      /\ \A p, q \in S : Position(p) < Position(q) =>
             Cardinality(Before(S, p)) < Cardinality(Before(S, q))
  BY RanksFollowPositions
<1>2. /\ \A p \in S : Position(p) \in Int
      /\ \A p, q \in S : Position(p) = Position(q) => p = q
  <2>1. /\ \A p \in Pages : Position(p) \in 1..Horizon
        /\ \A p, q \in Pages : Position(p) = Position(q) => p = q
    BY PositionsAreApart
  <2>. QED BY <2>1
<1>3. \A p, q \in S :
          Cardinality(Before(S, p)) = Cardinality(Before(S, q)) => p = q
  <2>. SUFFICES ASSUME NEW p \in S, NEW q \in S, p # q,
                       Cardinality(Before(S, p)) = Cardinality(Before(S, q))
                PROVE  FALSE
    OBVIOUS
  <2>1. Position(p) < Position(q) \/ Position(q) < Position(p)  BY <1>2
  <2>2. Cardinality(Before(S, p)) \in Int  BY <1>1
  <2>. QED BY <1>1, <2>1, <2>2
<1>4. rank \in [S -> 1..n]  BY <1>1
<1>5. IsInjective(rank)  BY <1>1, <1>3, <1>4 DEF IsInjective
<1>6. rank \in Injection(S, 1..n)  BY <1>4, <1>5 DEF Injection
<1>7. IsFiniteSet(1..n) /\ Cardinality(1..n) = n  BY <1>1, FS_Interval
<1>8. rank \in Surjection(S, 1..n)  BY <1>6, <1>7, FS_Injection
<1>9. \A i \in 1..n : \E p \in S : rank[p] = i  BY <1>8 DEF Surjection
<1>10. \A i \in 1..n : \E p \in S : Cardinality(Before(S, p)) = i - 1
  BY <1>1, <1>9
<1>11. InOrder(S) = [i \in 1..n |->
                        CHOOSE p \in S : Cardinality(Before(S, p)) = i - 1]
  BY DEF InOrder
<1>12. \A i \in 1..n : /\ InOrder(S)[i] \in S
                       /\ Cardinality(Before(S, InOrder(S)[i])) = i - 1
  BY <1>10, <1>11
<1>13. InOrder(S) \in [1..n -> S]  BY <1>11, <1>12
<1>14. ASSUME NEW p \in S
       PROVE  \E i \in 1..n : InOrder(S)[i] = p
  <2>1. PICK i \in 1..n : i = Cardinality(Before(S, p)) + 1  BY <1>1
  <2>2. Cardinality(Before(S, InOrder(S)[i])) = Cardinality(Before(S, p))
    BY <1>1, <1>12, <2>1
  <2>. QED BY <1>3, <1>12, <2>2
<1>15. ASSUME NEW i \in 1..n, NEW j \in 1..n, i < j
       PROVE  Position(InOrder(S)[i]) < Position(InOrder(S)[j])
  <2>. DEFINE p == InOrder(S)[i]
              q == InOrder(S)[j]
  <2>1. /\ p \in S /\ Cardinality(Before(S, p)) = i - 1
        /\ q \in S /\ Cardinality(Before(S, q)) = j - 1
    BY <1>12
  <2>. HIDE DEF p, q
  <2>2. SUFFICES ASSUME ~(Position(p) < Position(q))  PROVE FALSE  BY DEF p, q
  <2>3. CASE Position(p) = Position(q)  BY <1>1, <1>2, <1>15, <2>1, <2>3
  <2>4. CASE Position(q) < Position(p)
    <3>1. Cardinality(Before(S, q)) < Cardinality(Before(S, p))
      BY <1>1, <2>1, <2>4
    <3>. QED BY <1>1, <1>15, <2>1, <3>1
  <2>5. Position(p) \in Int /\ Position(q) \in Int  BY <1>2, <2>1
  <2>. QED BY <2>2, <2>3, <2>4, <2>5
<1>. QED BY <1>1, <1>13, <1>14, <1>15

(* The files of an upload in some order.                                   *)
LEMMA FilesInHand ==
  /\ SetToSeq(Pages) \in Seq(Pages)
  /\ SetToSeq(Pages) # <<>>
<1>. DEFINE n == Cardinality(Pages)
<1>1. n \in Nat /\ ExistsBijection(1..n, Pages)
  BY FS_CardinalityType, IngestAssumption
<1>2. PICK f : f \in Bijection(1..n, Pages)  BY <1>1 DEF ExistsBijection
<1>3. \E g \in [1..n -> Pages] : IsInjective(g)
  BY <1>2 DEF Bijection, Injection
<1>4. SetToSeq(Pages) \in [1..n -> Pages]  BY <1>3 DEF SetToSeq
<1>5. n # 0  BY FS_EmptySet, IngestAssumption
<1>6. SetToSeq(Pages) \in Seq(Pages)  BY <1>1, <1>4
<1>7. 1 \in DOMAIN SetToSeq(Pages)  BY <1>1, <1>4, <1>5
<1>. QED BY <1>6, <1>7

(* The page a listing request is answered with, and what it leaves.        *)
ListingOrder == InOrder(Listed)
ServedPage == SubSeq(ListingOrder, 1, Least(PageSize, Len(ListingOrder)))

(* A served page holds the listed documents up to the last one of it:      *)
(* every other lies past that one, and there is none when the page holds   *)
(* the end of the order.                                                   *)
LEMMA ServedPageIsAPrefix ==
  ASSUME PassTypeOK, EditsAreApart
  PROVE  /\ ServedPage \in Seq(Listed)
         /\ ServedPage = <<>> => Listed = {}
         /\ ServedPage # <<>> => Last(ServedPage) \in Listed
         /\ \A p \in Listed :
                p \in ToSet(ServedPage)
                \/ /\ Len(ListingOrder) > PageSize
                   /\ ServedPage # <<>>
                   /\ Position(p) > Position(Last(ServedPage))
<1>. DEFINE n == Cardinality(Listed)
            order == ListingOrder
            k == Least(PageSize, n)
<1>1. Listed \in SUBSET Pages  BY DEF Listed
<1>2. /\ n \in Nat
      /\ order \in [1..n -> Listed]
      /\ \A p \in Listed : \E i \in 1..n : order[i] = p
      /\ \A i, j \in 1..n : i < j => Position(order[i]) < Position(order[j])
  BY <1>1, OrderIsAscending DEF ListingOrder
<1>3. order \in Seq(Listed) /\ Len(order) = n  BY <1>2
<1>4. PageSize \in Nat \ {0}  BY IngestAssumption
<1>5. /\ k \in 0..n
      /\ n > 0 => k > 0
      /\ k = n \/ (k = PageSize /\ n > PageSize)
  BY <1>2, <1>4 DEF Least
<1>6. ServedPage = SubSeq(order, 1, k)  BY <1>3 DEF ServedPage
<1>. HIDE DEF k, order, n
<1>7. \A i \in 1..k : order[i] \in Listed  BY <1>2, <1>5
<1>8. /\ ServedPage \in Seq(Listed)
      /\ Len(ServedPage) = k
      /\ \A i \in 1..k : ServedPage[i] = order[i]
  <2>1. k \in Int  BY <1>5
  <2>2. /\ SubSeq(order, 1, k) \in Seq(Listed)
        /\ Len(SubSeq(order, 1, k)) = IF 1 <= k THEN k - 1 + 1 ELSE 0
        /\ \A i \in 1..(k - 1 + 1) : SubSeq(order, 1, k)[i] = order[1 + i - 1]
    BY <1>7, <2>1, SubSeqProperties
  <2>3. Len(ServedPage) = k  BY <1>2, <1>5, <1>6, <2>2
  <2>4. ASSUME NEW i \in 1..k  PROVE ServedPage[i] = order[i]
    <3>1. k - 1 + 1 = k /\ 1 + i - 1 = i  BY <2>1
    <3>. QED BY <1>6, <2>2, <3>1
  <2>. QED BY <1>6, <2>2, <2>3, <2>4
<1>9. ServedPage = <<>> <=> k = 0  BY <1>5, <1>8
<1>10. ServedPage = <<>> => Listed = {}  BY <1>2, <1>5, <1>9
<1>11. ASSUME ServedPage # <<>>
       PROVE  k \in 1..n /\ Last(ServedPage) = order[k]
  <2>1. k \in 1..n  BY <1>2, <1>5, <1>9, <1>11
  <2>2. Last(ServedPage) = ServedPage[k]  BY <1>8 DEF Last
  <2>. QED BY <1>8, <2>1, <2>2
<1>12. ServedPage # <<>> => Last(ServedPage) \in Listed  BY <1>7, <1>2, <1>11
<1>13. ASSUME NEW p \in Listed
       PROVE  p \in ToSet(ServedPage)
              \/ /\ Len(ListingOrder) > PageSize
                 /\ ServedPage # <<>>
                 /\ Position(p) > Position(Last(ServedPage))
  <2>1. PICK i \in 1..n : order[i] = p  BY <1>2
  <2>2. CASE i <= k
    <3>1. i \in 1..k  BY <1>2, <1>5, <2>2
    <3>2. DOMAIN ServedPage = 1..k  BY <1>8
    <3>3. ServedPage[i] = p  BY <1>8, <2>1, <3>1
    <3>. QED BY <3>1, <3>2, <3>3 DEF ToSet
  <2>3. CASE i > k
    <3>1. k # n /\ n > 0  BY <1>2, <1>5, <2>1, <2>3
    <3>2. k = PageSize /\ n > PageSize  BY <1>5, <3>1
    <3>3. ServedPage # <<>>  BY <1>4, <1>9, <3>2
    <3>4. k \in 1..n /\ Last(ServedPage) = order[k]  BY <1>11, <3>3
    <3>5. Position(order[k]) < Position(order[i])  BY <1>2, <2>1, <2>3, <3>4
    <3>6. Position(order[k]) \in Int /\ Position(order[i]) \in Int
      <4>1. \A q \in Pages : Position(q) \in 1..Horizon  BY PositionsAreApart
      <4>2. order[k] \in Pages /\ order[i] \in Pages  BY <1>1, <1>2, <2>1, <3>4
      <4>. QED BY <4>1, <4>2
    <3>7. Len(ListingOrder) > PageSize  BY <1>3, <3>2 DEF order
    <3>. QED BY <2>1, <3>3, <3>4, <3>5, <3>6, <3>7
  <2>. QED BY <1>2, <1>5, <2>1, <2>2, <2>3
<1>. QED BY <1>8, <1>10, <1>12, <1>13

-----------------------------------------------------------------------------
(* What a pass starts with.                                                *)
LEMMA InitPass == Init => PassInv
<1>. SUFFICES ASSUME Init PROVE PassInv  OBVIOUS
<1>1. Cardinality(Pages) \in Nat  BY FS_CardinalityType, IngestAssumption
<1>2. MaxClock \in Nat  BY IngestAssumption
<1>3. clock \in 0..MaxClock  BY <1>2 DEF Init
<1>4. Horizon \in Nat /\ Cardinality(Pages) <= Horizon
  BY <1>1, <1>2, <1>3 DEF Horizon
<1>5. edited \in [Pages -> 1..Horizon]  BY <1>1, <1>4, IngestAssumption DEF Init
<1>6. scope \in [Pages -> Scopes]  BY DEF Init, Scopes
<1>7. todo \in Seq(Pages)  BY FilesInHand DEF Init
<1>8. phase \in Handling => todo # <<>>  BY FilesInHand DEF Init, Handling
<1>9. stale \subseteq Pages  BY IngestAssumption DEF Init
<1>10. PassTypeOK
  BY <1>3, <1>4, <1>5, <1>6, <1>7, <1>8, <1>9
     DEF PassTypeOK, Init, Phases
<1>11. RequestTypeOK  BY DEF RequestTypeOK, Init, FirstTry
<1>12. EditsAreApart  BY DEF EditsAreApart, Init
<1>13. UnseenLiesAhead
  <2>. SUFFICES ASSUME NEW p \in Pages, p \notin seen  PROVE Ahead(p)
    BY DEF UnseenLiesAhead
  <2>1. phase = "list" /\ cursor = 0  BY DEF Init
  <2>2. Position(p) \in 1..Horizon  BY <1>10, <1>12, PositionsAreApart
  <2>. QED BY <1>4, <2>1, <2>2 DEF Ahead, WalkIsOn
<1>14. SweepFollowsScope  BY DEF SweepFollowsScope, Init
<1>15. SweepEndsWhole  BY DEF SweepEndsWhole, Init
<1>. QED BY <1>10, <1>11, <1>12, <1>13, <1>14, <1>15 DEF PassInv

-----------------------------------------------------------------------------
(* The people at the provider.                                             *)

(* An edit moves a page past every position a listing can stand at.        *)
LEMMA EditKeepsPass ==
  ASSUME PassInv, NEW p \in Pages, EditPage(p)
  PROVE  PassInv'
<1>. USE DEF PassInv
<1>1. Cardinality(Pages) \in Nat /\ clock \in Nat /\ MaxClock \in Nat
  BY FS_CardinalityType, IngestAssumption DEF PassTypeOK
<1>2. /\ clock < MaxClock /\ clock' = clock + 1
      /\ phase \in {"list", "check"}
      /\ edited' = [edited EXCEPT ![p] = Cardinality(Pages) + clock']
      /\ UNCHANGED <<provider, stale, cursor, todo, seen, gone, deleted,
                     scope, steady, phase, request>>
  BY DEF EditPage, Tick, Requesting, given, walk, sweep
<1>3. Horizon \in Nat /\ Horizon' = Horizon + 1  BY <1>1, <1>2 DEF Horizon
<1>4. edited \in [Pages -> 1..Horizon]  BY DEF PassTypeOK
<1>5. edited'[p] = Horizon'  BY <1>2, <1>4 DEF Horizon
<1>6. \A q \in Pages \ {p} : edited'[q] = edited[q]  BY <1>2, <1>4
<1>7. edited' \in [Pages -> 1..Horizon']
  <2>1. \A q \in Pages : edited'[q] \in 1..Horizon'  BY <1>3, <1>4, <1>5, <1>6
  <2>. QED BY <1>2, <1>4, <2>1
<1>8. PassTypeOK'
  <2>1. cursor' \in 0..Horizon'  BY <1>2, <1>3 DEF PassTypeOK
  <2>2. clock' \in 0..MaxClock  BY <1>1, <1>2
  <2>. QED BY <1>2, <1>7, <2>1, <2>2 DEF PassTypeOK
<1>9. RequestTypeOK'  BY <1>2 DEF RequestTypeOK
<1>10. EditsAreApart'
  <2>1. \A q \in Pages : edited[q] < Horizon'  BY <1>3, <1>4
  <2>. QED BY <1>5, <1>6, <2>1, <1>3 DEF EditsAreApart
<1>11. UnseenLiesAhead'
  <2>. SUFFICES ASSUME phase # "aborted", NEW q \in Pages,
                       steady[q], scope[q] = "current", q \notin seen
                PROVE  Ahead(q)'
    BY <1>2 DEF UnseenLiesAhead
  <2>1. Ahead(q)  BY DEF UnseenLiesAhead
  <2>2. WalkIsOn'  BY <1>2, <2>1 DEF Ahead, WalkIsOn
  <2>3. Position(q) \in 1..Horizon /\ cursor \in 0..Horizon
    BY PositionsAreApart DEF PassTypeOK
  <2>4. Position(q)' > cursor
    <3>1. CASE provider = "notion" /\ q = p
      BY <1>2, <1>3, <1>5, <2>3, <3>1 DEF Position
    <3>2. CASE ~(provider = "notion" /\ q = p)
      <4>1. Position(q)' = Position(q)  BY <1>2, <1>6, <3>2 DEF Position
      <4>. QED BY <2>1, <4>1 DEF Ahead
    <3>. QED BY <3>1, <3>2
  <2>. QED BY <1>2, <2>2, <2>4 DEF Ahead
<1>12. SweepFollowsScope'  BY <1>2 DEF SweepFollowsScope
<1>13. SweepEndsWhole'  BY <1>2 DEF SweepEndsWhole
<1>. QED BY <1>8, <1>9, <1>10, <1>11, <1>12, <1>13

(* A page that moves is steady no longer.                                  *)
LEMMA MoveKeepsPass ==
  ASSUME PassInv, NEW p \in Pages, NEW to \in Scopes, MovePage(p, to)
  PROVE  PassInv'
<1>. USE DEF PassInv
<1>1. Cardinality(Pages) \in Nat /\ clock \in Nat /\ MaxClock \in Nat
  BY FS_CardinalityType, IngestAssumption DEF PassTypeOK
<1>2. /\ clock < MaxClock /\ clock' = clock + 1
      /\ scope' = [scope EXCEPT ![p] = to]
      /\ steady' = [steady EXCEPT ![p] = FALSE]
      /\ UNCHANGED <<provider, stale, cursor, todo, seen, gone, deleted,
                     edited, phase, request>>
  BY DEF MovePage, Tick, given, walk, sweep
<1>3. Horizon \in Nat /\ Horizon' = Horizon + 1  BY <1>1, <1>2 DEF Horizon
<1>4. scope \in [Pages -> Scopes] /\ steady \in [Pages -> BOOLEAN]
  BY DEF PassTypeOK
<1>5. scope' \in [Pages -> Scopes] /\ steady' \in [Pages -> BOOLEAN]
  BY <1>2, <1>4
<1>6. ~steady'[p]  BY <1>2, <1>4
<1>7. \A q \in Pages \ {p} : scope'[q] = scope[q] /\ steady'[q] = steady[q]
  BY <1>2, <1>4
<1>8. PassTypeOK'
  <2>1. cursor' \in 0..Horizon'  BY <1>2, <1>3 DEF PassTypeOK
  <2>2. clock' \in 0..MaxClock  BY <1>1, <1>2
  <2>3. edited' \in [Pages -> 1..Horizon']
    <3>1. edited \in [Pages -> 1..Horizon]  BY DEF PassTypeOK
    <3>. QED BY <1>2, <1>3, <3>1
  <2>. QED BY <1>2, <1>5, <2>1, <2>2, <2>3 DEF PassTypeOK
<1>9. RequestTypeOK'  BY <1>2 DEF RequestTypeOK
<1>10. EditsAreApart'  BY <1>2 DEF EditsAreApart
<1>11. UnseenLiesAhead'
  <2>. SUFFICES ASSUME phase # "aborted", NEW q \in Pages,
                       steady'[q], scope'[q] = "current", q \notin seen
                PROVE  Ahead(q)'
    BY <1>2 DEF UnseenLiesAhead
  <2>1. steady[q] /\ scope[q] = "current"  BY <1>6, <1>7
  <2>2. Ahead(q)  BY <2>1 DEF UnseenLiesAhead
  <2>. QED BY <1>2, <2>2 DEF Ahead, WalkIsOn, Position
<1>12. SweepFollowsScope'  BY <1>2, <1>6, <1>7 DEF SweepFollowsScope
<1>13. SweepEndsWhole'  BY <1>2 DEF SweepEndsWhole
<1>. QED BY <1>8, <1>9, <1>10, <1>11, <1>12, <1>13

-----------------------------------------------------------------------------
(* Requests that fail.                                                     *)

(* No wait is longer than a minute.                                        *)
LEMMA DelaysAreShort ==
  ASSUME NEW failure, NEW retryAfter \in Nat, NEW attempt \in 0..3
  PROVE  Delay(failure, retryAfter, attempt) \in 0..60
<1>1. 2^0 = 1 /\ 2^1 = 2 /\ 2^2 = 4 /\ 2^3 = 8  OBVIOUS
<1>2. attempt = 0 \/ attempt = 1 \/ attempt = 2 \/ attempt = 3  OBVIOUS
<1>3. 2^attempt \in 0..60
  <2>1. CASE attempt = 0  BY <1>1, <2>1
  <2>2. CASE attempt = 1  BY <1>1, <2>2
  <2>3. CASE attempt = 2  BY <1>1, <2>3
  <2>4. CASE attempt = 3  BY <1>1, <2>4
  <2>. QED BY <1>2, <2>1, <2>2, <2>3, <2>4
<1>4. Least(retryAfter, 60) \in 0..60  BY DEF Least
<1>. QED BY <1>3, <1>4 DEF Delay

(* The pass ends where it is, or the request is put off: at most four      *)
(* times, and by a minute at most each time.                               *)
LEMMA FailureKeepsPass ==
  ASSUME PassInv, NEW failure \in Failures, NEW s \in RetryAfters,
         FailAttempt(failure, s)
  PROVE  PassInv'
<1>. USE DEF PassInv
<1>. DEFINE ends == failure = "rejected" \/ request.attempt = MaxRetries
<1>1. UNCHANGED <<provider, stale, clock, edited, scope, steady, cursor, todo,
                  seen, gone, deleted>>
  BY DEF FailAttempt, given, remote, walk, sweep
<1>2. phase \in {"list", "check", "fetch"}
  BY DEF FailAttempt, Requesting, Fetching
<1>3. /\ ends => phase' = "aborted" /\ request' = FirstTry
      /\ ~ends =>
             /\ request' = [attempt |-> request.attempt + 1,
                            waited |-> request.waited +
                                Delay(failure, s, request.attempt)]
             /\ phase' = phase
  BY DEF FailAttempt
<1>4. phase' \in {phase, "aborted"}  BY <1>3
<1>5. Horizon' = Horizon  BY <1>1 DEF Horizon
<1>6. PassTypeOK'  BY <1>1, <1>4, <1>5 DEF PassTypeOK, Phases, Handling
<1>7. RequestTypeOK'
  <2>1. CASE ends
    <3>1. request' = [attempt |-> 0, waited |-> 0]  BY <1>3, <2>1 DEF FirstTry
    <3>. QED BY <3>1 DEF RequestTypeOK
  <2>2. CASE ~ends
    <3>1. /\ request.attempt \in 0..4 /\ request.waited \in Nat
          /\ request.waited <= 60 * request.attempt
      BY DEF RequestTypeOK
    <3>2. request.attempt \in 0..3  BY <2>2, <3>1 DEF MaxRetries
    <3>3. Delay(failure, s, request.attempt) \in 0..60
      BY <3>2, DelaysAreShort, IngestAssumption
    <3>4. /\ request'.attempt = request.attempt + 1
          /\ request'.waited = request.waited
                               + Delay(failure, s, request.attempt)
          /\ request' = [attempt |-> request'.attempt,
                         waited |-> request'.waited]
      BY <1>3, <2>2
    <3>5. request'.attempt \in 0..4 /\ request'.waited \in Nat
      BY <3>1, <3>2, <3>3, <3>4
    <3>6. request' \in [attempt : 0..4, waited : Nat]  BY <3>4, <3>5
    <3>7. request'.waited <= 60 * request'.attempt  BY <3>1, <3>2, <3>3, <3>4
    <3>. QED BY <3>6, <3>7 DEF RequestTypeOK
  <2>. QED BY <2>1, <2>2
<1>8. EditsAreApart'  BY <1>1 DEF EditsAreApart
<1>9. UnseenLiesAhead'
  <2>. SUFFICES ASSUME phase' # "aborted", NEW q \in Pages,
                       steady[q], scope[q] = "current", q \notin seen
                PROVE  Ahead(q)'
    BY <1>1 DEF UnseenLiesAhead
  <2>1. phase' = phase /\ phase # "aborted"  BY <1>4
  <2>2. Ahead(q)  BY <2>1 DEF UnseenLiesAhead
  <2>. QED BY <1>1, <2>1, <2>2 DEF Ahead, WalkIsOn, Position
<1>10. SweepFollowsScope'  BY <1>1 DEF SweepFollowsScope
<1>11. SweepEndsWhole'  BY <1>1, <1>2, <1>4 DEF SweepEndsWhole
<1>. QED BY <1>6, <1>7, <1>8, <1>9, <1>10, <1>11

-----------------------------------------------------------------------------
(* A listing request: what it serves is observed, and what it leaves lies  *)
(* past the cursor it returns.                                             *)
LEMMA ListingKeepsPass ==
  ASSUME PassInv, NEW link \in {"body", "header"}, ListDocuments(link)
  PROVE  PassInv'
<1>. USE DEF PassInv
<1>. DEFINE more == Len(ListingOrder) > PageSize
<1>1. /\ phase = "list"
      /\ seen' = seen \union ToSet(ServedPage)
      /\ todo' = ServedPage
      /\ cursor' = IF ServedPage = <<>> THEN 0
                   ELSE FindNextCursor(Position(Last(ServedPage)), more, link)
      /\ phase' = IF ServedPage = <<>> THEN "check" ELSE "fetch"
      /\ request' = FirstTry
      /\ UNCHANGED <<provider, stale, clock, edited, scope, steady, gone,
                     deleted>>
  BY DEF ListDocuments, ServedPage, ListingOrder, given, remote, sweep
<1>2. /\ ServedPage \in Seq(Listed)
      /\ ServedPage = <<>> => Listed = {}
      /\ ServedPage # <<>> => Last(ServedPage) \in Listed
      /\ \A p \in Listed :
             p \in ToSet(ServedPage)
             \/ /\ more
                /\ ServedPage # <<>>
                /\ Position(p) > Position(Last(ServedPage))
  BY ServedPageIsAPrefix
<1>3. Listed \subseteq Pages /\ \A p \in Listed : scope[p] = "current"
  BY DEF Listed
<1>4. ToSet(ServedPage) \subseteq Listed
  BY <1>2, LenProperties, ElementOfSeq DEF ToSet
<1>5. ServedPage \in Seq(Pages)  BY <1>2, <1>3, SeqMonotonic
<1>6. /\ cursor' \in 0..Horizon
      /\ ServedPage # <<>> /\ more =>
             cursor' = Position(Last(ServedPage)) /\ cursor' # 0
  <2>1. \A p \in Pages : Position(p) \in 1..Horizon  BY PositionsAreApart
  <2>2. Horizon \in Nat
    BY FS_CardinalityType, IngestAssumption DEF Horizon, PassTypeOK
  <2>3. CASE ServedPage = <<>>  BY <1>1, <2>2, <2>3
  <2>4. CASE ServedPage # <<>>
    <3>1. Position(Last(ServedPage)) \in 1..Horizon  BY <1>2, <1>3, <2>1, <2>4
    <3>2. cursor' = IF more THEN Position(Last(ServedPage)) ELSE 0
      BY <1>1, <2>4 DEF FindNextCursor
    <3>. QED BY <2>2, <3>1, <3>2
  <2>. QED BY <2>3, <2>4
<1>7. Horizon' = Horizon  BY <1>1 DEF Horizon
<1>8. PassTypeOK'
  <2>1. seen' \subseteq Pages  BY <1>1, <1>3, <1>4 DEF PassTypeOK
  <2>2. phase' \in Phases  BY <1>1 DEF Phases
  <2>3. phase' \in Handling => todo' # <<>>  BY <1>1 DEF Handling
  <2>. QED BY <1>1, <1>5, <1>6, <1>7, <2>1, <2>2, <2>3 DEF PassTypeOK
<1>9. RequestTypeOK'  BY <1>1 DEF RequestTypeOK, FirstTry
<1>10. EditsAreApart'  BY <1>1 DEF EditsAreApart
<1>11. UnseenLiesAhead'
  <2>. SUFFICES ASSUME NEW q \in Pages,
                       steady[q], scope[q] = "current",
                       q \notin seen, q \notin ToSet(ServedPage)
                PROVE  Ahead(q)'
    BY <1>1 DEF UnseenLiesAhead
  <2>1. Ahead(q)  BY <1>1 DEF UnseenLiesAhead
  <2>2. q \in Listed  BY <2>1 DEF Ahead, Listed
  <2>3. more /\ ServedPage # <<>> /\ Position(q) > Position(Last(ServedPage))
    BY <1>2, <2>2
  <2>4. phase' = "fetch" /\ cursor' # 0 /\ Position(q) > cursor'
    BY <1>1, <1>6, <2>3
  <2>5. Position(q)' = Position(q)  BY <1>1 DEF Position
  <2>. QED BY <2>4, <2>5 DEF Ahead, WalkIsOn, Handling
<1>12. SweepFollowsScope'  BY <1>1, <1>3, <1>4 DEF SweepFollowsScope
<1>13. SweepEndsWhole'  BY <1>1 DEF SweepEndsWhole
<1>. QED BY <1>8, <1>9, <1>10, <1>11, <1>12, <1>13

-----------------------------------------------------------------------------
(* The document in hand.                                                   *)

(* A step that works on the document in hand.                              *)
WorksOnDocument ==
    /\ phase \in Handling /\ phase' \in Handling
    /\ request' \in {request, FirstTry}
    /\ UNCHANGED <<provider, stale, clock, edited, scope, steady, cursor, todo,
                   seen, gone, deleted>>

LEMMA WorkKeepsPass ==
  ASSUME PassInv, WorksOnDocument
  PROVE  PassInv'
<1>. USE DEF PassInv
<1>1. /\ phase \in Handling /\ phase' \in Handling
      /\ request' \in {request, FirstTry}
      /\ UNCHANGED <<provider, stale, clock, edited, scope, steady, cursor,
                     todo, seen, gone, deleted>>
  BY DEF WorksOnDocument
<1>2. Horizon' = Horizon  BY <1>1 DEF Horizon
<1>3. PassTypeOK'  BY <1>1, <1>2 DEF PassTypeOK, Handling, Phases
<1>4. RequestTypeOK'  BY <1>1 DEF RequestTypeOK, FirstTry
<1>5. EditsAreApart'  BY <1>1 DEF EditsAreApart
<1>6. UnseenLiesAhead'
  <2>. SUFFICES ASSUME NEW q \in Pages,
                       steady[q], scope[q] = "current", q \notin seen
                PROVE  Ahead(q)'
    BY <1>1 DEF UnseenLiesAhead
  <2>1. Ahead(q)  BY <1>1 DEF UnseenLiesAhead, Handling
  <2>. QED BY <1>1, <2>1 DEF Ahead, WalkIsOn, Position, Handling
<1>7. SweepFollowsScope'  BY <1>1 DEF SweepFollowsScope
<1>8. SweepEndsWhole'  BY <1>1 DEF SweepEndsWhole, Handling
<1>. QED BY <1>3, <1>4, <1>5, <1>6, <1>7, <1>8

LEMMA FetchWorks == Fetch => WorksOnDocument
<1>. SUFFICES ASSUME NEW fetched, FetchDocument(fetched)
              PROVE  WorksOnDocument
  BY DEF Fetch
<1>. QED BY DEF FetchDocument, Fetching, WorksOnDocument, Handling,
               given, remote, walk, sweep

LEMMA ChunkWorks == ChunkDocument => WorksOnDocument
BY DEF ChunkDocument, WorksOnDocument, Handling, given, remote, walk, sweep

LEMMA EmbedWorks ==
  ASSUME NEW order, EmbedBatch(order)
  PROVE  WorksOnDocument
BY DEF EmbedBatch, WorksOnDocument, Handling, given, remote, walk, sweep

LEMMA AlignWorks == AlignRows => WorksOnDocument
BY DEF AlignRows, WorksOnDocument, Handling, given, remote, walk, sweep

(* A step that is done with the document in hand.                          *)
PutsDocumentAway ==
    /\ phase \in Handling
    /\ todo' = Tail(todo)
    /\ phase' = NextPhase(todo')
    /\ UNCHANGED <<provider, stale, clock, edited, scope, steady, cursor, seen,
                   gone, deleted, request>>

LEMMA PuttingAwayKeepsPass ==
  ASSUME PassInv, PutsDocumentAway
  PROVE  PassInv'
<1>. USE DEF PassInv
<1>1. /\ phase \in Handling
      /\ todo' = Tail(todo)
      /\ phase' = NextPhase(todo')
      /\ UNCHANGED <<provider, stale, clock, edited, scope, steady, cursor,
                     seen, gone, deleted, request>>
  BY DEF PutsDocumentAway
<1>2. todo' \in Seq(Pages)  BY <1>1, HeadTailProperties DEF PassTypeOK
<1>3. /\ phase' \in {"fetch", "list", "check"}
      /\ phase' = "fetch" => todo' # <<>>
      /\ phase' = "list" => cursor # 0
      /\ cursor # 0 => phase' \in {"fetch", "list"}
  BY <1>1 DEF NextPhase
<1>4. Horizon' = Horizon  BY <1>1 DEF Horizon
<1>5. PassTypeOK'  BY <1>1, <1>2, <1>3, <1>4 DEF PassTypeOK, Handling, Phases
<1>6. RequestTypeOK'  BY <1>1 DEF RequestTypeOK
<1>7. EditsAreApart'  BY <1>1 DEF EditsAreApart
<1>8. UnseenLiesAhead'
  <2>. SUFFICES ASSUME NEW q \in Pages,
                       steady[q], scope[q] = "current", q \notin seen
                PROVE  Ahead(q)'
    BY <1>1 DEF UnseenLiesAhead
  <2>1. Ahead(q)  BY <1>1 DEF UnseenLiesAhead, Handling
  <2>2. cursor # 0  BY <1>1, <2>1 DEF Ahead, WalkIsOn, Handling
  <2>. QED BY <1>1, <1>3, <2>1, <2>2 DEF Ahead, WalkIsOn, Position, Handling
<1>9. SweepFollowsScope'  BY <1>1 DEF SweepFollowsScope
<1>10. SweepEndsWhole'  BY <1>1, <1>3 DEF SweepEndsWhole, Handling
<1>. QED BY <1>5, <1>6, <1>7, <1>8, <1>9, <1>10

LEMMA SkipPutsAway == SkipDocument => PutsDocumentAway
BY DEF SkipDocument, PutsDocumentAway, Handling, given, remote, sweep

LEMMA StorePutsAway == StoreDocument => PutsDocumentAway
BY DEF StoreDocument, PutsDocumentAway, Handling, given, remote, sweep

(* Texts that cannot be embedded end the pass before anything is swept.    *)
LEMMA EmbeddingFailureKeepsPass ==
  ASSUME PassInv, FailEmbedding
  PROVE  PassInv'
<1>. USE DEF PassInv
<1>1. /\ phase = "embed" /\ phase' = "aborted"
      /\ UNCHANGED <<provider, stale, clock, edited, scope, steady, cursor,
                     todo, seen, gone, deleted, request>>
  BY DEF FailEmbedding, given, remote, walk, sweep
<1>2. Horizon' = Horizon  BY <1>1 DEF Horizon
<1>3. PassTypeOK'  BY <1>1, <1>2 DEF PassTypeOK, Handling, Phases
<1>4. RequestTypeOK'  BY <1>1 DEF RequestTypeOK
<1>5. EditsAreApart'  BY <1>1 DEF EditsAreApart
<1>6. UnseenLiesAhead'  BY <1>1 DEF UnseenLiesAhead
<1>7. SweepFollowsScope'  BY <1>1 DEF SweepFollowsScope
<1>8. SweepEndsWhole'  BY <1>1 DEF SweepEndsWhole
<1>. QED BY <1>3, <1>4, <1>5, <1>6, <1>7, <1>8

-----------------------------------------------------------------------------
(* The sweep.                                                              *)
LEMMA CheckKeepsPass ==
  ASSUME PassInv, NEW p \in Pages, CheckDocument(p)
  PROVE  PassInv'
<1>. USE DEF PassInv
<1>1. /\ phase = "check" /\ p \notin seen /\ p \notin gone
      /\ request' = FirstTry
      /\ UNCHANGED <<provider, stale, clock, edited, scope, steady, phase,
                     cursor, todo, deleted>>
  BY DEF CheckDocument, Unchecked, given, remote
<1>2. /\ scope[p] = "current" => seen' = seen \union {p} /\ gone' = gone
      /\ scope[p] # "current" => gone' = gone \union {p} /\ seen' = seen
  BY DEF CheckDocument, CheckDocumentExists
<1>3. Horizon' = Horizon  BY <1>1 DEF Horizon
<1>4. seen' \subseteq Pages /\ gone' \subseteq Pages  BY <1>2 DEF PassTypeOK
<1>5. PassTypeOK'  BY <1>1, <1>3, <1>4 DEF PassTypeOK
<1>6. RequestTypeOK'  BY <1>1 DEF RequestTypeOK, FirstTry
<1>7. EditsAreApart'  BY <1>1 DEF EditsAreApart
<1>8. UnseenLiesAhead'
  <2>. SUFFICES ASSUME NEW q \in Pages,
                       steady[q], scope[q] = "current", q \notin seen'
                PROVE  FALSE
    BY <1>1 DEF UnseenLiesAhead
  <2>1. Ahead(q)  BY <1>1, <1>2 DEF UnseenLiesAhead
  <2>. QED BY <1>1, <2>1 DEF Ahead, WalkIsOn, Handling
<1>9. SweepFollowsScope'  BY <1>1, <1>2 DEF SweepFollowsScope
<1>10. SweepEndsWhole'  BY <1>1 DEF SweepEndsWhole
<1>. QED BY <1>5, <1>6, <1>7, <1>8, <1>9, <1>10

LEMMA DeletionKeepsPass ==
  ASSUME PassInv, DeleteDocuments
  PROVE  PassInv'
<1>. USE DEF PassInv
<1>1. /\ phase = "check" /\ phase' = "done"
      /\ Pages \subseteq seen \union gone
      /\ deleted' = gone
      /\ UNCHANGED <<provider, stale, clock, edited, scope, steady, cursor,
                     todo, seen, gone, request>>
  BY DEF DeleteDocuments, Unchecked, given, remote, walk
<1>2. Horizon' = Horizon  BY <1>1 DEF Horizon
<1>3. PassTypeOK'  BY <1>1, <1>2 DEF PassTypeOK, Handling, Phases
<1>4. RequestTypeOK'  BY <1>1 DEF RequestTypeOK
<1>5. EditsAreApart'  BY <1>1 DEF EditsAreApart
<1>6. UnseenLiesAhead'
  <2>. SUFFICES ASSUME NEW q \in Pages,
                       steady[q], scope[q] = "current", q \notin seen
                PROVE  FALSE
    BY <1>1 DEF UnseenLiesAhead
  <2>1. Ahead(q)  BY <1>1 DEF UnseenLiesAhead
  <2>. QED BY <1>1, <2>1 DEF Ahead, WalkIsOn, Handling
<1>7. SweepFollowsScope'  BY <1>1 DEF SweepFollowsScope
<1>8. SweepEndsWhole'  BY <1>1 DEF SweepEndsWhole, PassTypeOK
<1>. QED BY <1>3, <1>4, <1>5, <1>6, <1>7, <1>8

-----------------------------------------------------------------------------
(* Whatever happens, the invariant holds on.                               *)
LEMMA StepPass == PassInv /\ [Next]_vars => PassInv'
<1>. SUFFICES ASSUME PassInv, [Next]_vars PROVE PassInv'  OBVIOUS
<1>1. CASE UNCHANGED vars
  BY <1>1 DEF vars, PassInv, PassTypeOK, RequestTypeOK, EditsAreApart,
         UnseenLiesAhead, SweepFollowsScope, SweepEndsWhole, Ahead, WalkIsOn,
         Position, Horizon
<1>2. ASSUME NEW p \in Pages, EditPage(p) PROVE PassInv'
  BY <1>2, EditKeepsPass
<1>3. ASSUME NEW p \in Pages, NEW to \in Scopes, MovePage(p, to)
      PROVE  PassInv'
  BY <1>3, MoveKeepsPass
<1>4. ASSUME NEW failure \in Failures, NEW s \in RetryAfters,
             FailAttempt(failure, s)
      PROVE  PassInv'
  BY <1>4, FailureKeepsPass
<1>5. ASSUME NEW link \in {"body", "header"}, ListDocuments(link)
      PROVE  PassInv'
  BY <1>5, ListingKeepsPass
<1>6. CASE Fetch  BY <1>6, FetchWorks, WorkKeepsPass
<1>7. CASE SkipDocument  BY <1>7, SkipPutsAway, PuttingAwayKeepsPass
<1>8. CASE ChunkDocument  BY <1>8, ChunkWorks, WorkKeepsPass
<1>9. ASSUME NEW order \in Orders, EmbedBatch(order) PROVE PassInv'
  BY <1>9, EmbedWorks, WorkKeepsPass
<1>10. CASE FailEmbedding  BY <1>10, EmbeddingFailureKeepsPass
<1>11. CASE AlignRows  BY <1>11, AlignWorks, WorkKeepsPass
<1>12. CASE StoreDocument  BY <1>12, StorePutsAway, PuttingAwayKeepsPass
<1>13. ASSUME NEW p \in Pages, CheckDocument(p) PROVE PassInv'
  BY <1>13, CheckKeepsPass
<1>14. CASE DeleteDocuments  BY <1>14, DeletionKeepsPass
<1>. QED BY <1>1, <1>2, <1>3, <1>4, <1>5, <1>6, <1>7, <1>8, <1>9, <1>10,
            <1>11, <1>12, <1>13, <1>14 DEF Next

(* The invariant the theorems below are read off holds in every state.     *)
LEMMA PassInvHolds == Spec => []PassInv
<1>. QED BY InitPass, StepPass, PTL DEF Spec

(* The variables keep their types through every pass: the page in hand     *)
(* holds rows of the source, a request is tried five times at most and put *)
(* off by four minutes in all (fetchConnectorJson), and nothing is removed *)
(* that the sweep did not find gone.                                       *)
THEOREM IngestTypeCorrect == Spec => []IngestTypeOK
<1>1. PassInv => IngestTypeOK
  <2>. SUFFICES ASSUME PassInv PROVE IngestTypeOK  OBVIOUS
  <2>1. Horizon \in Nat
    BY FS_CardinalityType, IngestAssumption
       DEF Horizon, PassInv, PassTypeOK
  <2>2. edited \in [Pages -> Nat] /\ cursor \in Nat
    BY <2>1 DEF PassInv, PassTypeOK
  <2>3. ToSet(todo) \subseteq Pages
    <3>1. todo \in Seq(Pages)  BY DEF PassInv, PassTypeOK
    <3>. QED BY <3>1, LenProperties, ElementOfSeq DEF ToSet
  <2>4. request.attempt \in 0..4 /\ request.waited \in 0..4 * 60
    BY DEF PassInv, RequestTypeOK
  <2>5. deleted \subseteq gone  BY DEF PassInv, SweepEndsWhole
  <2>. QED BY <2>2, <2>3, <2>4, <2>5 DEF PassInv, PassTypeOK, IngestTypeOK
<1>. QED BY <1>1, PassInvHolds, PTL

(* Once a walk is over, every page that stood in the source all along was  *)
(* listed (listDocuments of both connectors), however many pages there are *)
(* and a request returns, and whatever was edited or moved between two     *)
(* requests.                                                               *)
THEOREM WalkNeverMissesAPage == Spec => []WalkMissesNoPage
<1>1. PassInv => WalkMissesNoPage
  BY DEF PassInv, UnseenLiesAhead, Ahead, WalkIsOn, Handling,
         WalkMissesNoPage
<1>. QED BY <1>1, PassInvHolds, PTL

(* A completed pass removes the rows of exactly the pages that were out of *)
(* scope, as far as they stayed where they were, and an aborted one none   *)
(* (checkDocumentExists and the sweep at the end of a pass).               *)
THEOREM SweepIsAlwaysExact == Spec => []SweepIsExact
<1>1. PassInv => SweepIsExact
  BY DEF PassInv, PassTypeOK, SweepFollowsScope, SweepEndsWhole,
         SweepIsExact
<1>. QED BY <1>1, PassInvHolds, PTL

-----------------------------------------------------------------------------
(* Induction.  A theorem that takes an operator cannot be instantiated     *)
(* here, one that takes a set can.                                         *)
Less == {e \in Nat \X Nat : e[1] < e[2]}

(* The order of the numbers, for the induction below.                      *)
LEMMA LessIsWellFounded == IsWellFoundedOn(Less, Nat)
<1>1. OpToRel(<, Nat) = Less  BY DEF OpToRel, Less
<1>. QED BY <1>1, NatLessThanWellFounded

(* A set that holds 0, and with a number the next one, holds every number. *)
LEMMA SetInduction ==
  ASSUME NEW S, 0 \in S, \A n \in Nat : n \in S => n + 1 \in S
  PROVE  \A n \in Nat : n \in S
<1>. DEFINE T == Nat \ S
<1>. SUFFICES ASSUME T # {} PROVE FALSE  OBVIOUS
<1>1. PICK n \in T : \A m \in T : <<m, n>> \notin Less
  BY WFMin, LessIsWellFounded
<1>2. n \in Nat /\ n # 0  OBVIOUS
<1>3. n - 1 \in Nat  BY <1>2
<1>4. <<n - 1, n>> \in Less  BY <1>2, <1>3 DEF Less
<1>5. n - 1 \in S  BY <1>1, <1>3, <1>4
<1>6. n - 1 + 1 = n  BY <1>2
<1>7. n - 1 + 1 \in S  BY <1>3, <1>5
<1>. QED BY <1>2, <1>6, <1>7

(* The same up to a bound.                                                 *)
LEMMA BoundedInduction ==
  ASSUME NEW m \in Nat, NEW S, 0 \in S,
         \A k \in 1..m : k - 1 \in S => k \in S
  PROVE  \A k \in 0..m : k \in S
<1>. DEFINE T == S \union {k \in Nat : k > m}
<1>1. 0 \in T  OBVIOUS
<1>2. ASSUME NEW n \in Nat, n \in T PROVE n + 1 \in T
  <2>1. CASE n + 1 \in 1..m
    <3>1. n \in S  BY <1>2, <2>1
    <3>2. n + 1 - 1 \in S  BY <3>1
    <3>. QED BY <2>1, <3>2
  <2>2. CASE n + 1 \notin 1..m  BY <2>2
  <2>. QED BY <2>1, <2>2
<1>. HIDE DEF T
<1>3. \A n \in Nat : n \in T  BY <1>1, <1>2, SetInduction
<1>. QED BY <1>3 DEF T

(* A set of numbers up to a bound has a greatest.                          *)
LEMMA GreatestUpTo ==
  ASSUME NEW m \in Nat, NEW S \in SUBSET (0..m), S # {}
  PROVE  /\ Max(S) \in S
         /\ \A x \in S : x <= Max(S)
<1>. DEFINE T == {m - x : x \in S}
<1>1. \A x \in S : x \in Nat /\ m - x \in Nat  OBVIOUS
<1>2. T \in SUBSET Nat /\ T # {}  BY <1>1
<1>3. PICK t \in T : \A u \in T : <<u, t>> \notin Less
  BY <1>2, WFMin, LessIsWellFounded
<1>4. PICK g \in S : t = m - g  OBVIOUS
<1>5. ASSUME NEW x \in S PROVE g >= x
  <2>1. m - x \in T  OBVIOUS
  <2>2. ~(m - x < t)  BY <1>2, <1>3, <2>1 DEF Less
  <2>. QED BY <1>4, <2>2
<1>6. \E z \in S : \A x \in S : z >= x  BY <1>5
<1>7. Max(S) \in S /\ \A x \in S : Max(S) >= x  BY <1>6 DEF Max
<1>. QED BY <1>7

-----------------------------------------------------------------------------
(* Folds.  A fold of the library is a function on sets of indices; what    *)
(* it does on the first k of them is what the loop has done after k turns. *)
FoldOf(h, A, B, F, base, n, seq) ==
    /\ h \in [SUBSET (1..n) -> A]
    /\ \A s \in SUBSET (1..n) :
           IF s = {} THEN h[s] = base
           ELSE /\ h[s \ {Max(s)}] \in A
                /\ seq[Max(s)] \in B
                /\ h[s] = F[<<h[s \ {Max(s)}], seq[Max(s)]>>]

(* The greatest of an interval is its end.                                 *)
LEMMA GreatestIndex ==
  ASSUME NEW n \in Nat, NEW s \in SUBSET (1..n), s # {}
  PROVE  Max(s) \in 1..n
BY s \in SUBSET (0..n), GreatestUpTo

(* A fold over the indices of a sequence exists: the equation that its     *)
(* definition solves with CHOOSE has a solution, whatever is folded.       *)
LEMMA FoldExists ==
  ASSUME NEW A, NEW B, NEW F \in [A \X B -> A], NEW base \in A,
         NEW n \in Nat, NEW seq \in [1..n -> B]
  PROVE  \E h : FoldOf(h, A, B, F, base, n, seq)
<1>. DEFINE Solves(h, k) ==
                /\ h \in [SUBSET (1..k) -> A]
                /\ \A s \in SUBSET (1..k) :
                       h[s] = IF s = {} THEN base
                              ELSE F[<<h[s \ {Max(s)}], seq[Max(s)]>>]
            P == {k \in 0..n : \E h : Solves(h, k)}
<1>1. 0 \in P
  <2>. DEFINE h == [s \in SUBSET (1..0) |-> base]
  <2>1. \A s \in SUBSET (1..0) : s = {}  OBVIOUS
  <2>2. Solves(h, 0)  BY <2>1
  <2>. HIDE DEF Solves
  <2>3. \E hh : Solves(hh, 0)  BY <2>2
  <2>. QED BY <2>3
<1>2. ASSUME NEW k \in 1..n, k - 1 \in P PROVE k \in P
  <2>1. PICK g : Solves(g, k - 1)  BY <1>2
  <2>. DEFINE h == [s \in SUBSET (1..k) |->
                       IF k \in s THEN F[<<g[s \ {k}], seq[k]>>] ELSE g[s]]
  <2>2. ASSUME NEW s \in SUBSET (1..k), k \in s
        PROVE  /\ Max(s) = k
               /\ s \ {k} \in SUBSET (1..(k - 1))
    <3>1. k \in Nat /\ s \in SUBSET (0..k) /\ s # {}  BY <2>2
    <3>2. Max(s) \in s /\ k <= Max(s)  BY <2>2, <3>1, GreatestUpTo
    <3>3. Max(s) \in 1..k  BY <3>2
    <3>4. Max(s) = k  BY <3>2, <3>3
    <3>. QED BY <3>4
  <2>3. ASSUME NEW s \in SUBSET (1..k), k \notin s
        PROVE  s \in SUBSET (1..(k - 1))
    BY <2>3
  <2>4. h \in [SUBSET (1..k) -> A]
    <3>. SUFFICES ASSUME NEW s \in SUBSET (1..k) PROVE h[s] \in A  OBVIOUS
    <3>1. CASE k \in s
      <4>1. g[s \ {k}] \in A  BY <2>1, <2>2, <3>1
      <4>2. <<g[s \ {k}], seq[k]>> \in A \X B  BY <4>1
      <4>. QED BY <3>1, <4>2
    <3>2. CASE k \notin s  BY <2>1, <2>3, <3>2
    <3>. QED BY <3>1, <3>2
  <2>5. ASSUME NEW s \in SUBSET (1..k)
        PROVE  h[s] = IF s = {} THEN base
                      ELSE F[<<h[s \ {Max(s)}], seq[Max(s)]>>]
    <3>1. CASE k \in s
      <4>1. h[s \ {k}] = g[s \ {k}]  BY <2>2, <3>1
      <4>. QED BY <2>2, <3>1, <4>1
    <3>2. CASE k \notin s
      <4>1. s \in SUBSET (1..(k - 1))  BY <2>3, <3>2
      <4>2. s \ {Max(s)} \in SUBSET (1..(k - 1))  BY <4>1
      <4>3. k \notin s \ {Max(s)} /\ s \ {Max(s)} \in SUBSET (1..k)  BY <3>2
      <4>4. h[s] = g[s] /\ h[s \ {Max(s)}] = g[s \ {Max(s)}]  BY <3>2, <4>3
      <4>. QED BY <2>1, <4>1, <4>4
    <3>. QED BY <3>1, <3>2
  <2>. HIDE DEF h
  <2>6. Solves(h, k)  BY <2>4, <2>5
  <2>. HIDE DEF Solves
  <2>7. \E hh : Solves(hh, k)  BY <2>6
  <2>. QED BY <2>7
<1>. HIDE DEF P
<1>. HIDE DEF Solves
<1>3. \A k \in 0..n : k \in P  BY <1>1, <1>2, BoundedInduction
<1>4. n \in P  BY <1>3
<1>5. PICK h : Solves(h, n)  BY <1>4 DEF P
<1>6. FoldOf(h, A, B, F, base, n, seq)
  <2>. SUFFICES ASSUME NEW s \in SUBSET (1..n), s # {}
                PROVE  h[s \ {Max(s)}] \in A /\ seq[Max(s)] \in B
    BY <1>5 DEF Solves, FoldOf
  <2>1. Max(s) \in 1..n  BY GreatestIndex
  <2>. QED BY <1>5, <2>1 DEF Solves
<1>. QED BY <1>6

(* The first k indices, of which k is the last.                            *)
LEMMA FirstIndices ==
  ASSUME NEW k \in Nat, k # 0
  PROVE  /\ 1..k # {}
         /\ Max(1..k) = k
         /\ (1..k) \ {Max(1..k)} = 1..(k - 1)
<1>1. 1..k \in SUBSET (0..k)  OBVIOUS
<1>2. k \in 1..k  OBVIOUS
<1>3. 1..k # {}  BY <1>2
<1>4. Max(1..k) \in 1..k /\ \A x \in 1..k : x <= Max(1..k)
  BY <1>1, <1>3, GreatestUpTo
<1>5. Max(1..k) = k  BY <1>2, <1>4
<1>6. (1..k) \ {k} = 1..(k - 1)  OBVIOUS
<1>. QED BY <1>3, <1>5, <1>6

(* What holds of the start of a fold and survives a turn holds after each. *)
LEMMA FoldStays ==
  ASSUME NEW A, NEW n \in Nat, NEW it, it[{}] \in A,
         \A k \in 1..n : it[1..(k - 1)] \in A => it[1..k] \in A
  PROVE  \A k \in 0..n : it[1..k] \in A
<1>. DEFINE P == {k \in 0..n : it[1..k] \in A}
<1>1. 1..0 = {}  OBVIOUS
<1>2. 0 \in P  BY <1>1
<1>3. \A k \in 1..n : k - 1 \in P => k \in P  OBVIOUS
<1>. HIDE DEF P
<1>4. \A k \in 0..n : k \in P  BY <1>2, <1>3, BoundedInduction
<1>. QED BY <1>4 DEF P

(* The sum of a sequence, turn by turn.                                    *)
TotalRun(g, seq) ==
    /\ g \in [0..Len(seq) -> Int]
    /\ g[0] = 0
    /\ \A k \in 1..Len(seq) : g[k] = g[k - 1] + seq[k]
    /\ Total(seq) = g[Len(seq)]

(* A sum of a sequence of numbers, turn by turn.                           *)
LEMMA TotalRuns ==
  ASSUME NEW seq \in Seq(Int)
  PROVE  \E g : TotalRun(g, seq)
<1>. DEFINE A == Int
            B == Int
            n == Len(seq)
            F == [p \in A \X B |-> p[1] + p[2]]
            Solves(it) == it = [s \in SUBSET DOMAIN seq |->
                                   IF s = {} THEN 0
                                   ELSE it[s \ {Max(s)}] + seq[Max(s)]]
<1>1. n \in Nat /\ seq \in [1..n -> B] /\ DOMAIN seq = 1..n  BY LenProperties
<1>2. Total(seq) = (CHOOSE it : Solves(it))[DOMAIN seq]
  BY DEF Total, FoldLeft, MapThenFoldSet
<1>3. 0 \in A  OBVIOUS
<1>4. ASSUME NEW a \in A, NEW b \in B PROVE a + b \in A  OBVIOUS
<1>. HIDE DEF n, A, B
<1>5. /\ F \in [A \X B -> A]
      /\ \A a \in A, b \in B : F[<<a, b>>] = a + b
  BY <1>4
<1>. HIDE DEF F
<1>6. PICK h : FoldOf(h, A, B, F, 0, n, seq)
  <2>. HIDE DEF Solves
  <2>1. \A G \in [A \X B -> A], a \in A, k \in Nat :
            \A s \in [1..k -> B] : \E h : FoldOf(h, A, B, G, a, k, s)
    BY FoldExists, Zenon
  <2>. QED BY <1>1, <1>3, <1>5, <2>1
<1>7. Solves(h)  BY <1>1, <1>5, <1>6 DEF FoldOf
<1>. HIDE DEF Solves
<1>8. PICK it : Solves(it) /\ Total(seq) = it[1..n]  BY <1>1, <1>2, <1>7
<1>9. it[{}] = 0  BY <1>1, <1>8 DEF Solves
<1>10. ASSUME NEW k \in 1..n
       PROVE  it[1..k] = it[1..(k - 1)] + seq[k]
  <2>1. k \in Nat /\ k # 0 /\ 1..k \in SUBSET (1..n)  BY <1>1
  <2>2. /\ 1..k # {}
        /\ Max(1..k) = k /\ (1..k) \ {Max(1..k)} = 1..(k - 1)
    BY <2>1, FirstIndices
  <2>. QED BY <1>1, <1>8, <2>1, <2>2 DEF Solves
<1>11. ASSUME NEW k \in 1..n, it[1..(k - 1)] \in A PROVE it[1..k] \in A
  <2>1. seq[k] \in B  BY <1>1
  <2>. QED BY <1>4, <1>10, <1>11, <2>1
<1>12. \A k \in 0..n : it[1..k] \in A  BY <1>1, <1>3, <1>9, <1>11, FoldStays
<1>. DEFINE g == [k \in 0..n |-> it[1..k]]
<1>13. g \in [0..n -> A] /\ g[0] = 0  BY <1>1, <1>9, <1>12
<1>14. \A k \in 1..n : g[k] = g[k - 1] + seq[k]  BY <1>1, <1>10
<1>15. Total(seq) = g[n]  BY <1>1, <1>8
<1>. HIDE DEF g
<1>16. TotalRun(g, seq)  BY <1>13, <1>14, <1>15 DEF A, n, TotalRun
<1>. QED BY <1>16

(* So a sum is a number.                                                   *)
LEMMA TotalOf ==
  ASSUME NEW seq \in Seq(Int)
  PROVE  /\ Total(seq) \in Int
         /\ Len(seq) = 1 => Total(seq) = seq[1]
<1>1. PICK g : TotalRun(g, seq)  BY TotalRuns
<1>2. Len(seq) \in Nat /\ Len(seq) \in 0..Len(seq)  BY LenProperties
<1>3. ASSUME Len(seq) = 1 PROVE Total(seq) = seq[1]
  <2>1. seq[1] \in Int  BY <1>3, ElementOfSeq
  <2>2. g[1] = g[1 - 1] + seq[1]  BY <1>1, <1>3 DEF TotalRun
  <2>. QED BY <1>1, <1>3, <2>1, <2>2 DEF TotalRun
<1>. QED BY <1>1, <1>2, <1>3 DEF TotalRun

(* A function on the first numbers is a sequence, of their number.         *)
LEMMA IsSequence ==
  ASSUME NEW S, NEW n \in Int, NEW f \in [1..n -> S]
  PROVE  f \in Seq(S) /\ Len(f) = (IF n \in Nat THEN n ELSE 0)
<1>1. CASE n \in Nat  BY <1>1, IsASeq
<1>2. CASE n \notin Nat
  <2>1. 1..n = 1..0  BY <1>2
  <2>2. f \in [1..0 -> S] /\ 0 \in Nat  BY <2>1
  <2>3. f \in Seq(S) /\ Len(f) = 0  BY <2>2, IsASeq
  <2>. QED BY <1>2, <2>3
<1>. QED BY <1>1, <1>2

(* A piece of a sequence has elements of the same kind.                    *)
LEMMA SubSeqIsSequence ==
  ASSUME NEW S, NEW s \in Seq(S), NEW m \in Nat \ {0}, NEW n \in Int,
         n <= Len(s)
  PROVE  /\ SubSeq(s, m, n) \in Seq(S)
         /\ Len(SubSeq(s, m, n)) = IF m <= n THEN n - m + 1 ELSE 0
<1>. DEFINE f == [i \in 1..(n - m + 1) |-> s[m + i - 1]]
<1>1. SubSeq(s, m, n) = f  OBVIOUS
<1>2. Len(s) \in Nat /\ \A i \in 1..Len(s) : s[i] \in S
  BY LenProperties, ElementOfSeq
<1>3. \A i \in 1..(n - m + 1) : m + i - 1 \in 1..Len(s)  BY <1>2
<1>4. f \in [1..(n - m + 1) -> S]  BY <1>2, <1>3
<1>5. n - m + 1 \in Int  OBVIOUS
<1>. HIDE DEF f
<1>6. /\ f \in Seq(S)
      /\ Len(f) = IF n - m + 1 \in Nat THEN n - m + 1 ELSE 0
  BY <1>4, <1>5, IsSequence
<1>. QED BY <1>1, <1>6

(* A chain, part by part.                                                  *)
FlattenRun(g, seqs, S) ==
    /\ g \in [0..Len(seqs) -> Seq(S)]
    /\ g[0] = <<>>
    /\ \A k \in 1..Len(seqs) : g[k] = g[k - 1] \o seqs[k]
    /\ FlattenSeq(seqs) = g[Len(seqs)]

(* Such a run exists, and its states are the chains of the first parts.    *)
LEMMA FlattenRuns ==
  ASSUME NEW S, NEW seqs \in Seq(Seq(S))
  PROVE  \E g : FlattenRun(g, seqs, S)
<1>. DEFINE n == Len(seqs)
            Solves(f) == f = [i \in 1..n |-> IF i = 1 THEN seqs[i]
                                             ELSE f[i - 1] \o seqs[i]]
            Part(f, m) ==
                /\ f \in [0..m -> Seq(S)]
                /\ f[0] = <<>>
                /\ \A i \in 1..m : f[i] = f[i - 1] \o seqs[i]
            P == {m \in 0..n : \E f : Part(f, m)}
<1>1. n \in Nat /\ \A i \in 1..n : seqs[i] \in Seq(S)
  BY LenProperties, ElementOfSeq
<1>2. 0 \in P
  <2>1. Part([i \in 0..0 |-> <<>>], 0)
    <3>1. 0 \in 0..0 /\ 1..0 = {}  OBVIOUS
    <3>. QED BY <3>1
  <2>. HIDE DEF Part
  <2>. QED BY <1>1, <2>1
<1>3. ASSUME NEW m \in 1..n, m - 1 \in P PROVE m \in P
  <2>1. PICK g : Part(g, m - 1)  BY <1>3
  <2>. DEFINE f == [i \in 0..m |-> IF i = m THEN g[m - 1] \o seqs[m]
                                   ELSE g[i]]
  <2>2. \A i \in 0..m : i # m => i \in 0..(m - 1)  BY <1>1
  <2>3. m - 1 \in 0..(m - 1) /\ m # 0  BY <1>1
  <2>4. g[m - 1] \o seqs[m] \in Seq(S)  BY <1>1, <2>1, <2>3, ConcatProperties
  <2>5. f \in [0..m -> Seq(S)] /\ f[0] = <<>>
    <3>1. 0 \in 0..m /\ 0 # m  BY <1>1
    <3>. QED BY <2>1, <2>2, <2>4, <3>1
  <2>6. ASSUME NEW i \in 1..m PROVE f[i] = f[i - 1] \o seqs[i]
    <3>1. i - 1 \in 0..m /\ i - 1 # m /\ i \in 0..m  BY <1>1
    <3>2. f[i - 1] = g[i - 1]  BY <3>1
    <3>3. i # m => i \in 1..(m - 1)  BY <1>1
    <3>. QED BY <2>1, <3>1, <3>2, <3>3
  <2>. HIDE DEF f
  <2>7. Part(f, m)  BY <2>5, <2>6
  <2>. HIDE DEF Part
  <2>. QED BY <2>7
<1>. HIDE DEF P
<1>4. \A m \in 0..n : m \in P  BY <1>1, <1>2, <1>3, BoundedInduction
<1>5. PICK g : Part(g, n)
  <2>. HIDE DEF Part
  <2>. QED BY <1>1, <1>4 DEF P
<1>6. FlattenSeq(seqs) = g[n]
  <2>1. CASE n = 0
    <3>1. FlattenSeq(seqs) = seqs  BY <2>1 DEF FlattenSeq
    <3>2. seqs = <<>>  BY <2>1, EmptySeq, LenProperties
    <3>. QED BY <1>5, <2>1, <3>1, <3>2
  <2>2. CASE n # 0
    <3>1. FlattenSeq(seqs) = (CHOOSE f : Solves(f))[n]  BY <2>2 DEF FlattenSeq
    <3>. DEFINE h == [i \in 1..n |-> g[i]]
    <3>2. Solves(h)
      <4>1. ASSUME NEW i \in 1..n
            PROVE  h[i] = IF i = 1 THEN seqs[i] ELSE h[i - 1] \o seqs[i]
        <5>1. g[i] = g[i - 1] \o seqs[i]  BY <1>5
        <5>2. CASE i = 1
          <6>1. i - 1 = 0  BY <5>2
          <6>2. g[i - 1] = <<>>  BY <1>5, <6>1
          <6>3. <<>> \o seqs[i] = seqs[i]  BY <1>1, ConcatEmptySeq
          <6>. QED BY <5>1, <5>2, <6>2, <6>3
        <5>3. CASE i # 1
          <6>1. i - 1 \in 1..n  BY <1>1, <5>3
          <6>. QED BY <5>1, <5>3, <6>1
        <5>. QED BY <5>2, <5>3
      <4>. QED BY <4>1
    <3>. HIDE DEF h, Solves
    <3>3. PICK c : c = CHOOSE f : Solves(f)  OBVIOUS
    <3>4. Solves(c)  BY <3>2, <3>3
    <3>. DEFINE T == {m \in 0..n : m = 0 \/ c[m] = g[m]}
    <3>5. 0 \in T  BY <1>1
    <3>6. ASSUME NEW m \in 1..n, m - 1 \in T PROVE m \in T
      <4>1. g[m] = g[m - 1] \o seqs[m]  BY <1>5
      <4>2. c[m] = IF m = 1 THEN seqs[m] ELSE c[m - 1] \o seqs[m]
        BY <3>4 DEF Solves
      <4>3. CASE m = 1
        <5>1. m - 1 = 0 /\ m \in 0..n  BY <1>1, <4>3
        <5>2. g[m - 1] = <<>>  BY <1>5, <5>1
        <5>3. <<>> \o seqs[m] = seqs[m]  BY <1>1, ConcatEmptySeq
        <5>. QED BY <4>1, <4>2, <4>3, <5>1, <5>2, <5>3
      <4>4. CASE m # 1
        <5>1. m - 1 # 0  BY <4>4
        <5>2. c[m - 1] = g[m - 1]  BY <3>6, <5>1
        <5>3. m \in 0..n  BY <1>1
        <5>. QED BY <4>1, <4>2, <4>4, <5>2, <5>3
      <4>. QED BY <4>3, <4>4
    <3>. HIDE DEF T
    <3>7. \A m \in 0..n : m \in T  BY <1>1, <3>5, <3>6, BoundedInduction
    <3>. QED BY <1>1, <2>2, <3>1, <3>3, <3>7 DEF T
  <2>. QED BY <2>1, <2>2
<1>7. FlattenRun(g, seqs, S)  BY <1>5, <1>6 DEF FlattenRun
<1>. QED BY <1>7

(* Chained sequences have the elements of their parts.                     *)
LEMMA FlattenIsSequence ==
  ASSUME NEW S, NEW seqs \in Seq(Seq(S))
  PROVE  FlattenSeq(seqs) \in Seq(S)
<1>1. PICK n \in Nat : n = Len(seqs)  BY LenProperties
<1>2. n \in 0..n  OBVIOUS
<1>3. PICK g : FlattenRun(g, seqs, S)  BY FlattenRuns
<1>. QED BY <1>1, <1>2, <1>3 DEF FlattenRun

-----------------------------------------------------------------------------
(* The types of what the chunking makes.                                   *)
Tok == Int \X Int

(* A text is a sequence of tokens.                                         *)
Text == Seq(Tok)

(* Lines that were joined, with the number of them.                        *)
Piece == [text : Text, lines : Int]

(* A part of a text that is under the ceiling.                             *)
Cuts(text, S, m) ==
    {t \in Seq(S) :
        /\ Len(t) <= m
        /\ \E x \in Nat : \A i \in 1..Len(t) : /\ x + i \in 1..Len(text)
                                             /\ t[i] = text[x + i]}

(* A text cut at the ceiling is such parts of it.                          *)
LEMMA SplitFits ==
  ASSUME NEW S, NEW text \in Seq(S), NEW m \in Nat \ {0}
  PROVE  SplitText(text, m) \in Seq(Cuts(text, S, m))
<1>. DEFINE count == (Len(text) + m - 1) \div m
            Lower(a, b) == IF a < b THEN a ELSE b
            piece(k) == SubSeq(text, (k - 1) * m + 1, Lower(k * m, Len(text)))
            Short == Cuts(text, S, m)
<1>1. Len(text) \in Nat  BY LenProperties
<1>2. Len(text) + m - 1 \in Nat  BY <1>1
<1>3. count \in Int  BY <1>2
<1>. HIDE DEF count
<1>4. ASSUME NEW k \in 1..count PROVE piece(k) \in Short
  <2>1. k \in Nat /\ k - 1 \in Nat  BY <1>3
  <2>2. PICK x \in Nat : x = (k - 1) * m  BY <2>1
  <2>3. k * m = x + m  BY <2>1, <2>2
  <2>4. PICK y \in Int : y = Lower(k * m, Len(text))  BY <1>1, <2>3
  <2>5. y <= Len(text) /\ y <= x + m  BY <1>1, <2>3, <2>4
  <2>6. piece(k) = SubSeq(text, x + 1, y)  BY <2>2, <2>4
  <2>7. /\ SubSeq(text, x + 1, y) \in Seq(S)
        /\ Len(SubSeq(text, x + 1, y))
               = IF x + 1 <= y THEN y - (x + 1) + 1 ELSE 0
    <3>1. x + 1 \in Nat \ {0}  OBVIOUS
    <3>. QED BY <2>5, <3>1, SubSeqIsSequence
  <2>8. Len(SubSeq(text, x + 1, y)) <= m  BY <2>5, <2>7
  <2>9. ASSUME NEW i \in 1..Len(SubSeq(text, x + 1, y))
        PROVE  /\ x + i \in 1..Len(text)
               /\ SubSeq(text, x + 1, y)[i] = text[x + i]
    <3>1. i \in 1..(y - x) /\ i \in 1..(y - (x + 1) + 1)  BY <2>5, <2>7
    <3>2. SubSeq(text, x + 1, y)[i] = text[x + 1 + i - 1]  BY <3>1
    <3>3. x + 1 + i - 1 = x + i  BY <3>1
    <3>4. x + i \in 1..Len(text)  BY <1>1, <2>5, <3>1
    <3>. QED BY <3>2, <3>3, <3>4
  <2>. HIDE DEF piece
  <2>. QED BY <2>6, <2>7, <2>8, <2>9 DEF Cuts
<1>5. SplitText(text, m) = [k \in 1..count |-> piece(k)]
  BY DEF SplitText, count
<1>. HIDE DEF piece, Short
<1>6. [k \in 1..count |-> piece(k)] \in [1..count -> Short]  BY <1>4
<1>7. [k \in 1..count |-> piece(k)] \in Seq(Short)  BY <1>3, <1>6, IsSequence
<1>. QED BY <1>5, <1>7 DEF Short

(* Lines below a header row are lines.                                     *)
LEMMA UnderHeaderIsPiece ==
  ASSUME NEW header \in Text, NEW piece \in Piece
  PROVE  UnderHeader(header, piece) \in Piece
<1>1. header \o piece.text \in Text  BY ConcatProperties DEF Piece, Text
<1>. QED BY <1>1 DEF UnderHeader, Piece

(* A turn of packSourceUnits makes lines of lines.                         *)
LEMMA PackUnitStays ==
  ASSUME NEW acc \in [pieces : Seq(Piece), pending : Piece],
         NEW unit \in Text, NEW header \in Text, NEW maxTokens
  PROVE  PackUnit(acc, unit, header, maxTokens)
             \in [pieces : Seq(Piece), pending : Piece]
<1>. DEFINE under == UnderHeader(header, acc.pending)
            more == Append(acc.pieces, under)
            grown == [text |-> acc.pending.text \o unit,
                      lines |-> acc.pending.lines + 1]
<1>1. under \in Piece  BY UnderHeaderIsPiece
<1>2. more \in Seq(Piece)  BY <1>1, AppendProperties
<1>3. acc.pending.text \o unit \in Text  BY ConcatProperties DEF Piece, Text
<1>4. grown \in Piece /\ Line(unit) \in Piece  BY <1>3 DEF Piece, Line
<1>5. PackUnit(acc, unit, header, maxTokens) \in
          {[pieces |-> more, pending |-> Line(unit)],
           [pieces |-> acc.pieces, pending |-> grown]}
  BY DEF PackUnit
<1>. HIDE DEF more, grown
<1>. QED BY <1>2, <1>4, <1>5

(* The loop of packSourceUnits over the units, turn by turn.               *)
PackUnitsRun(g, units, header, maxTokens) ==
    /\ g \in [0..Len(units) -> [pieces : Seq(Piece), pending : Piece]]
    /\ g[0] = [pieces |-> <<>>, pending |-> NoLines]
    /\ \A k \in 1..Len(units) :
           g[k] = PackUnit(g[k - 1], units[k], header, maxTokens)
    /\ PackUnits(units, header, maxTokens) = g[Len(units)]

(* The run exists: the fold is its last state.                             *)
LEMMA PackUnitsRuns ==
  ASSUME NEW units \in Seq(Text), NEW header \in Text, NEW maxTokens
  PROVE  \E g : PackUnitsRun(g, units, header, maxTokens)
<1>. DEFINE A == [pieces : Seq(Piece), pending : Piece]
            B == Text
            n == Len(units)
            F == [p \in A \X B |-> PackUnit(p[1], p[2], header, maxTokens)]
            Solves(it) == it = [s \in SUBSET DOMAIN units |->
                                   IF s = {}
                                   THEN [pieces |-> <<>>, pending |-> NoLines]
                                   ELSE PackUnit(it[s \ {Max(s)}], units[Max(s)],
                                                 header, maxTokens)]
<1>1. n \in Nat /\ units \in [1..n -> B] /\ DOMAIN units = 1..n
  BY LenProperties
<1>2. PackUnits(units, header, maxTokens)
          = (CHOOSE it : Solves(it))[DOMAIN units]
  BY DEF PackUnits, FoldLeft, MapThenFoldSet
<1>3. [pieces |-> <<>>, pending |-> NoLines] \in A  BY DEF Piece, Text, NoLines
<1>4. ASSUME NEW a \in A, NEW b \in B
      PROVE  PackUnit(a, b, header, maxTokens) \in A
  BY PackUnitStays
<1>. HIDE DEF n, A, B
<1>5. /\ F \in [A \X B -> A]
      /\ \A a \in A, b \in B : F[<<a, b>>] = PackUnit(a, b, header, maxTokens)
  BY <1>4
<1>. HIDE DEF F
<1>6. PICK h : FoldOf(h, A, B, F, [pieces |-> <<>>, pending |-> NoLines],
                      n, units)
  <2>. HIDE DEF Solves
  <2>1. \A G \in [A \X B -> A], a \in A, k \in Nat :
            \A s \in [1..k -> B] : \E h : FoldOf(h, A, B, G, a, k, s)
    BY FoldExists, Zenon
  <2>. QED BY <1>1, <1>3, <1>5, <2>1
<1>7. Solves(h)  BY <1>1, <1>5, <1>6 DEF FoldOf
<1>. HIDE DEF Solves
<1>8. PICK it : Solves(it) /\ PackUnits(units, header, maxTokens) = it[1..n]
  BY <1>1, <1>2, <1>7
<1>9. it[{}] = [pieces |-> <<>>, pending |-> NoLines]  BY <1>1, <1>8 DEF Solves
<1>10. ASSUME NEW k \in 1..n
       PROVE  it[1..k] = PackUnit(it[1..(k - 1)], units[k], header, maxTokens)
  <2>1. k \in Nat /\ k # 0 /\ 1..k \in SUBSET (1..n)  BY <1>1
  <2>2. /\ 1..k # {}
        /\ Max(1..k) = k /\ (1..k) \ {Max(1..k)} = 1..(k - 1)
    BY <2>1, FirstIndices
  <2>. QED BY <1>1, <1>8, <2>1, <2>2 DEF Solves
<1>11. ASSUME NEW k \in 1..n, it[1..(k - 1)] \in A PROVE it[1..k] \in A
  <2>1. units[k] \in B  BY <1>1
  <2>. QED BY <1>4, <1>10, <1>11, <2>1
<1>12. \A k \in 0..n : it[1..k] \in A  BY <1>1, <1>3, <1>9, <1>11, FoldStays
<1>. DEFINE g == [k \in 0..n |-> it[1..k]]
<1>13. g \in [0..n -> A] /\ g[0] = [pieces |-> <<>>, pending |-> NoLines]
  BY <1>1, <1>9, <1>12
<1>14. \A k \in 1..n : g[k] = PackUnit(g[k - 1], units[k], header, maxTokens)
  BY <1>1, <1>10
<1>15. PackUnits(units, header, maxTokens) = g[n]  BY <1>1, <1>8
<1>. HIDE DEF g
<1>16. PackUnitsRun(g, units, header, maxTokens)
  BY <1>13, <1>14, <1>15 DEF A, n, PackUnitsRun
<1>. QED BY <1>16

(* A heading leaves some first part of the stack.                          *)
LEMMA PushHeadingStays ==
  ASSUME NEW nodes, NEW stack \in Seq(DOMAIN nodes), NEW h \in DOMAIN nodes
  PROVE  PushHeading(nodes, stack, h) \in Seq(DOMAIN nodes)
<1>. DEFINE kept == {k \in 1..Len(stack) : nodes[stack[k]].depth < nodes[h].depth}
            S == kept \union {0}
<1>1. Len(stack) \in Nat  BY LenProperties
<1>2. S \in SUBSET (0..Len(stack)) /\ S # {}  BY <1>1
<1>. HIDE DEF S
<1>3. Max(S) \in S  BY <1>1, <1>2, GreatestUpTo
<1>4. Max(S) \in Int /\ Max(S) <= Len(stack)
  <2>1. PICK x : x = Max(S)  OBVIOUS
  <2>2. x \in 0..Len(stack)  BY <1>2, <1>3, <2>1
  <2>. QED BY <1>1, <2>1, <2>2
<1>5. 1 \in Nat \ {0}  OBVIOUS
<1>6. SubSeq(stack, 1, Max(S)) \in Seq(DOMAIN nodes)
  BY <1>4, <1>5, SubSeqIsSequence
<1>7. Append(SubSeq(stack, 1, Max(S)), h) \in Seq(DOMAIN nodes)
  BY <1>6, AppendProperties
<1>. QED BY <1>7 DEF PushHeading, S

(* The heading stack, node by node.                                        *)
StackRun(g, nodes, m, order) ==
    /\ g \in [0..Len(order) -> Seq(DOMAIN nodes)]
    /\ g[0] = <<>>
    /\ \A k \in 1..Len(order) : g[k] = PushHeading(nodes, g[k - 1], order[k])
    /\ HeadingStack(nodes, m) = g[Len(order)]

(* The run of the heading stack exists, and stays in the indices of the    *)
(* nodes.                                                                  *)
LEMMA StackRuns ==
  ASSUME NEW nodes, IsParsed(nodes), NEW m,
         NEW order \in Seq(DOMAIN nodes), order = [i \in 1..m |-> i]
  PROVE  \E g : StackRun(g, nodes, m, order)
<1>. DEFINE A == Seq(DOMAIN nodes)
            B == DOMAIN nodes
            n == Len(order)
            F == [p \in A \X B |-> PushHeading(nodes, p[1], p[2])]
            Solves(it) == it = [s \in SUBSET DOMAIN order |->
                                   IF s = {} THEN <<>>
                                   ELSE PushHeading(nodes, it[s \ {Max(s)}],
                                                    order[Max(s)])]
<1>1. n \in Nat /\ order \in [1..n -> B] /\ DOMAIN order = 1..n
  BY LenProperties
<1>2. HeadingStack(nodes, m) = (CHOOSE it : Solves(it))[DOMAIN order]
  BY DEF HeadingStack, FoldLeft, MapThenFoldSet
<1>3. <<>> \in A  OBVIOUS
<1>4. ASSUME NEW a \in A, NEW b \in B PROVE PushHeading(nodes, a, b) \in A
  BY PushHeadingStays
<1>. HIDE DEF n, A, B
<1>5. /\ F \in [A \X B -> A]
      /\ \A a \in A, b \in B : F[<<a, b>>] = PushHeading(nodes, a, b)
  BY <1>4
<1>. HIDE DEF F
<1>6. PICK h : FoldOf(h, A, B, F, <<>>, n, order)
  <2>. HIDE DEF Solves
  <2>1. \A G \in [A \X B -> A], a \in A, k \in Nat :
            \A s \in [1..k -> B] : \E h : FoldOf(h, A, B, G, a, k, s)
    BY FoldExists, Zenon
  <2>. QED BY <1>1, <1>3, <1>5, <2>1
<1>7. Solves(h)  BY <1>1, <1>5, <1>6 DEF FoldOf
<1>. HIDE DEF Solves
<1>8. PICK it : Solves(it) /\ HeadingStack(nodes, m) = it[1..n]
  BY <1>1, <1>2, <1>7
<1>9. it[{}] = <<>>  BY <1>1, <1>8 DEF Solves
<1>10. ASSUME NEW k \in 1..n
       PROVE  it[1..k] = PushHeading(nodes, it[1..(k - 1)], order[k])
  <2>1. k \in Nat /\ k # 0 /\ 1..k \in SUBSET (1..n)  BY <1>1
  <2>2. /\ 1..k # {}
        /\ Max(1..k) = k /\ (1..k) \ {Max(1..k)} = 1..(k - 1)
    BY <2>1, FirstIndices
  <2>. QED BY <1>1, <1>8, <2>1, <2>2 DEF Solves
<1>11. ASSUME NEW k \in 1..n, it[1..(k - 1)] \in A PROVE it[1..k] \in A
  <2>1. order[k] \in B  BY <1>1
  <2>. QED BY <1>4, <1>10, <1>11, <2>1
<1>12. \A k \in 0..n : it[1..k] \in A  BY <1>1, <1>3, <1>9, <1>11, FoldStays
<1>. DEFINE g == [k \in 0..n |-> it[1..k]]
<1>13. g \in [0..n -> A] /\ g[0] = <<>>  BY <1>1, <1>9, <1>12
<1>14. \A k \in 1..n : g[k] = PushHeading(nodes, g[k - 1], order[k])
  BY <1>1, <1>10
<1>15. HeadingStack(nodes, m) = g[n]  BY <1>1, <1>8
<1>. HIDE DEF g
<1>16. StackRun(g, nodes, m, order)  BY <1>13, <1>14, <1>15 DEF A, n, StackRun
<1>. QED BY <1>16

(* So the headings above a block are nodes of the document.                *)
LEMMA StackIsOfNodes ==
  ASSUME NEW nodes, IsParsed(nodes), NEW m \in DOMAIN nodes
  PROVE  HeadingStack(nodes, m) \in Seq(DOMAIN nodes)
<1>1. m \in Nat /\ \A i \in 1..m : i \in DOMAIN nodes  BY DEF IsParsed
<1>2. PICK order : order = [i \in 1..m |-> i]  OBVIOUS
<1>3. order \in [1..m -> DOMAIN nodes]  BY <1>1, <1>2
<1>4. order \in Seq(DOMAIN nodes)  BY <1>1, <1>3, IsASeq
<1>5. Len(order) \in Nat /\ Len(order) \in 0..Len(order)
  BY <1>4, LenProperties
<1>6. PICK g : StackRun(g, nodes, m, order)  BY <1>2, <1>4, StackRuns
<1>. QED BY <1>5, <1>6 DEF StackRun

(* The titles a heading path is made of.                                   *)
Titles(nodes) == {nodes[n].title : n \in DOMAIN nodes}

(* A chunk is a text, its count and the titles above it.                   *)
Chunks(H) == [text : Text, tokenCount : Int, headingPath : Seq(H)]

(* The options of chunkMarkdown are numbers.                               *)
IsOptions(o) ==
    /\ o.maxTokens \in Nat /\ o.maxTokens > 1
    /\ o.join \in Int

(* A heading path holds titles of the document.                            *)
LEMMA PathIsOfTitles ==
  ASSUME NEW nodes, IsParsed(nodes), NEW n \in DOMAIN nodes
  PROVE  HeadingPath(nodes, n) \in Seq(Titles(nodes))
<1>1. PICK stack \in Seq(DOMAIN nodes) : stack = HeadingStack(nodes, n)
  BY StackIsOfNodes
<1>2. Len(stack) \in Nat /\ DOMAIN stack = 1..Len(stack)
      /\ \A i \in 1..Len(stack) : stack[i] \in DOMAIN nodes
  BY LenProperties, ElementOfSeq
<1>3. [i \in DOMAIN stack |-> nodes[stack[i]].title]
          \in [1..Len(stack) -> Titles(nodes)]
  BY <1>2 DEF Titles
<1>. QED BY <1>1, <1>2, <1>3, IsASeq DEF HeadingPath

(* A common prefix is no longer than the path it is of.                    *)
LEMMA PrefixLengthFits ==
  ASSUME NEW H, NEW left \in Seq(H), NEW right \in Seq(H)
  PROVE  \E k \in 0..Len(left) :
             /\ k = FindCommonPrefixLength(left, right)
             /\ k <= Len(right) /\ SubSeq(left, 1, k) = SubSeq(right, 1, k)
             /\ \A j \in 0..Len(left) :
                    /\ j <= Len(right)
                    /\ SubSeq(left, 1, j) = SubSeq(right, 1, j)
                    => j <= k
<1>. DEFINE agree == {k \in 0..Len(left) :
                         /\ k <= Len(right)
                         /\ SubSeq(left, 1, k) = SubSeq(right, 1, k)}
<1>1. Len(left) \in Nat /\ Len(right) \in Nat  BY LenProperties
<1>2. 0 \in agree
  <2>1. SubSeq(left, 1, 0) = <<>> /\ SubSeq(right, 1, 0) = <<>>  BY SubSeqEmpty
  <2>. QED BY <1>1, <2>1
<1>3. agree \in SUBSET (0..Len(left))  OBVIOUS
<1>4. FindCommonPrefixLength(left, right)
          = CHOOSE k \in agree : \A j \in agree : j <= k
  BY DEF FindCommonPrefixLength
<1>. HIDE DEF agree
<1>5. Max(agree) \in agree /\ \A j \in agree : j <= Max(agree)
  BY <1>1, <1>2, <1>3, GreatestUpTo
<1>6. \E k \in agree : \A j \in agree : j <= k  BY <1>5
<1>7. /\ FindCommonPrefixLength(left, right) \in agree
      /\ \A j \in agree : j <= FindCommonPrefixLength(left, right)
  BY <1>4, <1>6
<1>. QED BY <1>7 DEF agree

(* So cutting a path to it leaves a path.                                  *)
LEMMA PrefixIsPath ==
  ASSUME NEW H, NEW path \in Seq(H), NEW chunk \in Chunks(H)
  PROVE  SubSeq(path, 1, FindCommonPrefixLength(path, chunk.headingPath))
             \in Seq(H)
<1>1. chunk.headingPath \in Seq(H)  BY DEF Chunks
<1>2. PICK k : k = FindCommonPrefixLength(path, chunk.headingPath)  OBVIOUS
<1>3. k \in 0..Len(path) /\ Len(path) \in Nat
  BY <1>1, <1>2, PrefixLengthFits, LenProperties
<1>4. k \in Int /\ k <= Len(path) /\ 1 \in Nat \ {0}  BY <1>3
<1>5. SubSeq(path, 1, k) \in Seq(H)  BY <1>4, SubSeqIsSequence
<1>. QED BY <1>2, <1>5

(* The loop of joinChunks over the heading paths.                          *)
SharedPathRun(g, chunks, H) ==
    /\ g \in [0..Len(chunks) -> Seq(H)]
    /\ g[0] = chunks[1].headingPath
    /\ \A k \in 1..Len(chunks) :
           g[k] = SubSeq(g[k - 1], 1,
                         FindCommonPrefixLength(g[k - 1],
                                                chunks[k].headingPath))
    /\ SharedPath(chunks) = g[Len(chunks)]

(* The run of the shared path exists.                                      *)
LEMMA SharedPathRuns ==
  ASSUME NEW H, NEW chunks \in Seq(Chunks(H)), chunks # <<>>
  PROVE  \E g : SharedPathRun(g, chunks, H)
<1>. DEFINE A == Seq(H)
            B == Chunks(H)
            n == Len(chunks)
            F == [p \in A \X B |->
                     SubSeq(p[1], 1,
                            FindCommonPrefixLength(p[1], p[2].headingPath))]
            Solves(it) == it = [s \in SUBSET DOMAIN chunks |->
                                   IF s = {} THEN chunks[1].headingPath
                                   ELSE SubSeq(it[s \ {Max(s)}], 1,
                                               FindCommonPrefixLength(
                                                   it[s \ {Max(s)}],
                                                   chunks[Max(s)].headingPath))]
<1>1. n \in Nat /\ chunks \in [1..n -> B] /\ DOMAIN chunks = 1..n
  BY LenProperties
<1>2. SharedPath(chunks) = (CHOOSE it : Solves(it))[DOMAIN chunks]
  BY DEF SharedPath, FoldLeft, MapThenFoldSet
<1>3. chunks[1].headingPath \in A
  <2>1. 1 \in 1..Len(chunks)  BY EmptySeq, LenProperties
  <2>2. chunks[1] \in Chunks(H)  BY <2>1, ElementOfSeq
  <2>. QED BY <2>2 DEF Chunks
<1>4. ASSUME NEW a \in A, NEW b \in B
      PROVE  SubSeq(a, 1, FindCommonPrefixLength(a, b.headingPath)) \in A
  BY PrefixIsPath
<1>. HIDE DEF n, A, B
<1>5. /\ F \in [A \X B -> A]
      /\ \A a \in A, b \in B : 
             F[<<a, b>>]
                 = SubSeq(a, 1, FindCommonPrefixLength(a, b.headingPath))
  BY <1>4
<1>. HIDE DEF F
<1>6. PICK h : FoldOf(h, A, B, F, chunks[1].headingPath, n, chunks)
  <2>. HIDE DEF Solves
  <2>1. \A G \in [A \X B -> A], a \in A, k \in Nat :
            \A s \in [1..k -> B] : \E h : FoldOf(h, A, B, G, a, k, s)
    BY FoldExists, Zenon
  <2>. QED BY <1>1, <1>3, <1>5, <2>1
<1>7. Solves(h)  BY <1>1, <1>5, <1>6 DEF FoldOf
<1>. HIDE DEF Solves
<1>8. PICK it : Solves(it) /\ SharedPath(chunks) = it[1..n]
  BY <1>1, <1>2, <1>7
<1>9. it[{}] = chunks[1].headingPath  BY <1>1, <1>8 DEF Solves
<1>10. ASSUME NEW k \in 1..n
       PROVE  it[1..k] = SubSeq(it[1..(k - 1)], 1,
                                FindCommonPrefixLength(it[1..(k - 1)],
                                                       chunks[k].headingPath))
  <2>1. k \in Nat /\ k # 0 /\ 1..k \in SUBSET (1..n)  BY <1>1
  <2>2. /\ 1..k # {}
        /\ Max(1..k) = k /\ (1..k) \ {Max(1..k)} = 1..(k - 1)
    BY <2>1, FirstIndices
  <2>. QED BY <1>1, <1>8, <2>1, <2>2 DEF Solves
<1>11. ASSUME NEW k \in 1..n, it[1..(k - 1)] \in A PROVE it[1..k] \in A
  <2>1. chunks[k] \in B  BY <1>1
  <2>. QED BY <1>4, <1>10, <1>11, <2>1
<1>12. \A k \in 0..n : it[1..k] \in A  BY <1>1, <1>3, <1>9, <1>11, FoldStays
<1>. DEFINE g == [k \in 0..n |-> it[1..k]]
<1>13. g \in [0..n -> A] /\ g[0] = chunks[1].headingPath  BY <1>1, <1>9, <1>12
<1>14. \A k \in 1..n :
           g[k] = SubSeq(g[k - 1], 1,
                         FindCommonPrefixLength(g[k - 1],
                                                chunks[k].headingPath))
  BY <1>1, <1>10
<1>15. SharedPath(chunks) = g[n]  BY <1>1, <1>8
<1>. HIDE DEF g
<1>16. SharedPathRun(g, chunks, H)
  BY <1>13, <1>14, <1>15 DEF A, n, SharedPathRun
<1>. QED BY <1>16

(* So what chunks share of their paths is a path.                          *)
LEMMA SharedPathIsPath ==
  ASSUME NEW H, NEW chunks \in Seq(Chunks(H)), chunks # <<>>
  PROVE  SharedPath(chunks) \in Seq(H)
<1>1. Len(chunks) \in Nat /\ Len(chunks) \in 0..Len(chunks)  BY LenProperties
<1>2. PICK g : SharedPathRun(g, chunks, H)  BY SharedPathRuns
<1>. QED BY <1>1, <1>2 DEF SharedPathRun

(* Chunks that are joined make a chunk.                                    *)
LEMMA JoinIsChunk ==
  ASSUME NEW H, NEW chunks \in Seq(Chunks(H)), chunks # <<>>,
         NEW o, IsOptions(o)
  PROVE  JoinChunks(chunks, o) \in Chunks(H)
<1>. DEFINE texts == [i \in DOMAIN chunks |-> chunks[i].text]
            counts == [i \in DOMAIN chunks |-> chunks[i].tokenCount]
<1>1. /\ Len(chunks) \in Nat /\ DOMAIN chunks = 1..Len(chunks)
      /\ \A i \in 1..Len(chunks) : chunks[i] \in Chunks(H)
  BY LenProperties, ElementOfSeq
<1>2. FlattenSeq(texts) \in Text
  <2>1. texts \in [1..Len(chunks) -> Seq(Tok)]  BY <1>1 DEF Chunks, Text
  <2>2. texts \in Seq(Seq(Tok))  BY <1>1, <2>1, IsASeq
  <2>. QED BY <2>2, FlattenIsSequence DEF Text
<1>3. Total(counts) \in Int
  <2>1. counts \in [1..Len(chunks) -> Int]  BY <1>1 DEF Chunks
  <2>2. counts \in Seq(Int)  BY <1>1, <2>1, IsASeq
  <2>. QED BY <2>2, TotalOf
<1>4. (Len(chunks) - 1) * o.join \in Int  BY <1>1 DEF IsOptions
<1>5. SharedPath(chunks) \in Seq(H)  BY SharedPathIsPath
<1>. HIDE DEF texts, counts
<1>6. Chunk(FlattenSeq(texts), Total(counts) + (Len(chunks) - 1) * o.join,
            SharedPath(chunks)) \in Chunks(H)
  BY <1>2, <1>3, <1>4, <1>5 DEF Chunk, Chunks
<1>. QED BY <1>6 DEF JoinChunks, texts, counts

(* At least one chunk leaves the run, and no more than it holds.           *)
LEMMA LeadingChunks ==
  ASSUME NEW chunks, NEW o, Len(chunks) \in Nat, Len(chunks) # 0
  PROVE  \E k \in 1..Len(chunks) :
             /\ k = MergeLeadingChunks(chunks, o)
             /\ k # 1 => JoinChunks(SubSeq(chunks, 1, k), o).tokenCount
                            <= o.maxTokens
<1>. DEFINE fit == {k \in 2..Len(chunks) :
                       JoinChunks(SubSeq(chunks, 1, k), o).tokenCount
                           <= o.maxTokens}
            S == fit \union {1}
<1>1. MergeLeadingChunks(chunks, o) = CHOOSE k \in S : \A j \in fit : j <= k
  BY DEF MergeLeadingChunks
<1>2. S \in SUBSET (0..Len(chunks)) /\ S \in SUBSET (1..Len(chunks)) /\ S # {}
  OBVIOUS
<1>3. \A j \in fit : j \in S  OBVIOUS
<1>. HIDE DEF S, fit
<1>4. Max(S) \in S /\ \A j \in S : j <= Max(S)  BY <1>2, GreatestUpTo
<1>5. \E k \in S : \A j \in fit : j <= k  BY <1>3, <1>4
<1>6. MergeLeadingChunks(chunks, o) \in S  BY <1>1, <1>5
<1>. QED BY <1>2, <1>6 DEF S, fit

(* A loop that goes from i on to i + K[i] and gives J[i] reaches the end.  *)
Walk(f, S, J, K, n) ==
    /\ f \in [1..(n + 1) -> Seq(S)]
    /\ \A i \in 1..(n + 1) :
           f[i] = IF i > n THEN <<>> ELSE <<J[i]>> \o f[i + K[i]]

(* The walk over a sequence that takes a leading run at each step exists.  *)
LEMMA WalkExists ==
  ASSUME NEW S, NEW n \in Nat, NEW J \in [1..n -> S], NEW K,
         \A i \in 1..n : K[i] \in 1..(n - i + 1)
  PROVE  \E f : Walk(f, S, J, K, n)
<1>. DEFINE Part(f, m) ==
                /\ f \in [(n + 1 - m)..(n + 1) -> Seq(S)]
                /\ \A i \in (n + 1 - m)..(n + 1) :
                       f[i] = IF i > n THEN <<>> ELSE <<J[i]>> \o f[i + K[i]]
            P == {m \in 0..n : \E f : Part(f, m)}
<1>1. 0 \in P
  <2>. DEFINE f == [i \in (n + 1 - 0)..(n + 1) |-> <<>>]
  <2>1. Part(f, 0)  OBVIOUS
  <2>. HIDE DEF Part
  <2>2. \E g : Part(g, 0)  BY <2>1
  <2>. QED BY <2>2
<1>2. ASSUME NEW m \in 1..n, m - 1 \in P PROVE m \in P
  <2>1. PICK g : Part(g, m - 1)
    <3>. HIDE DEF Part
    <3>. QED BY <1>2
  <2>. DEFINE l == n + 1 - m
              f == [i \in l..(n + 1) |->
                       IF i = l THEN <<J[l]>> \o g[l + K[l]] ELSE g[i]]
  <2>2. l \in 1..n /\ n + 1 - (m - 1) = l + 1  OBVIOUS
  <2>. HIDE DEF l
  <2>3. /\ g \in [(l + 1)..(n + 1) -> Seq(S)]
        /\ \A i \in (l + 1)..(n + 1) :
               g[i] = IF i > n THEN <<>> ELSE <<J[i]>> \o g[i + K[i]]
    BY <2>1, <2>2
  <2>4. l + K[l] \in (l + 1)..(n + 1)  BY <2>2
  <2>5. <<J[l]>> \in Seq(S)  BY <2>2
  <2>6. <<J[l]>> \o g[l + K[l]] \in Seq(S)
    BY <2>3, <2>4, <2>5, ConcatProperties
  <2>7. f \in [l..(n + 1) -> Seq(S)]
    <3>1. \A i \in l..(n + 1) : i # l => i \in (l + 1)..(n + 1)  BY <2>2
    <3>. QED BY <2>3, <2>6, <3>1
  <2>8. ASSUME NEW i \in l..(n + 1)
        PROVE  f[i] = IF i > n THEN <<>> ELSE <<J[i]>> \o f[i + K[i]]
    <3>1. CASE i = l
      <4>1. l + K[l] \in l..(n + 1) /\ l + K[l] # l  BY <2>2, <2>4
      <4>2. f[l + K[l]] = g[l + K[l]]  BY <4>1
      <4>3. f[l] = <<J[l]>> \o g[l + K[l]] /\ ~(l > n)  BY <2>2
      <4>. HIDE DEF f
      <4>. QED BY <3>1, <4>2, <4>3
    <3>2. CASE i # l
      <4>1. i \in (l + 1)..(n + 1)  BY <2>2, <3>2
      <4>2. f[i] = g[i]  BY <3>2
      <4>3. CASE i > n  BY <2>3, <4>1, <4>2, <4>3
      <4>4. CASE ~(i > n)
        <5>1. i \in 1..n  BY <2>2, <4>1, <4>4
        <5>2. i + K[i] \in l..(n + 1) /\ i + K[i] # l  BY <2>2, <4>1, <5>1
        <5>3. f[i + K[i]] = g[i + K[i]]  BY <5>2
        <5>. QED BY <2>3, <4>1, <4>2, <4>4, <5>3
      <4>. QED BY <4>3, <4>4
    <3>. QED BY <3>1, <3>2
  <2>. HIDE DEF f
  <2>9. Part(f, m)  BY <2>7, <2>8 DEF l
  <2>. HIDE DEF Part
  <2>. QED BY <2>9
<1>. HIDE DEF P
<1>3. \A m \in 0..n : m \in P  BY <1>1, <1>2, BoundedInduction
<1>4. \E f : Part(f, n)
  <2>. HIDE DEF Part
  <2>. QED BY <1>3 DEF P
<1>5. PICK f : Part(f, n)  BY <1>4
<1>6. Walk(f, S, J, K, n)
  <2>1. n + 1 - n = 1  OBVIOUS
  <2>. QED BY <1>5, <2>1 DEF Walk
<1>. QED BY <1>6

-----------------------------------------------------------------------------
(* Chunks that have one heading path.                                      *)
OnePath(chunks) ==
    \A i \in 1..Len(chunks) : chunks[i].headingPath = chunks[1].headingPath

(* A path shares all of itself with itself.                                *)
LEMMA WholePathIsShared ==
  ASSUME NEW H, NEW path \in Seq(H)
  PROVE  SubSeq(path, 1, FindCommonPrefixLength(path, path)) = path
<1>1. Len(path) \in Nat  BY LenProperties
<1>2. PICK k \in 0..Len(path) :
          /\ k = FindCommonPrefixLength(path, path)
          /\ \A j \in 0..Len(path) :
                 /\ j <= Len(path)
                 /\ SubSeq(path, 1, j) = SubSeq(path, 1, j)
                 => j <= k
  BY PrefixLengthFits
<1>3. Len(path) \in 0..Len(path) /\ Len(path) <= Len(path)  BY <1>1
<1>4. k = Len(path)  BY <1>1, <1>2, <1>3
<1>. QED BY <1>2, <1>4, SubSeqFull

(* Two chunks of the same section have one path.                           *)
LEMMA SameSectionIsOnePath ==
  ASSUME NEW H, NEW left \in Chunks(H), NEW right \in Chunks(H),
         IsSameSection(left, right)
  PROVE  left.headingPath = right.headingPath
<1>1. PICK p \in Seq(H) : p = left.headingPath  BY DEF Chunks
<1>2. PICK q \in Seq(H) : q = right.headingPath  BY DEF Chunks
<1>3. Len(p) = Len(q) /\ FindCommonPrefixLength(p, q) = Len(p)
  BY <1>1, <1>2 DEF IsSameSection
<1>4. SubSeq(p, 1, Len(p)) = SubSeq(q, 1, Len(p))  BY <1>3, PrefixLengthFits
<1>5. SubSeq(p, 1, Len(p)) = p /\ SubSeq(q, 1, Len(q)) = q  BY SubSeqFull
<1>. QED BY <1>1, <1>2, <1>3, <1>4, <1>5

(* Chunks of one path share it.                                            *)
LEMMA SectionKeepsPath ==
  ASSUME NEW H, NEW chunks \in Seq(Chunks(H)), chunks # <<>>,
         OnePath(chunks)
  PROVE  SharedPath(chunks) = chunks[1].headingPath
<1>1. PICK n \in Nat \ {0} : n = Len(chunks)  BY EmptySeq
<1>2. PICK p \in Seq(H) : p = chunks[1].headingPath
  <2>1. 1 \in 1..Len(chunks)  BY <1>1
  <2>2. chunks[1] \in Chunks(H)  BY <2>1, ElementOfSeq
  <2>. QED BY <2>2 DEF Chunks
<1>3. PICK g : SharedPathRun(g, chunks, H)  BY SharedPathRuns
<1>4. g[0] = p /\ SharedPath(chunks) = g[n]
  BY <1>1, <1>2, <1>3 DEF SharedPathRun
<1>5. ASSUME NEW k \in 1..n, g[k - 1] = p PROVE g[k] = p
  <2>1. chunks[k].headingPath = p  BY <1>1, <1>2 DEF OnePath
  <2>2. g[k] = SubSeq(p, 1, FindCommonPrefixLength(p, p))
    BY <1>1, <1>3, <1>5, <2>1 DEF SharedPathRun
  <2>. QED BY <2>2, WholePathIsShared
<1>. DEFINE P == {k \in 0..n : g[k] = p}
<1>6. 0 \in P  BY <1>4
<1>7. \A k \in 1..n : k - 1 \in P => k \in P  BY <1>5
<1>. HIDE DEF P
<1>8. n \in P
  <2>1. \A k \in 0..n : k \in P  BY <1>6, <1>7, BoundedInduction
  <2>. QED BY <2>1
<1>. QED BY <1>2, <1>4, <1>8 DEF P

(* A chain of one sequence is that sequence.                               *)
LEMMA FlattenOfOne ==
  ASSUME NEW seqs, Len(seqs) = 1
  PROVE  FlattenSeq(seqs) = seqs[1]
<1>. DEFINE Solves(f) == f = [i \in 1..Len(seqs) |->
                                 IF i = 1 THEN seqs[i]
                                 ELSE f[i - 1] \o seqs[i]]
            one == [i \in 1..1 |-> seqs[1]]
<1>1. FlattenSeq(seqs) = (CHOOSE f : Solves(f))[1]  BY DEF FlattenSeq
<1>2. Solves(one)
  <2>1. \A i \in 1..1 : i = 1  OBVIOUS
  <2>. QED BY <2>1
<1>3. \A f : Solves(f) => f[1] = seqs[1]  OBVIOUS
<1>. HIDE DEF Solves
<1>. QED BY <1>1, <1>2, <1>3

(* One chunk joined is that chunk.                                         *)
LEMMA JoinOfOne ==
  ASSUME NEW H, NEW c \in Chunks(H), NEW o, IsOptions(o)
  PROVE  JoinChunks(<<c>>, o) = c
<1>. DEFINE s == <<c>>
            texts == [i \in DOMAIN s |-> s[i].text]
            counts == [i \in DOMAIN s |-> s[i].tokenCount]
<1>1. s \in Seq(Chunks(H)) /\ s # <<>> /\ Len(s) = 1 /\ s[1] = c
      /\ DOMAIN s = 1..1 /\ \A i \in 1..1 : i = 1
  OBVIOUS
<1>. HIDE DEF s
<1>2. texts \in [1..1 -> Text] /\ counts \in [1..1 -> Int]
      /\ texts[1] = c.text /\ counts[1] = c.tokenCount
  BY <1>1 DEF Chunks
<1>3. /\ texts \in Seq(Text) /\ Len(texts) = 1
      /\ counts \in Seq(Int) /\ Len(counts) = 1
  BY <1>2, IsASeq
<1>. HIDE DEF texts, counts
<1>4. FlattenSeq(texts) = c.text  BY <1>2, <1>3, FlattenOfOne
<1>5. Total(counts) = c.tokenCount  BY <1>2, <1>3, TotalOf
<1>6. SharedPath(s) = c.headingPath  BY <1>1, SectionKeepsPath DEF OnePath
<1>7. c.tokenCount + (Len(s) - 1) * o.join = c.tokenCount
  BY <1>1 DEF Chunks, IsOptions
<1>8. JoinChunks(s, o) = Chunk(c.text, c.tokenCount, c.headingPath)
  BY <1>4, <1>5, <1>6, <1>7 DEF JoinChunks, texts, counts
<1>9. Chunk(c.text, c.tokenCount, c.headingPath) = c  BY DEF Chunk, Chunks
<1>. QED BY <1>8, <1>9 DEF s

(* A set of chunks that no merge leaves which stays in its section and     *)
(* under the ceiling.                                                      *)
Mergeable(C, o, H) ==
    /\ C \subseteq Chunks(H)
    /\ \A s \in Seq(C) :
           /\ s # <<>> /\ OnePath(s)
           /\ JoinChunks(s, o).tokenCount <= o.maxTokens
           => JoinChunks(s, o) \in C

(* mergeLeadingChunks takes at least one chunk, and stays in such a set.   *)
LEMMA LeadingJoin ==
  ASSUME NEW H, NEW o, IsOptions(o), NEW C, Mergeable(C, o, H),
         NEW rest \in Seq(C), rest # <<>>, OnePath(rest)
  PROVE  \E k \in 1..Len(rest) :
             /\ k = MergeLeadingChunks(rest, o)
             /\ JoinChunks(SubSeq(rest, 1, k), o) \in C
<1>1. Len(rest) \in Nat \ {0}  BY EmptySeq
<1>2. PICK k \in 1..Len(rest) :
          /\ k = MergeLeadingChunks(rest, o)
          /\ k # 1 => JoinChunks(SubSeq(rest, 1, k), o).tokenCount
                         <= o.maxTokens
  BY <1>1, LeadingChunks
<1>3. PICK s : s = SubSeq(rest, 1, k)  OBVIOUS
<1>4. /\ s \in Seq(C) /\ Len(s) = k
      /\ \A i \in 1..k : s[i] = rest[i]
  <2>1. \A i \in 1..k : rest[i] \in C  BY <1>1, ElementOfSeq
  <2>. DEFINE f == [i \in 1..k |-> rest[i]]
  <2>2. SubSeq(rest, 1, k) = f  BY <1>1
  <2>3. f \in [1..k -> C] /\ k \in Nat  BY <1>1, <2>1
  <2>. HIDE DEF f
  <2>4. f \in Seq(C) /\ Len(f) = k  BY <2>3, IsASeq
  <2>. QED BY <1>3, <2>2, <2>4 DEF f
<1>5. CASE k = 1
  <2>1. rest[1] \in C  BY <1>1, ElementOfSeq
  <2>2. <<rest[1]>> \in Seq(C) /\ Len(<<rest[1]>>) = 1  BY <2>1
  <2>3. s = <<rest[1]>>  BY <1>4, <1>5, <2>2, SeqEqual
  <2>4. JoinChunks(s, o) = rest[1]  BY <2>1, <2>3, JoinOfOne DEF Mergeable
  <2>. QED BY <1>2, <1>3, <2>1, <2>4
<1>6. CASE k # 1
  <2>1. s # <<>>
    <3>1. Len(s) # 0  BY <1>1, <1>4
    <3>. QED BY <3>1, EmptySeq
  <2>2. OnePath(s)
    <3>1. 1 \in 1..k /\ \A i \in 1..k : i \in 1..Len(rest)  BY <1>1
    <3>. QED BY <1>4, <3>1 DEF OnePath
  <2>3. JoinChunks(s, o) \in C
    BY <1>2, <1>3, <1>4, <1>6, <2>1, <2>2 DEF Mergeable
  <2>. QED BY <1>2, <1>3, <2>3
<1>. QED BY <1>5, <1>6

-----------------------------------------------------------------------------
(* Chains of texts.                                                        *)

(* A sequence that begins with another.                                    *)
BeginsWith(t, s) == Len(s) <= Len(t) /\ \A k \in 1..Len(s) : t[k] = s[k]

(* Two runs over sequences that begin alike.                               *)
LEMMA FlattenRunsAlike ==
  ASSUME NEW S, NEW s \in Seq(Seq(S)), NEW t \in Seq(Seq(S)),
         NEW g, FlattenRun(g, s, S), NEW h, FlattenRun(h, t, S),
         BeginsWith(t, s)
  PROVE  h[Len(s)] = g[Len(s)]
<1>1. PICK n \in Nat : n = Len(s)  BY LenProperties
<1>2. PICK m \in Nat : m = Len(t)  BY LenProperties
<1>. DEFINE P == {k \in 0..n : h[k] = g[k]}
<1>3. 0 \in P  BY <1>1 DEF FlattenRun
<1>4. ASSUME NEW k \in 1..n, k - 1 \in P PROVE k \in P
  <2>1. k \in 1..m /\ k \in 0..n /\ t[k] = s[k]  BY <1>1, <1>2 DEF BeginsWith
  <2>2. g[k] = g[k - 1] \o s[k]  BY <1>1 DEF FlattenRun
  <2>3. h[k] = h[k - 1] \o t[k]  BY <1>2, <2>1 DEF FlattenRun
  <2>. QED BY <1>4, <2>1, <2>2, <2>3
<1>. HIDE DEF P
<1>5. \A k \in 0..n : k \in P  BY <1>3, <1>4, BoundedInduction
<1>6. n \in 0..n  OBVIOUS
<1>7. n \in P  BY <1>5, <1>6
<1>. QED BY <1>1, <1>7 DEF P

(* A chain that grows by a part.                                           *)
LEMMA FlattenAppend ==
  ASSUME NEW S, NEW seqs \in Seq(Seq(S)), NEW e \in Seq(S)
  PROVE  FlattenSeq(Append(seqs, e)) = FlattenSeq(seqs) \o e
<1>1. PICK t \in Seq(Seq(S)) : t = Append(seqs, e)  BY AppendProperties
<1>2. PICK n \in Nat : n = Len(seqs)  BY LenProperties
<1>3. /\ Len(t) = n + 1 /\ t[n + 1] = e
      /\ \A k \in 1..n : t[k] = seqs[k]
  BY <1>1, <1>2, AppendProperties
<1>4. PICK g : FlattenRun(g, seqs, S)  BY FlattenRuns
<1>5. PICK h : FlattenRun(h, t, S)  BY FlattenRuns
<1>6. BeginsWith(t, seqs)  BY <1>2, <1>3 DEF BeginsWith
<1>7. h[n] = g[n]  BY <1>2, <1>4, <1>5, <1>6, FlattenRunsAlike
<1>8. \A i \in 1..Len(t) : h[i] = h[i - 1] \o t[i]  BY <1>5 DEF FlattenRun
<1>9. PICK i : i = n + 1  OBVIOUS
<1>10. i \in 1..Len(t) /\ i - 1 = n /\ i = Len(t) /\ t[i] = e  BY <1>3, <1>9
<1>11. h[i] = h[n] \o e  BY <1>8, <1>10
<1>12. FlattenSeq(t) = h[i]  BY <1>5, <1>10 DEF FlattenRun
<1>13. FlattenSeq(seqs) = g[n]  BY <1>2, <1>4 DEF FlattenRun
<1>. QED BY <1>1, <1>7, <1>11, <1>12, <1>13

(* Two chains make one.                                                    *)
LEMMA FlattenConcat ==
  ASSUME NEW S, NEW s \in Seq(Seq(S)), NEW t \in Seq(Seq(S))
  PROVE  FlattenSeq(s \o t) = FlattenSeq(s) \o FlattenSeq(t)
<1>1. PICK u \in Seq(Seq(S)) : u = s \o t  BY ConcatProperties
<1>2. PICK n \in Nat : n = Len(s)  BY LenProperties
<1>3. PICK m \in Nat : m = Len(t)  BY LenProperties
<1>4. /\ Len(u) = n + m
      /\ \A k \in 1..n : u[k] = s[k]
      /\ \A k \in 1..m : u[n + k] = t[k]
  <2>1. Len(u) = n + m
        /\ \A i \in 1..(n + m) : u[i] = IF i <= n THEN s[i] ELSE t[i - n]
    BY <1>1, <1>2, <1>3, ConcatProperties
  <2>2. \A k \in 1..n : k \in 1..(n + m) /\ k <= n  OBVIOUS
  <2>3. \A k \in 1..m : n + k \in 1..(n + m) /\ ~(n + k <= n)
                        /\ n + k - n = k
    OBVIOUS
  <2>. QED BY <2>1, <2>2, <2>3
<1>5. PICK f : FlattenRun(f, s, S)  BY FlattenRuns
<1>6. PICK g : FlattenRun(g, t, S)  BY FlattenRuns
<1>7. PICK h : FlattenRun(h, u, S)  BY FlattenRuns
<1>8. h[n] = f[n]
  <2>1. BeginsWith(u, s)  BY <1>2, <1>3, <1>4 DEF BeginsWith
  <2>. QED BY <1>2, <1>5, <1>7, <2>1, FlattenRunsAlike
<1>9. f[n] \in Seq(S) /\ FlattenSeq(s) = f[n]
  <2>1. n \in 0..Len(s)  BY <1>2
  <2>. QED BY <1>2, <1>5, <2>1 DEF FlattenRun
<1>10. g \in [0..m -> Seq(S)] /\ g[0] = <<>> /\ FlattenSeq(t) = g[m]
  BY <1>3, <1>6 DEF FlattenRun
<1>. DEFINE P == {k \in 0..m : h[n + k] = f[n] \o g[k]}
<1>11. 0 \in P
  <2>1. n + 0 = n /\ 0 \in 0..m  OBVIOUS
  <2>2. f[n] \o <<>> = f[n]  BY <1>9, ConcatEmptySeq
  <2>. QED BY <1>8, <1>10, <2>1, <2>2
<1>12. ASSUME NEW k \in 1..m, k - 1 \in P PROVE k \in P
  <2>1. PICK j \in 0..m : j = k - 1  OBVIOUS
  <2>2. PICK i \in 1..Len(u) : i = n + k
    <3>1. n + k \in 1..(n + m)  OBVIOUS
    <3>. QED BY <1>4, <3>1
  <2>3. i - 1 = n + j /\ k \in 0..m  BY <2>1, <2>2
  <2>4. h[i] = h[i - 1] \o u[i]
    <3>1. \A l \in 1..Len(u) : h[l] = h[l - 1] \o u[l]  BY <1>7 DEF FlattenRun
    <3>. QED BY <3>1
  <2>5. h[n + j] = f[n] \o g[j]  BY <1>12, <2>1
  <2>6. u[i] = t[k]  BY <1>4, <2>2
  <2>7. g[k] = g[j] \o t[k]
    <3>1. \A l \in 1..m : g[l] = g[l - 1] \o t[l]  BY <1>3, <1>6 DEF FlattenRun
    <3>. QED BY <2>1, <3>1
  <2>8. g[j] \in Seq(S) /\ t[k] \in Seq(S)  BY <1>3, <1>10, ElementOfSeq
  <2>9. PICK x \in Seq(S), y \in Seq(S), z \in Seq(S) :
            x = f[n] /\ y = g[j] /\ z = t[k]
    BY <1>9, <2>8
  <2>10. h[i] = (x \o y) \o z  BY <2>3, <2>4, <2>5, <2>6, <2>9
  <2>11. f[n] \o g[k] = x \o (y \o z)  BY <2>7, <2>9
  <2>12. (x \o y) \o z = x \o (y \o z)  BY ConcatAssociative, SMTT(30)
  <2>. QED BY <2>2, <2>3, <2>10, <2>11, <2>12
<1>. HIDE DEF P
<1>13. \A k \in 0..m : k \in P  BY <1>11, <1>12, BoundedInduction
<1>14. h[n + m] = f[n] \o g[m]
  <2>1. m \in 0..m  OBVIOUS
  <2>2. m \in P  BY <1>13, <2>1
  <2>. QED BY <2>2 DEF P
<1>15. FlattenSeq(u) = h[n + m]  BY <1>4, <1>7 DEF FlattenRun
<1>. QED BY <1>1, <1>9, <1>10, <1>14, <1>15

-----------------------------------------------------------------------------
(* What pieces or chunks hold, one after the other.                        *)
TextOf(pieces) == FlattenSeq([i \in DOMAIN pieces |-> pieces[i].text])

(* Records with a text.                                                    *)
HoldText(R) == \A r \in R : r.text \in Text

(* The texts are as many as the records.                                   *)
LEMMA TextsOfPieces ==
  ASSUME NEW R, HoldText(R), NEW pieces \in Seq(R)
  PROVE  \E texts \in Seq(Text) :
             /\ texts = [i \in DOMAIN pieces |-> pieces[i].text]
             /\ TextOf(pieces) = FlattenSeq(texts)
             /\ Len(texts) = Len(pieces)
             /\ \A i \in 1..Len(pieces) : texts[i] = pieces[i].text
<1>1. PICK n \in Nat : n = Len(pieces) /\ DOMAIN pieces = 1..n
  BY LenProperties
<1>. DEFINE texts == [i \in 1..n |-> pieces[i].text]
<1>2. \A i \in 1..n : pieces[i] \in R  BY <1>1, ElementOfSeq
<1>3. texts \in [1..n -> Text]  BY <1>2 DEF HoldText
<1>4. texts \in Seq(Text) /\ Len(texts) = n
  <2>. HIDE DEF texts
  <2>. QED BY <1>3, IsSequence
<1>5. texts = [i \in DOMAIN pieces |-> pieces[i].text]  BY <1>1
<1>6. \A i \in 1..n : texts[i] = pieces[i].text  OBVIOUS
<1>7. TextOf(pieces) = FlattenSeq(texts)  BY <1>1 DEF TextOf
<1>. HIDE DEF texts
<1>. QED BY <1>1, <1>4, <1>5, <1>6, <1>7

(* What they hold is a text.                                               *)
LEMMA TextOfIsText ==
  ASSUME NEW R, HoldText(R), NEW pieces \in Seq(R)
  PROVE  TextOf(pieces) \in Text
<1>1. PICK texts \in Seq(Text) : TextOf(pieces) = FlattenSeq(texts)
  BY TextsOfPieces
<1>2. FlattenSeq(texts) \in Seq(Tok)  BY FlattenIsSequence DEF Text
<1>. QED BY <1>1, <1>2 DEF Text

(* Nothing holds nothing.                                                  *)
LEMMA TextOfNone == TextOf(<<>>) = <<>>
<1>1. [i \in DOMAIN <<>> |-> <<>>[i].text] = <<>>  OBVIOUS
<1>2. Len(<<>>) = 0  OBVIOUS
<1>. QED BY <1>1, <1>2 DEF TextOf, FlattenSeq

(* One more record adds its text.                                          *)
LEMMA TextOfAppend ==
  ASSUME NEW R, HoldText(R), NEW pieces \in Seq(R), NEW piece \in R
  PROVE  TextOf(Append(pieces, piece)) = TextOf(pieces) \o piece.text
<1>1. PICK more \in Seq(R) : more = Append(pieces, piece)  BY AppendProperties
<1>2. PICK n \in Nat : n = Len(pieces)  BY LenProperties
<1>3. /\ Len(more) = n + 1 /\ more[n + 1] = piece
      /\ \A i \in 1..n : more[i] = pieces[i]
  BY <1>1, <1>2, AppendProperties
<1>4. PICK s \in Seq(Text) :
          /\ TextOf(pieces) = FlattenSeq(s) /\ Len(s) = n
          /\ \A i \in 1..n : s[i] = pieces[i].text
  BY <1>2, TextsOfPieces
<1>5. PICK t \in Seq(Text) :
          /\ TextOf(more) = FlattenSeq(t) /\ Len(t) = n + 1
          /\ \A i \in 1..(n + 1) : t[i] = more[i].text
  BY <1>3, TextsOfPieces
<1>6. PICK e \in Text : e = piece.text  BY DEF HoldText
<1>7. PICK u \in Seq(Text) : u = Append(s, e)  BY AppendProperties
<1>8. /\ Len(u) = n + 1 /\ u[n + 1] = e
      /\ \A i \in 1..n : u[i] = s[i]
  BY <1>4, <1>7, AppendProperties
<1>9. \A i \in 1..(n + 1) : u[i] = t[i]
  <2>1. \A i \in 1..n : i \in 1..(n + 1) /\ u[i] = t[i]
    BY <1>3, <1>4, <1>5, <1>8
  <2>2. n + 1 \in 1..(n + 1) /\ u[n + 1] = t[n + 1]  BY <1>3, <1>5, <1>6, <1>8
  <2>3. \A i \in 1..(n + 1) : i \in 1..n \/ i = n + 1  OBVIOUS
  <2>. QED BY <2>1, <2>2, <2>3
<1>10. u = t  BY <1>5, <1>8, <1>9, SeqEqual
<1>11. FlattenSeq(u) = FlattenSeq(s) \o e  BY <1>7, FlattenAppend DEF Text
<1>. QED BY <1>1, <1>4, <1>5, <1>6, <1>10, <1>11

(* One record holds its text.                                              *)
LEMMA TextOfOne ==
  ASSUME NEW R, HoldText(R), NEW piece \in R
  PROVE  TextOf(<<piece>>) = piece.text
<1>1. <<>> \in Seq(R) /\ Append(<<>>, piece) = <<piece>>  OBVIOUS
<1>2. TextOf(<<piece>>) = TextOf(<<>>) \o piece.text  BY <1>1, TextOfAppend
<1>3. piece.text \in Seq(Tok)  BY DEF HoldText, Text
<1>. QED BY <1>2, <1>3, TextOfNone, ConcatEmptySeq

(* What two sequences of records hold.                                     *)
LEMMA TextOfConcat ==
  ASSUME NEW R, HoldText(R), NEW p \in Seq(R), NEW q \in Seq(R)
  PROVE  TextOf(p \o q) = TextOf(p) \o TextOf(q)
<1>1. PICK all \in Seq(R) : all = p \o q  BY ConcatProperties
<1>2. PICK n \in Nat : n = Len(p)  BY LenProperties
<1>3. PICK m \in Nat : m = Len(q)  BY LenProperties
<1>4. /\ Len(all) = n + m
      /\ \A i \in 1..(n + m) : all[i] = IF i <= n THEN p[i] ELSE q[i - n]
  BY <1>1, <1>2, <1>3, ConcatProperties
<1>5. PICK s \in Seq(Text) :
          /\ TextOf(p) = FlattenSeq(s) /\ Len(s) = n
          /\ \A i \in 1..n : s[i] = p[i].text
  BY <1>2, TextsOfPieces
<1>6. PICK t \in Seq(Text) :
          /\ TextOf(q) = FlattenSeq(t) /\ Len(t) = m
          /\ \A i \in 1..m : t[i] = q[i].text
  BY <1>3, TextsOfPieces
<1>7. PICK u \in Seq(Text) :
          /\ TextOf(all) = FlattenSeq(u) /\ Len(u) = n + m
          /\ \A i \in 1..(n + m) : u[i] = all[i].text
  BY <1>4, TextsOfPieces
<1>8. PICK v \in Seq(Text) : v = s \o t  BY ConcatProperties
<1>9. /\ Len(v) = n + m
      /\ \A i \in 1..(n + m) : v[i] = IF i <= n THEN s[i] ELSE t[i - n]
  BY <1>5, <1>6, <1>8, ConcatProperties
<1>10. ASSUME NEW i \in 1..(n + m) PROVE u[i] = v[i]
  <2>1. CASE i <= n
    <3>1. i \in 1..n  BY <2>1
    <3>. QED BY <1>4, <1>5, <1>7, <1>9, <2>1, <3>1
  <2>2. CASE ~(i <= n)
    <3>1. i - n \in 1..m  BY <2>2
    <3>. QED BY <1>4, <1>6, <1>7, <1>9, <2>2, <3>1
  <2>. QED BY <2>1, <2>2
<1>11. u = v  BY <1>7, <1>9, <1>10, SeqEqual
<1>12. FlattenSeq(v) = FlattenSeq(s) \o FlattenSeq(t)
  BY <1>8, FlattenConcat DEF Text
<1>. QED BY <1>1, <1>5, <1>6, <1>7, <1>11, <1>12

(* A cut in two leaves the text.                                           *)
LEMMA TextOfParts ==
  ASSUME NEW R, HoldText(R), NEW pieces \in Seq(R),
         NEW k \in 0..Len(pieces)
  PROVE  /\ SubSeq(pieces, 1, k) \in Seq(R)
         /\ SubSeq(pieces, k + 1, Len(pieces)) \in Seq(R)
         /\ TextOf(pieces) = TextOf(SubSeq(pieces, 1, k))
                                 \o TextOf(SubSeq(pieces, k + 1, Len(pieces)))
<1>1. PICK n \in Nat : n = Len(pieces)  BY LenProperties
<1>2. k \in 0..n /\ 1 \in 1..(n + 1) /\ k \in (1 - 1)..n /\ n \in k..n  BY <1>1
<1>3. SubSeq(pieces, 1, k) \o SubSeq(pieces, k + 1, n) = SubSeq(pieces, 1, n)
  BY <1>1, <1>2, ConcatAdjacentSubSeq
<1>4. SubSeq(pieces, 1, n) = pieces  BY <1>1, SubSeqFull
<1>5. SubSeq(pieces, 1, k) \in Seq(R) /\ SubSeq(pieces, k + 1, n) \in Seq(R)
  <2>1. 1 \in Nat \ {0} /\ k + 1 \in Nat \ {0} /\ k \in Int /\ n \in Int
        /\ k <= Len(pieces) /\ n <= Len(pieces)
    BY <1>1, <1>2
  <2>. QED BY <2>1, SubSeqIsSequence
<1>. QED BY <1>1, <1>3, <1>4, <1>5, TextOfConcat

-----------------------------------------------------------------------------
(* The tokens that a cut of one node keeps.                                *)

(* Texts of node n, in order, from places after l up to h.                 *)
Rising(n, l, h) ==
    {t \in Seq({n} \X ((l + 1)..h)) :
        \A i \in 1..Len(t), j \in 1..Len(t) : i < j => t[i][2] < t[j][2]}

(* Such a text is a text.                                                  *)
LEMMA RisingIsText ==
  ASSUME NEW n \in Int, NEW l \in Int, NEW h \in Int, NEW t \in Rising(n, l, h)
  PROVE  t \in Text
<1>1. {n} \X ((l + 1)..h) \subseteq Tok  BY DEF Tok
<1>2. t \in Seq({n} \X ((l + 1)..h))  BY DEF Rising
<1>. QED BY <1>1, <1>2, SeqMonotonic DEF Text

(* It also lies in any wider range.                                        *)
LEMMA RisingWidens ==
  ASSUME NEW n \in Int, NEW l \in Int, NEW h \in Int,
         NEW a \in Int, NEW b \in Int, a <= l, h <= b,
         NEW t \in Rising(n, l, h)
  PROVE  t \in Rising(n, a, b)
<1>1. {n} \X ((l + 1)..h) \subseteq {n} \X ((a + 1)..b)  OBVIOUS
<1>2. t \in Seq({n} \X ((a + 1)..b))  BY <1>1, SeqMonotonic DEF Rising
<1>. QED BY <1>2 DEF Rising

(* Two of them that follow each other make one.                            *)
LEMMA ConcatRises ==
  ASSUME NEW n \in Int, NEW l \in Int, NEW m \in Int, NEW h \in Int,
         l <= m, m <= h, NEW s \in Rising(n, l, m), NEW t \in Rising(n, m, h)
  PROVE  s \o t \in Rising(n, l, h)
<1>. DEFINE A == {n} \X ((l + 1)..m)
            B == {n} \X ((m + 1)..h)
            S == {n} \X ((l + 1)..h)
            u == s \o t
<1>1. s \in Seq(A) /\ t \in Seq(B)  BY DEF Rising
<1>2. A \subseteq S /\ B \subseteq S  OBVIOUS
<1>3. \A x \in A : x[2] <= m  OBVIOUS
<1>4. \A x \in B : x[2] > m  OBVIOUS
<1>5. \A x \in S : x[2] \in Int  OBVIOUS
<1>. HIDE DEF A, B, S
<1>6. s \in Seq(S) /\ t \in Seq(S)  BY <1>1, <1>2, SeqMonotonic
<1>7. /\ u \in Seq(S) /\ Len(u) = Len(s) + Len(t)
      /\ \A i \in 1..(Len(s) + Len(t)) :
             u[i] = IF i <= Len(s) THEN s[i] ELSE t[i - Len(s)]
      /\ Len(s) \in Nat /\ Len(t) \in Nat
  BY <1>6, ConcatProperties, LenProperties
<1>. HIDE DEF u
<1>8. ASSUME NEW i \in 1..Len(u), NEW j \in 1..Len(u), i < j
      PROVE  u[i][2] < u[j][2]
  <2>1. CASE j <= Len(s)
    <3>1. i \in 1..Len(s) /\ j \in 1..Len(s)  BY <1>7, <1>8, <2>1
    <3>2. u[i] = s[i] /\ u[j] = s[j]  BY <1>7, <3>1
    <3>. QED BY <1>8, <3>1, <3>2 DEF Rising
  <2>2. CASE i <= Len(s) /\ ~(j <= Len(s))
    <3>1. i \in 1..Len(s) /\ j - Len(s) \in 1..Len(t)  BY <1>7, <1>8, <2>2
    <3>2. u[i] = s[i] /\ u[j] = t[j - Len(s)]  BY <1>7, <2>2
    <3>3. s[i] \in A /\ t[j - Len(s)] \in B  BY <1>1, <3>1, ElementOfSeq
    <3>4. u[i][2] \in Int /\ u[j][2] \in Int  BY <1>2, <1>5, <3>2, <3>3
    <3>. QED BY <1>3, <1>4, <3>2, <3>3, <3>4
  <2>3. CASE ~(i <= Len(s))
    <3>1. /\ i - Len(s) \in 1..Len(t) /\ j - Len(s) \in 1..Len(t)
          /\ i - Len(s) < j - Len(s)
      BY <1>7, <1>8, <2>3
    <3>2. u[i] = t[i - Len(s)] /\ u[j] = t[j - Len(s)]  BY <1>7, <1>8, <2>3
    <3>. QED BY <3>1, <3>2 DEF Rising
  <2>. QED BY <1>7, <2>1, <2>2, <2>3
<1>. QED BY <1>7, <1>8 DEF Rising, S, u

(* Numbered tokens are such a text.                                        *)
LEMMA TokensRise ==
  ASSUME NEW n \in Int, NEW from \in Int, NEW count \in Nat
  PROVE  Tokens(n, from, count) \in Rising(n, from, from + count)
<1>. DEFINE f == Tokens(n, from, count)
            S == {n} \X ((from + 1)..(from + count))
<1>1. f \in [1..count -> S]  BY DEF Tokens
<1>2. f \in Seq(S) /\ Len(f) = count  BY <1>1, IsASeq
<1>3. \A i \in 1..count : f[i][2] = from + i  BY DEF Tokens
<1>. HIDE DEF f
<1>4. \A i \in 1..Len(f), j \in 1..Len(f) : i < j => f[i][2] < f[j][2]
  BY <1>2, <1>3
<1>. QED BY <1>2, <1>4 DEF Rising, f

(* The sum of a first part of a sequence is the state of the sum there.    *)
LEMMA TotalOfPart ==
  ASSUME NEW seq \in Seq(Int), NEW g, TotalRun(g, seq),
         NEW k \in 0..Len(seq)
  PROVE  Total(SubSeq(seq, 1, k)) = g[k]
<1>. DEFINE part == [i \in 1..k |-> seq[i]]
<1>1. Len(seq) \in Nat /\ \A i \in 1..Len(seq) : seq[i] \in Int
  BY LenProperties, ElementOfSeq
<1>2. k \in Nat /\ SubSeq(seq, 1, k) = part  BY <1>1
<1>3. part \in [1..k -> Int]  BY <1>1
<1>4. \A i \in 1..k : part[i] = seq[i]  OBVIOUS
<1>. HIDE DEF part
<1>5. part \in Seq(Int) /\ Len(part) = k  BY <1>2, <1>3, IsASeq
<1>6. PICK h : TotalRun(h, part)  BY <1>5, TotalRuns
<1>. DEFINE P == {j \in 0..k : h[j] = g[j]}
<1>7. 0 \in P  BY <1>2, <1>6 DEF TotalRun
<1>8. ASSUME NEW j \in 1..k, j - 1 \in P PROVE j \in P
  <2>1. j \in 1..Len(seq)  BY <1>1
  <2>2. h[j] = h[j - 1] + part[j] /\ g[j] = g[j - 1] + seq[j]
    BY <1>5, <1>6, <2>1 DEF TotalRun
  <2>. QED BY <1>4, <1>8, <2>2
<1>. HIDE DEF P
<1>9. k \in P
  <2>1. \A j \in 0..k : j \in P  BY <1>2, <1>7, <1>8, BoundedInduction
  <2>. QED BY <1>2, <2>1
<1>. QED BY <1>2, <1>5, <1>6, <1>9 DEF P, TotalRun

(* Where the units of a node begin and end: each is a text of the places   *)
(* between, in order.                                                      *)
Offsets(g, nodes, n) ==
    LET units == nodes[n].units
    IN  /\ Len(units) \in Nat /\ DOMAIN units = 1..Len(units)
        /\ g \in [0..Len(units) -> Nat]
        /\ g[0] = 0 /\ g[Len(units)] = Total(units)
        /\ \A k \in 1..Len(units) :
               /\ g[k - 1] <= g[k]
               /\ UnitText(nodes, n, k) \in Rising(n, g[k - 1], g[k])

(* Every node has such places.                                             *)
LEMMA UnitsRise ==
  ASSUME NEW nodes, IsParsed(nodes), NEW n \in DOMAIN nodes
  PROVE  \E g : Offsets(g, nodes, n)
<1>1. n \in Int /\ nodes[n].units \in Seq(Nat)  BY DEF IsParsed
<1>2. PICK units \in Seq(Nat) : units = nodes[n].units  BY <1>1
<1>3. units \in Seq(Int)  BY SeqMonotonic
<1>4. /\ Len(units) \in Nat /\ DOMAIN units = 1..Len(units)
      /\ \A k \in 1..Len(units) : units[k] \in Nat
  BY LenProperties, ElementOfSeq
<1>5. PICK g : TotalRun(g, units)  BY <1>3, TotalRuns
<1>. DEFINE P == {k \in 0..Len(units) : g[k] \in Nat}
<1>6. 0 \in P  BY <1>4, <1>5 DEF TotalRun
<1>7. ASSUME NEW k \in 1..Len(units), k - 1 \in P PROVE k \in P
  <2>1. g[k] = g[k - 1] + units[k]  BY <1>5 DEF TotalRun
  <2>. QED BY <1>4, <1>7, <2>1
<1>. HIDE DEF P
<1>8. \A k \in 0..Len(units) : k \in P  BY <1>4, <1>6, <1>7, BoundedInduction
<1>9. g \in [0..Len(units) -> Nat]  BY <1>5, <1>8 DEF P, TotalRun
<1>10. ASSUME NEW k \in 1..Len(units)
       PROVE  /\ g[k - 1] <= g[k]
              /\ UnitText(nodes, n, k) \in Rising(n, g[k - 1], g[k])
  <2>1. k - 1 \in 0..Len(units) /\ k \in 0..Len(units)  BY <1>4
  <2>2. g[k - 1] \in Nat /\ g[k] = g[k - 1] + units[k]
    BY <1>5, <1>9, <2>1 DEF TotalRun
  <2>3. Total(SubSeq(units, 1, k - 1)) = g[k - 1]
    BY <1>3, <1>5, <2>1, TotalOfPart
  <2>4. UnitText(nodes, n, k) = Tokens(n, g[k - 1], units[k])
    BY <1>2, <2>3 DEF UnitText
  <2>5. PICK x \in Nat, u \in Nat : x = g[k - 1] /\ u = units[k]  BY <1>4, <2>2
  <2>6. Tokens(n, x, u) \in Rising(n, x, x + u)  BY <1>1, TokensRise
  <2>7. g[k] = x + u  BY <2>2, <2>5
  <2>8. g[k - 1] <= g[k]  BY <2>5, <2>7
  <2>. QED BY <2>4, <2>5, <2>6, <2>7, <2>8
<1>. QED BY <1>2, <1>4, <1>5, <1>9, <1>10 DEF Offsets, TotalRun

-----------------------------------------------------------------------------
(* The pieces of one node, in order and without a token twice.             *)
RisingPieces(n, h) == {p \in Piece : p.text \in Rising(n, 0, h)}

(* Lines with the header row before them.                                  *)
LEMMA UnderHeaderRises ==
  ASSUME NEW n \in Int, NEW l \in Nat, NEW h \in Nat, l <= h,
         NEW header \in Rising(n, 0, l),
         NEW piece \in Piece, piece.text \in Rising(n, l, h)
  PROVE  UnderHeader(header, piece) \in RisingPieces(n, h)
<1>1. header \in Text  BY RisingIsText
<1>2. UnderHeader(header, piece) \in Piece  BY <1>1, UnderHeaderIsPiece
<1>3. header \o piece.text \in Rising(n, 0, h)  BY ConcatRises
<1>4. piece.text \in Rising(n, 0, h)  BY RisingWidens
<1>5. UnderHeader(header, piece).text \in Rising(n, 0, h)
  BY <1>3, <1>4 DEF UnderHeader
<1>. QED BY <1>2, <1>5 DEF RisingPieces

(* packSourceUnits over the units of one node.                             *)
LEMMA PackSourceUnitsRise ==
  ASSUME NEW n \in Int, NEW maxTokens, NEW units \in Seq(Text),
         NEW b \in [0..Len(units) -> Nat],
         \A k \in 1..Len(units) : /\ b[k - 1] <= b[k]
                                  /\ units[k] \in Rising(n, b[k - 1], b[k]),
         NEW header \in Rising(n, 0, b[0])
  PROVE  PackSourceUnits(units, header, maxTokens)
             \in Seq(RisingPieces(n, b[Len(units)]))
<1>1. Len(units) \in Nat  BY LenProperties
<1>2. PICK m \in Nat : m = Len(units)  BY <1>1
<1>3. b \in [0..m -> Nat] /\ 0 \in 0..m  BY <1>2
<1>4. header \in Text  BY <1>3, RisingIsText
<1>5. PICK g : PackUnitsRun(g, units, header, maxTokens)
  BY <1>4, PackUnitsRuns
<1>. DEFINE Sound(k) ==
                /\ b[0] <= b[k]
                /\ g[k].pieces \in Seq(RisingPieces(n, b[k]))
                /\ g[k].pending.text \in Rising(n, b[0], b[k])
            P == {k \in 0..m : Sound(k)}
<1>6. 0 \in P
  <2>1. g[0] = [pieces |-> <<>>, pending |-> NoLines]  BY <1>5 DEF PackUnitsRun
  <2>2. <<>> \in Rising(n, b[0], b[0]) /\ <<>> \in Seq(RisingPieces(n, b[0]))
    <3>1. Len(<<>>) = 0 /\ 1..0 = {}  OBVIOUS
    <3>. QED BY <3>1, EmptySeq DEF Rising
  <2>3. b[0] <= b[0]  BY <1>3
  <2>4. g[0].pieces = <<>> /\ g[0].pending.text = <<>>  BY <2>1 DEF NoLines
  <2>5. Sound(0)  BY <2>2, <2>3, <2>4
  <2>. HIDE DEF Sound
  <2>. QED BY <1>3, <2>5
<1>7. ASSUME NEW k \in 1..m, k - 1 \in P PROVE k \in P
  <2>1. k - 1 \in 0..m /\ k \in 0..m  BY <1>7
  <2>2. PICK l \in Nat : l = b[0]  BY <1>3
  <2>3. PICK x \in Nat : x = b[k - 1]  BY <1>3, <2>1
  <2>4. PICK y \in Nat : y = b[k]  BY <1>3, <2>1
  <2>5. PICK acc \in [pieces : Seq(Piece), pending : Piece] : acc = g[k - 1]
    BY <1>2, <1>5, <2>1 DEF PackUnitsRun
  <2>6. /\ l <= x /\ acc.pieces \in Seq(RisingPieces(n, x))
        /\ acc.pending.text \in Rising(n, l, x)
    BY <1>7, <2>2, <2>3, <2>5
  <2>7. x <= y /\ units[k] \in Rising(n, x, y)  BY <1>2, <2>3, <2>4
  <2>8. g[k] = PackUnit(acc, units[k], header, maxTokens)
    BY <1>2, <1>5, <2>5 DEF PackUnitsRun
  <2>9. header \in Rising(n, 0, l)  BY <2>2
  <2>. DEFINE under == UnderHeader(header, acc.pending)
              more == Append(acc.pieces, under)
              text == acc.pending.text \o units[k]
  <2>10. under \in RisingPieces(n, x)  BY <2>5, <2>6, <2>9, UnderHeaderRises
  <2>11. RisingPieces(n, x) \subseteq RisingPieces(n, y)
    BY <2>7, RisingWidens DEF RisingPieces
  <2>12. acc.pieces \in Seq(RisingPieces(n, y)) /\ under \in RisingPieces(n, y)
    BY <2>6, <2>10, <2>11, SeqMonotonic
  <2>. HIDE DEF under
  <2>13. more \in Seq(RisingPieces(n, y))  BY <2>12, AppendProperties
  <2>14. text \in Rising(n, l, y)  BY <2>6, <2>7, ConcatRises
  <2>15. units[k] \in Rising(n, l, y)  BY <2>6, <2>7, RisingWidens
  <2>16. /\ g[k].pieces \in {acc.pieces, more}
         /\ g[k].pending.text \in {text, units[k]}
    BY <2>8 DEF PackUnit, Line, under
  <2>. HIDE DEF more, text
  <2>17. g[k].pieces \in Seq(RisingPieces(n, y))  BY <2>12, <2>13, <2>16
  <2>18. g[k].pending.text \in Rising(n, l, y)  BY <2>14, <2>15, <2>16
  <2>19. l <= y  BY <2>6, <2>7
  <2>. QED BY <2>1, <2>2, <2>4, <2>17, <2>18, <2>19
<1>. HIDE DEF P
<1>8. m \in P
  <2>1. \A k \in 0..m : k \in P  BY <1>2, <1>6, <1>7, BoundedInduction
  <2>. QED BY <1>2, <2>1
<1>9. PICK end \in [pieces : Seq(Piece), pending : Piece] :
          end = PackUnits(units, header, maxTokens) /\ end = g[m]
  BY <1>2, <1>5 DEF PackUnitsRun
<1>10. PICK l \in Nat, y \in Nat : l = b[0] /\ y = b[m]  BY <1>3
<1>11. /\ l <= y /\ end.pieces \in Seq(RisingPieces(n, y))
       /\ end.pending.text \in Rising(n, l, y)
  BY <1>8, <1>9, <1>10 DEF P
<1>12. header \in Rising(n, 0, l)  BY <1>10
<1>13. UnderHeader(header, end.pending) \in RisingPieces(n, y)
  BY <1>9, <1>11, <1>12, UnderHeaderRises
<1>14. Append(end.pieces, UnderHeader(header, end.pending))
           \in Seq(RisingPieces(n, y))
  BY <1>11, <1>13, AppendProperties
<1>15. PackSourceUnits(units, header, maxTokens)
           \in {end.pieces, Append(end.pieces, UnderHeader(header, end.pending))}
  BY <1>9 DEF PackSourceUnits
<1>. QED BY <1>2, <1>10, <1>11, <1>14, <1>15

-----------------------------------------------------------------------------
(* The chunks that MergesAreSound asks for.                                *)

(* Every token of such a chunk stands under the chunk's headings.          *)
InSections(nodes) ==
    {c \in Chunks(Titles(nodes)) :
        c.text \in Seq({t \in Tok : HeadingPath(nodes, t[1]) = c.headingPath})}

(* Over the ceiling are only pieces of one table or one list, or of a code *)
(* block that has room for its text, none of which has a token twice.      *)
WithinCeiling(nodes, maxTokens) ==
    {c \in Chunks(Titles(nodes)) :
        c.tokenCount > maxTokens =>
            \E n \in DOMAIN nodes :
                /\ nodes[n].kind \in {"table", "list", "code"}
                /\ nodes[n].kind = "code" =>
                       Len(c.text) + Fence(nodes, n) <= maxTokens
                /\ c.text \in Rising(n, 0, Total(nodes[n].units))}

SoundChunks(nodes, format, maxTokens) ==
    IF format = "markdown"
    THEN InSections(nodes) \cap WithinCeiling(nodes, maxTokens)
    ELSE WithinCeiling(nodes, maxTokens)

(* The text of a node.                                                     *)
LEMMA NodeTextRises ==
  ASSUME NEW nodes, IsParsed(nodes), NEW n \in DOMAIN nodes
  PROVE  /\ n \in Int /\ Total(nodes[n].units) \in Nat
         /\ NodeText(nodes, n) \in Rising(n, 0, Total(nodes[n].units))
<1>1. n \in Int  BY DEF IsParsed
<1>2. PICK g : Offsets(g, nodes, n)  BY UnitsRise
<1>3. PICK T : T = Total(nodes[n].units)  OBVIOUS
<1>4. T \in Nat  BY <1>2, <1>3 DEF Offsets
<1>5. Tokens(n, 0, T) \in Rising(n, 0, 0 + T)  BY <1>1, <1>4, TokensRise
<1>6. 0 + T = T  BY <1>4
<1>. QED BY <1>1, <1>3, <1>4, <1>5, <1>6 DEF NodeText

(* The text of any other piece than a table's or list's has room.          *)
ShortPieces(n, h, m) ==
    {p \in Piece : /\ p.lines = 1
                   /\ p.text \in Rising(n, 0, h)
                   /\ Len(p.text) <= m}

(* A part of a text with no token twice has no token twice.                *)
LEMMA CutsRise ==
  ASSUME NEW n, NEW h \in Nat, NEW text \in Rising(n, 0, h), NEW m \in Nat,
         NEW t \in Cuts(text, {n} \X (1..h), m)
  PROVE  t \in Rising(n, 0, h) /\ Len(t) <= m
<1>1. {n} \X ((0 + 1)..h) = {n} \X (1..h)  OBVIOUS
<1>2. PICK x \in Nat : \A i \in 1..Len(t) : /\ x + i \in 1..Len(text)
                                          /\ t[i] = text[x + i]
  BY DEF Cuts
<1>3. t \in Seq({n} \X ((0 + 1)..h)) /\ Len(t) <= m  BY <1>1 DEF Cuts
<1>4. ASSUME NEW i \in 1..Len(t), NEW j \in 1..Len(t), i < j
      PROVE  t[i][2] < t[j][2]
  <2>1. PICK p \in 1..Len(text), q \in 1..Len(text) : p = x + i /\ q = x + j
    BY <1>2
  <2>2. p < q  BY <1>4, <2>1
  <2>. QED BY <1>2, <2>1, <2>2 DEF Rising
<1>. QED BY <1>3, <1>4 DEF Rising

(* A node above the ceiling: the rows of a table below its first, which    *)
(* the parser always gives, the items of a list, or any cut of another.    *)
LEMMA OversizeNodeIsCut ==
  ASSUME NEW nodes, IsParsed(nodes), NEW n \in DOMAIN nodes,
         NEW maxTokens \in Nat, maxTokens > 1
  PROVE  SplitOversizeNode(nodes, n, maxTokens) \in
             IF nodes[n].kind \in {"table", "list"}
             THEN Seq(RisingPieces(n, Total(nodes[n].units)))
             ELSE Seq(ShortPieces(n, Total(nodes[n].units),
                                  maxTokens - Fence(nodes, n)))
<1>. DEFINE units == [k \in DOMAIN nodes[n].units |-> UnitText(nodes, n, k)]
            m     == maxTokens - Fence(nodes, n)
            cut   == SplitText(NodeText(nodes, n), m)
            lines == [k \in DOMAIN cut |-> Line(cut[k])]
<1>1. n \in Int  BY DEF IsParsed
<1>2. PICK T \in Nat : T = Total(nodes[n].units)  BY NodeTextRises
<1>3. PICK g : Offsets(g, nodes, n)  BY UnitsRise
<1>4. PICK c \in Nat : c = Len(nodes[n].units)  BY <1>3 DEF Offsets
<1>5. /\ g \in [0..c -> Nat] /\ g[0] = 0 /\ g[c] = T
      /\ DOMAIN nodes[n].units = 1..c
      /\ \A k \in 1..c : /\ g[k - 1] <= g[k]
                         /\ UnitText(nodes, n, k) \in Rising(n, g[k - 1], g[k])
  BY <1>2, <1>3, <1>4 DEF Offsets
<1>6. units \in [1..c -> Text]
  <2>1. ASSUME NEW k \in 1..c PROVE UnitText(nodes, n, k) \in Text
    <3>1. k - 1 \in 0..c /\ k \in 0..c  BY <1>4
    <3>2. g[k - 1] \in Int /\ g[k] \in Int  BY <1>5, <3>1
    <3>. QED BY <1>1, <1>5, <3>2, RisingIsText
  <2>. QED BY <1>5, <2>1
<1>7. units \in Seq(Text) /\ Len(units) = c  BY <1>6, IsASeq
<1>8. \A k \in 1..c : units[k] = UnitText(nodes, n, k)  BY <1>5
<1>9. m \in Nat \ {0}  BY DEF Fence
<1>. HIDE DEF units, m
<1>10. CASE nodes[n].kind = "table"
  <2>1. c # 0 /\ units # <<>>
    <3>1. c # 0  BY <1>4, <1>10, EmptySeq, LenProperties DEF IsParsed
    <3>. QED BY <1>7, <3>1, EmptySeq
  <2>2. /\ Tail(units) \in Seq(Text) /\ Len(Tail(units)) = c - 1
        /\ \A k \in 1..(c - 1) : Tail(units)[k] = units[k + 1]
        /\ Head(units) = units[1]
    BY <1>7, <2>1, HeadTailProperties
  <2>3. PICK us \in Seq(Text) : us = Tail(units)  BY <2>2
  <2>. DEFINE b == [k \in 0..(c - 1) |-> g[k + 1]]
  <2>4. b \in [0..Len(us) -> Nat] /\ b[0] = g[1] /\ b[Len(us)] = T
    <3>1. c - 1 \in Nat /\ \A k \in 0..(c - 1) : k + 1 \in 0..c  BY <2>1
    <3>2. Len(us) = c - 1 /\ c - 1 + 1 = c /\ 0 + 1 = 1  BY <2>2, <2>3
    <3>. QED BY <1>5, <3>1, <3>2
  <2>5. ASSUME NEW k \in 1..Len(us)
        PROVE  /\ b[k - 1] <= b[k]
               /\ us[k] \in Rising(n, b[k - 1], b[k])
    <3>1. k \in 1..(c - 1) /\ k + 1 \in 1..c  BY <2>1, <2>2, <2>3
    <3>2. k - 1 \in 0..(c - 1) /\ k \in 0..(c - 1)  BY <2>1, <3>1
    <3>3. k - 1 + 1 = k /\ k + 1 - 1 = k  BY <3>1
    <3>4. b[k - 1] = g[k] /\ b[k] = g[k + 1]  BY <3>2, <3>3
    <3>5. us[k] = UnitText(nodes, n, k + 1)  BY <1>8, <2>2, <2>3, <3>1
    <3>. HIDE DEF b
    <3>. QED BY <1>5, <3>1, <3>3, <3>4, <3>5
  <2>6. Head(units) \in Rising(n, 0, b[0])
    <3>1. 1 \in 1..c /\ 1 - 1 = 0  BY <2>1
    <3>. QED BY <1>5, <1>8, <2>2, <2>4, <3>1
  <2>. HIDE DEF b
  <2>7. PackSourceUnits(us, Head(units), maxTokens)
            \in Seq(RisingPieces(n, b[Len(us)]))
    BY <1>1, <2>4, <2>5, <2>6, PackSourceUnitsRise
  <2>8. SplitOversizeNode(nodes, n, maxTokens)
            = PackSourceUnits(us, Head(units), maxTokens)
    BY <1>10, <2>3 DEF SplitOversizeNode, units
  <2>. QED BY <1>2, <1>10, <2>4, <2>7, <2>8
<1>11. CASE nodes[n].kind # "table" /\ nodes[n].kind = "list"
  <2>1. <<>> \in Rising(n, 0, g[0])
    <3>1. Len(<<>>) = 0 /\ 1..0 = {}  OBVIOUS
    <3>. QED BY <3>1, EmptySeq DEF Rising
  <2>2. /\ g \in [0..Len(units) -> Nat]
        /\ \A k \in 1..Len(units) : /\ g[k - 1] <= g[k]
                                    /\ units[k] \in Rising(n, g[k - 1], g[k])
    BY <1>5, <1>7, <1>8
  <2>3. PackSourceUnits(units, <<>>, maxTokens)
            \in Seq(RisingPieces(n, g[Len(units)]))
    BY <1>1, <1>7, <2>1, <2>2, PackSourceUnitsRise
  <2>4. SplitOversizeNode(nodes, n, maxTokens)
            = PackSourceUnits(units, <<>>, maxTokens)
    BY <1>11 DEF SplitOversizeNode, units
  <2>. QED BY <1>2, <1>5, <1>7, <1>11, <2>3, <2>4
<1>12. CASE nodes[n].kind \notin {"table", "list"}
  <2>1. PICK text \in Rising(n, 0, T) : text = NodeText(nodes, n)
    BY <1>2, NodeTextRises
  <2>. DEFINE S == {n} \X (1..T)
              Short == Cuts(text, S, m)
  <2>2. text \in Seq(S)
    <3>1. {n} \X ((0 + 1)..T) = S  OBVIOUS
    <3>. QED BY <2>1, <3>1 DEF Rising
  <2>. HIDE DEF S
  <2>3. cut \in Seq(Short)  BY <1>9, <2>1, <2>2, SplitFits
  <2>. HIDE DEF cut, Short
  <2>4. /\ DOMAIN cut = 1..Len(cut) /\ Len(cut) \in Nat
        /\ \A k \in 1..Len(cut) : cut[k] \in Short
    BY <2>3, LenProperties, ElementOfSeq
  <2>5. ASSUME NEW t \in Short PROVE Line(t) \in ShortPieces(n, T, m)
    <3>1. t \in Rising(n, 0, T) /\ Len(t) <= m
      BY <1>9, <2>5, CutsRise DEF Short, S
    <3>2. t \in Text  BY <1>1, <3>1, RisingIsText
    <3>. QED BY <3>1, <3>2 DEF Line, ShortPieces, Piece
  <2>6. lines \in [1..Len(cut) -> ShortPieces(n, T, m)]  BY <2>4, <2>5
  <2>7. lines \in Seq(ShortPieces(n, T, m))  BY <2>4, <2>6, IsASeq
  <2>. HIDE DEF lines
  <2>8. SplitOversizeNode(nodes, n, maxTokens) = lines
    BY <1>12 DEF SplitOversizeNode, lines, cut, m
  <2>. QED BY <1>2, <1>12, <2>7, <2>8 DEF m
<1>. QED BY <1>10, <1>11, <1>12

-----------------------------------------------------------------------------
(* A node becomes chunks of its own section.                               *)
LEMMA NodeIsSound ==
  ASSUME NEW nodes, IsParsed(nodes), NEW n \in DOMAIN nodes,
         NEW o, IsOptions(o)
  PROVE  ChunkNode(nodes, n, o)
             \in Seq(SoundChunks(nodes, "markdown", o.maxTokens))
<1>. DEFINE C == SoundChunks(nodes, "markdown", o.maxTokens)
            ChunkOf(piece) == Chunk(piece.text,
                                    CountTokens(piece, o)
                                        + FenceTokens(nodes, n, piece.text, o),
                                    HeadingPath(nodes, n))
            whole  == [text |-> NodeText(nodes, n),
                       lines |-> Len(nodes[n].units)]
            pieces == SplitOversizeNode(nodes, n, o.maxTokens)
            cut == [i \in DOMAIN pieces |-> ChunkOf(pieces[i])]
<1>1. PICK path \in Seq(Titles(nodes)) : path = HeadingPath(nodes, n)
  BY PathIsOfTitles
<1>2. PICK T \in Nat : T = Total(nodes[n].units)  BY NodeTextRises
<1>3. n \in Int /\ NodeText(nodes, n) \in Rising(n, 0, T)
  BY <1>2, NodeTextRises
<1>4. PICK S : S = {n} \X (1..T)  OBVIOUS
<1>5. \A t \in Rising(n, 0, T) : t \in Seq(S)
  <2>1. {n} \X ((0 + 1)..T) = S  BY <1>4
  <2>. QED BY <2>1 DEF Rising
<1>6. ASSUME NEW piece \in Piece, piece.text \in Seq(S)
      PROVE  ChunkOf(piece) \in InSections(nodes)
  <2>1. Len(piece.text) \in Int  BY LenProperties DEF Piece, Text
  <2>2. (piece.lines - 1) * o.join \in Int  BY DEF Piece, IsOptions
  <2>3. CountTokens(piece, o) + FenceTokens(nodes, n, piece.text, o) \in Int
    <3>1. FenceTokens(nodes, n, piece.text, o) \in Int
      BY DEF FenceTokens, Fence, IsOptions
    <3>2. CountTokens(piece, o) \in Int  BY <2>1, <2>2 DEF CountTokens
    <3>. QED BY <3>1, <3>2
  <2>4. ChunkOf(piece) \in Chunks(Titles(nodes))
    BY <1>1, <2>3 DEF Chunk, Chunks, Piece
  <2>5. S \subseteq {t \in Tok : HeadingPath(nodes, t[1]) = path}
    BY <1>1, <1>3, <1>4 DEF Tok
  <2>6. piece.text \in Seq({t \in Tok : HeadingPath(nodes, t[1]) = path})
    BY <1>6, <2>5, SeqMonotonic
  <2>7. ChunkOf(piece).text = piece.text /\ ChunkOf(piece).headingPath = path
    BY <1>1 DEF Chunk
  <2>. HIDE DEF ChunkOf
  <2>. QED BY <2>4, <2>6, <2>7 DEF InSections
<1>7. ASSUME NEW c \in InSections(nodes),
             \/ c.tokenCount <= o.maxTokens
             \/ /\ nodes[n].kind \in {"table", "list", "code"}
                /\ nodes[n].kind = "code" =>
                       Len(c.text) + Fence(nodes, n) <= o.maxTokens
                /\ c.text \in Rising(n, 0, T)
      PROVE  c \in C
  <2>1. c.tokenCount \in Int /\ o.maxTokens \in Int
    BY DEF InSections, Chunks, IsOptions
  <2>2. c \in WithinCeiling(nodes, o.maxTokens)
    BY <1>2, <1>7, <2>1 DEF InSections, WithinCeiling
  <2>. QED BY <2>2 DEF SoundChunks
<1>8. ASSUME ChunkOf(whole).tokenCount <= o.maxTokens
      PROVE  <<ChunkOf(whole)>> \in Seq(C)
  <2>1. Len(nodes[n].units) \in Int  BY LenProperties DEF IsParsed
  <2>2. whole \in Piece /\ whole.text \in Seq(S)
    BY <1>3, <1>5, <2>1, RisingIsText DEF Piece
  <2>3. ChunkOf(whole) \in C  BY <1>6, <1>7, <1>8, <2>2
  <2>. HIDE DEF C, ChunkOf, whole
  <2>. QED BY <2>3
<1>9. cut \in Seq(C)
  <2>1. ASSUME NEW Q, pieces \in Seq(Q), \A p \in Q : ChunkOf(p) \in C
        PROVE  cut \in Seq(C)
    <3>. HIDE DEF C, ChunkOf, pieces
    <3>1. /\ DOMAIN pieces = 1..Len(pieces) /\ Len(pieces) \in Nat
          /\ \A k \in 1..Len(pieces) : pieces[k] \in Q
      BY <2>1, LenProperties, ElementOfSeq
    <3>2. cut \in [1..Len(pieces) -> C]  BY <2>1, <3>1
    <3>. QED BY <3>1, <3>2, IsASeq
  <2>2. CASE nodes[n].kind \in {"table", "list"}
    <3>1. pieces \in Seq(RisingPieces(n, T))
      BY <1>2, <2>2, OversizeNodeIsCut DEF IsOptions
    <3>2. ASSUME NEW p \in RisingPieces(n, T) PROVE ChunkOf(p) \in C
      <4>1. p \in Piece /\ p.text \in Rising(n, 0, T)  BY DEF RisingPieces
      <4>2. ChunkOf(p) \in InSections(nodes)  BY <1>5, <1>6, <4>1
      <4>3. ChunkOf(p).text = p.text  BY DEF Chunk
      <4>. HIDE DEF ChunkOf, C
      <4>. QED BY <1>7, <2>2, <4>1, <4>2, <4>3
    <3>. HIDE DEF C, ChunkOf, pieces
    <3>. QED BY <2>1, <3>1, <3>2
  <2>3. CASE nodes[n].kind \notin {"table", "list"}
    <3>. DEFINE m == o.maxTokens - Fence(nodes, n)
    <3>1. pieces \in Seq(ShortPieces(n, T, m))
      BY <1>2, <2>3, OversizeNodeIsCut DEF IsOptions
    <3>2. ASSUME NEW p \in ShortPieces(n, T, m) PROVE ChunkOf(p) \in C
      <4>1. /\ p \in Piece /\ p.lines = 1 /\ p.text \in Rising(n, 0, T)
            /\ p.text \in Seq(S) /\ Len(p.text) <= m
        BY <1>5 DEF ShortPieces
      <4>2. ChunkOf(p) \in InSections(nodes)  BY <1>6, <4>1
      <4>3. Len(p.text) \in Nat /\ o.maxTokens \in Int
        BY <4>1, LenProperties DEF IsOptions
      <4>4. CASE nodes[n].kind = "code"
        <5>1. PICK f \in Int : f = Fence(nodes, n)  BY DEF Fence
        <5>2. Len(p.text) + f <= o.maxTokens  BY <4>1, <4>3, <5>1
        <5>3. ChunkOf(p).text = p.text  BY DEF Chunk
        <5>. HIDE DEF ChunkOf, C
        <5>. QED BY <1>7, <4>1, <4>2, <4>4, <5>1, <5>2, <5>3
      <4>5. CASE nodes[n].kind # "code"
        <5>1. CountTokens(p, o) = Len(p.text)
          BY <4>1, <4>3 DEF CountTokens, IsOptions
        <5>2. Len(p.text) <= o.maxTokens  BY <4>1, <4>3, <4>5 DEF Fence
        <5>3. FenceTokens(nodes, n, p.text, o) = 0  BY <4>5 DEF FenceTokens
        <5>4. ChunkOf(p).tokenCount = Len(p.text) + 0
          BY <5>1, <5>3 DEF Chunk
        <5>5. ChunkOf(p).tokenCount <= o.maxTokens  BY <4>3, <5>2, <5>4
        <5>. HIDE DEF ChunkOf, C
        <5>. QED BY <1>7, <4>2, <5>5
      <4>. HIDE DEF ChunkOf, C
      <4>. QED BY <4>4, <4>5
    <3>. HIDE DEF C, ChunkOf, pieces, m
    <3>. QED BY <2>1, <3>1, <3>2
  <2>. QED BY <2>2, <2>3
<1>10. ChunkNode(nodes, n, o) = IF ChunkOf(whole).tokenCount <= o.maxTokens
                                THEN <<ChunkOf(whole)>> ELSE cut
  BY DEF ChunkNode
<1>. HIDE DEF C, ChunkOf, whole, cut
<1>. QED BY <1>8, <1>9, <1>10 DEF C

(* So does a document, node by node or as one text.                        *)
LEMMA BodyIsSound ==
  ASSUME NEW nodes, IsParsed(nodes), NEW o, IsOptions(o)
  PROVE  /\ ChunkMarkdown(nodes, o)
                \in Seq(SoundChunks(nodes, "markdown", o.maxTokens))
         /\ ChunkText(nodes, o) \in Seq(WithinCeiling(nodes, o.maxTokens))
<1>. DEFINE C == SoundChunks(nodes, "markdown", o.maxTokens)
            D == WithinCeiling(nodes, o.maxTokens)
            each == [n \in DOMAIN nodes |-> ChunkNode(nodes, n, o)]
            texts == [n \in DOMAIN nodes |-> NodeText(nodes, n)]
            text == FlattenSeq(texts)
            pieces == SplitText(text, o.maxTokens)
            Short == Cuts(text, Tok, o.maxTokens)
            cut == [i \in DOMAIN pieces |->
                       Chunk(pieces[i], Len(pieces[i]), <<>>)]
<1>1. Len(nodes) \in Nat /\ DOMAIN nodes = 1..Len(nodes)  BY DEF IsParsed
<1>2. ChunkMarkdown(nodes, o) \in Seq(C)
  <2>1. each \in [1..Len(nodes) -> Seq(C)]  BY <1>1, NodeIsSound
  <2>. HIDE DEF C
  <2>2. each \in Seq(Seq(C))  BY <1>1, <2>1, IsASeq
  <2>. QED BY <2>2, FlattenIsSequence DEF ChunkMarkdown
<1>3. ChunkText(nodes, o) \in Seq(D)
  <2>1. ASSUME NEW n \in DOMAIN nodes PROVE NodeText(nodes, n) \in Text
    BY NodeTextRises, RisingIsText
  <2>2. texts \in [1..Len(nodes) -> Seq(Tok)]  BY <1>1, <2>1 DEF Text
  <2>3. texts \in Seq(Seq(Tok))  BY <1>1, <2>2, IsASeq
  <2>4. text \in Seq(Tok)  BY <2>3, FlattenIsSequence
  <2>5. o.maxTokens \in Nat \ {0}  BY DEF IsOptions
  <2>6. pieces \in Seq(Short)  BY <2>4, <2>5, SplitFits
  <2>. HIDE DEF pieces
  <2>7. /\ DOMAIN pieces = 1..Len(pieces) /\ Len(pieces) \in Nat
        /\ \A k \in 1..Len(pieces) : pieces[k] \in Short
    BY <2>6, LenProperties, ElementOfSeq
  <2>8. ASSUME NEW t \in Short PROVE Chunk(t, Len(t), <<>>) \in D
    <3>1. t \in Seq(Tok) /\ Len(t) \in Nat /\ Len(t) <= o.maxTokens
      BY LenProperties DEF Cuts
    <3>2. <<>> \in Seq(Titles(nodes))  OBVIOUS
    <3>3. Chunk(t, Len(t), <<>>) \in Chunks(Titles(nodes))
      BY <3>1, <3>2 DEF Chunk, Chunks, Text
    <3>4. ~(Chunk(t, Len(t), <<>>).tokenCount > o.maxTokens)
      BY <2>5, <3>1 DEF Chunk
    <3>. QED BY <3>3, <3>4 DEF WithinCeiling
  <2>. HIDE DEF D, Short
  <2>9. cut \in [1..Len(pieces) -> D]  BY <2>7, <2>8
  <2>10. cut \in Seq(D)  BY <2>7, <2>9, IsASeq
  <2>. QED BY <2>10 DEF ChunkText, pieces
<1>. QED BY <1>2, <1>3

(* Such chunks stay such chunks when they merge.                           *)
LEMMA SoundChunksMerge ==
  ASSUME NEW nodes, NEW format, NEW o, IsOptions(o)
  PROVE  Mergeable(SoundChunks(nodes, format, o.maxTokens), o, Titles(nodes))
<1>. DEFINE H == Titles(nodes)
            C == SoundChunks(nodes, format, o.maxTokens)
<1>1. C \subseteq Chunks(H)  BY DEF SoundChunks, InSections, WithinCeiling
<1>2. ASSUME NEW s \in Seq(C), s # <<>>, OnePath(s),
             JoinChunks(s, o).tokenCount <= o.maxTokens
      PROVE  JoinChunks(s, o) \in C
  <2>1. s \in Seq(Chunks(H))
    <3>. HIDE DEF C, H
    <3>. QED BY <1>1, SeqMonotonic
  <2>2. PICK c \in Chunks(H) : c = JoinChunks(s, o)  BY <1>2, <2>1, JoinIsChunk
  <2>3. c \in WithinCeiling(nodes, o.maxTokens)
    BY <1>2, <2>2 DEF WithinCeiling, Chunks, IsOptions
  <2>4. CASE format = "markdown"
    <3>1. PICK p : p = s[1].headingPath  OBVIOUS
    <3>2. c.headingPath = p
      <4>1. SharedPath(s) = p  BY <1>2, <2>1, <3>1, SectionKeepsPath
      <4>. QED BY <2>2, <4>1 DEF JoinChunks, Chunk
    <3>. DEFINE S == {t \in Tok : HeadingPath(nodes, t[1]) = p}
                texts == [i \in DOMAIN s |-> s[i].text]
    <3>3. /\ Len(s) \in Nat /\ DOMAIN s = 1..Len(s)
          /\ \A i \in 1..Len(s) : s[i] \in C
      <4>. HIDE DEF C
      <4>. QED BY LenProperties, ElementOfSeq
    <3>4. ASSUME NEW i \in 1..Len(s) PROVE s[i].text \in Seq(S)
      <4>1. s[i] \in InSections(nodes)  BY <2>4, <3>3 DEF SoundChunks
      <4>2. s[i].headingPath = p  BY <1>2, <3>1 DEF OnePath
      <4>. QED BY <4>1, <4>2 DEF InSections
    <3>. HIDE DEF S
    <3>5. texts \in [1..Len(s) -> Seq(S)]  BY <3>3, <3>4
    <3>6. texts \in Seq(Seq(S))  BY <3>3, <3>5, IsASeq
    <3>. HIDE DEF texts
    <3>7. FlattenSeq(texts) \in Seq(S)  BY <3>6, FlattenIsSequence
    <3>8. c.text = FlattenSeq(texts)  BY <2>2 DEF JoinChunks, Chunk, texts
    <3>9. c \in InSections(nodes)  BY <3>2, <3>7, <3>8 DEF InSections, S
    <3>. QED BY <2>2, <2>3, <2>4, <3>9 DEF SoundChunks
  <2>5. CASE format # "markdown"  BY <2>2, <2>3, <2>5 DEF SoundChunks
  <2>. QED BY <2>4, <2>5
<1>. HIDE DEF C, H
<1>. QED BY <1>1, <1>2 DEF Mergeable, C, H

(* And they are what MergesAreSound says of them.                          *)
LEMMA SoundChunksAreApart ==
  ASSUME NEW nodes, IsParsed(nodes), NEW format, NEW o,
         NEW chunks \in Seq(SoundChunks(nodes, format, o.maxTokens))
  PROVE  /\ format = "markdown" => SectionsStayApart(nodes, chunks)
         /\ ChunksFit(nodes, chunks, o)
<1>. DEFINE C == SoundChunks(nodes, format, o.maxTokens)
<1>1. DOMAIN chunks = 1..Len(chunks)
      /\ \A i \in 1..Len(chunks) : chunks[i] \in C
  BY LenProperties, ElementOfSeq
<1>2. ASSUME format = "markdown" PROVE SectionsStayApart(nodes, chunks)
  <2>1. ASSUME NEW i \in DOMAIN chunks, NEW t \in ToSet(chunks[i].text)
        PROVE  chunks[i].headingPath = HeadingPath(nodes, t[1])
    <3>1. PICK c \in InSections(nodes) : c = chunks[i]
      BY <1>1, <1>2 DEF SoundChunks
    <3>2. PICK j \in DOMAIN c.text : t = c.text[j]  BY <2>1, <3>1 DEF ToSet
    <3>. DEFINE S == {u \in Tok : HeadingPath(nodes, u[1]) = c.headingPath}
    <3>3. c.text \in Seq(S)  BY DEF InSections
    <3>. HIDE DEF S
    <3>4. c.text[j] \in S  BY <3>2, <3>3, LenProperties, ElementOfSeq
    <3>. QED BY <3>1, <3>2, <3>4 DEF S
  <2>. QED BY <2>1 DEF SectionsStayApart
<1>3. ChunksFit(nodes, chunks, o)
  <2>1. ASSUME NEW i \in DOMAIN chunks, chunks[i].tokenCount > o.maxTokens
        PROVE  \E n \in DOMAIN nodes :
                   /\ nodes[n].kind \in {"table", "list", "code"}
                   /\ nodes[n].kind = "code" =>
                          Len(chunks[i].text) + Fence(nodes, n) <= o.maxTokens
                   /\ ToSet(chunks[i].text) \subseteq ToSet(NodeText(nodes, n))
                   /\ \A j \in DOMAIN chunks[i].text,
                         k \in DOMAIN chunks[i].text :
                          chunks[i].text[j] = chunks[i].text[k] => j = k
    <3>1. PICK c \in WithinCeiling(nodes, o.maxTokens) : c = chunks[i]
      BY <1>1 DEF SoundChunks
    <3>2. PICK n \in DOMAIN nodes :
              /\ nodes[n].kind \in {"table", "list", "code"}
              /\ nodes[n].kind = "code" =>
                     Len(c.text) + Fence(nodes, n) <= o.maxTokens
              /\ c.text \in Rising(n, 0, Total(nodes[n].units))
      BY <2>1, <3>1 DEF WithinCeiling
    <3>3. PICK T \in Nat : T = Total(nodes[n].units)  BY NodeTextRises
    <3>4. PICK text : text = c.text  OBVIOUS
    <3>. DEFINE S == {n} \X (1..T)
    <3>5. /\ text \in Seq(S)
          /\ \A j \in 1..Len(text), k \in 1..Len(text) :
                 j < k => text[j][2] < text[k][2]
      <4>1. {n} \X ((0 + 1)..T) = S  OBVIOUS
      <4>. QED BY <3>2, <3>3, <3>4, <4>1 DEF Rising
    <3>6. \A x \in S : x[2] \in Int /\ x = <<n, x[2]>> /\ x[2] \in 1..T
      OBVIOUS
    <3>. HIDE DEF S
    <3>7. /\ Len(text) \in Nat /\ DOMAIN text = 1..Len(text)
          /\ \A j \in 1..Len(text) : text[j] \in S
      BY <3>5, LenProperties, ElementOfSeq
    <3>8. ASSUME NEW j \in 1..Len(text), NEW k \in 1..Len(text),
                 text[j] = text[k]
          PROVE  j = k
      <4>1. text[j][2] \in Int  BY <3>6, <3>7
      <4>2. ~(j < k) /\ ~(k < j)  BY <3>5, <3>8, <4>1
      <4>. QED BY <3>7, <4>2
    <3>9. ToSet(text) \subseteq ToSet(NodeText(nodes, n))
      <4>1. NodeText(nodes, n) = [x \in 1..T |-> <<n, 0 + x>>]
        BY <3>3 DEF NodeText, Tokens
      <4>2. ASSUME NEW t \in ToSet(text)
            PROVE  t \in ToSet(NodeText(nodes, n))
        <5>1. PICK j \in DOMAIN text : t = text[j]  BY DEF ToSet
        <5>2. t \in S  BY <3>7, <5>1
        <5>3. t[2] \in 1..T /\ t = <<n, 0 + t[2]>>  BY <3>6, <5>2
        <5>4. t = NodeText(nodes, n)[t[2]]
              /\ t[2] \in DOMAIN NodeText(nodes, n)
          BY <4>1, <5>3
        <5>. QED BY <5>4 DEF ToSet
      <4>. QED BY <4>2
    <3>. QED BY <3>1, <3>2, <3>4, <3>7, <3>8, <3>9
  <2>. QED BY <2>1 DEF ChunksFit
<1>. QED BY <1>2, <1>3

-----------------------------------------------------------------------------
(* Chunks that are joined hold what they held.                             *)
LEMMA JoinHolds ==
  ASSUME NEW chunks, NEW o
  PROVE  JoinChunks(chunks, o).text = TextOf(chunks)
BY DEF JoinChunks, Chunk, TextOf

(* Chunks hold texts.                                                      *)
LEMMA MergeableHoldText ==
  ASSUME NEW H, NEW o, NEW C, Mergeable(C, o, H)
  PROVE  HoldText(C)
BY DEF Mergeable, Chunks, HoldText

(* The loop that empties `pending` stays in the set, and keeps the text.   *)
LEMMA PendingIsMerged ==
  ASSUME NEW H, NEW o, IsOptions(o), NEW C, Mergeable(C, o, H),
         NEW pending \in Seq(C), OnePath(pending)
  PROVE  /\ MergePending(pending, o) \in Seq(C)
         /\ TextOf(MergePending(pending, o)) = TextOf(pending)
<1>. DEFINE n == Len(pending)
            rest(i) == SubSeq(pending, i, n)
            k(i) == MergeLeadingChunks(rest(i), o)
            K == [i \in 1..n |-> k(i)]
            J == [i \in 1..n |-> JoinChunks(SubSeq(rest(i), 1, k(i)), o)]
            Solves(f) == f = [i \in 1..(n + 1) |->
                                 IF i > n THEN <<>>
                                 ELSE <<JoinChunks(SubSeq(rest(i), 1, k(i)), o)>>
                                          \o f[i + k(i)]]
<1>1. n \in Nat  BY LenProperties
<1>2. ASSUME NEW i \in 1..n
      PROVE  /\ rest(i) \in Seq(C) /\ Len(rest(i)) = n - i + 1
             /\ k(i) \in 1..(n - i + 1)
             /\ JoinChunks(SubSeq(rest(i), 1, k(i)), o) \in C
  <2>1. i \in 1..(n + 1) /\ n \in (i - 1)..n /\ i \in Nat \ {0}  BY <1>1
  <2>2. /\ rest(i) \in Seq(C) /\ Len(rest(i)) = n - i + 1
        /\ \A j \in 1..(n - i + 1) : rest(i)[j] = pending[i + j - 1]
    BY <1>1, <2>1, SubSeqProperties
  <2>. HIDE DEF rest
  <2>3. Len(rest(i)) # 0 /\ rest(i) # <<>>  BY <1>1, <2>2, EmptySeq
  <2>4. OnePath(rest(i))
    <3>1. \A j \in 1..(n - i + 1) : i + j - 1 \in 1..n  BY <1>1
    <3>2. 1 \in 1..(n - i + 1)  BY <1>1
    <3>. QED BY <2>2, <3>1, <3>2 DEF OnePath
  <2>5. PICK x \in 1..(n - i + 1) :
            x = k(i) /\ JoinChunks(SubSeq(rest(i), 1, x), o) \in C
    BY <2>2, <2>3, <2>4, LeadingJoin
  <2>. HIDE DEF k
  <2>. QED BY <2>2, <2>5
<1>3. MergePending(pending, o) = (CHOOSE f : Solves(f))[1]  BY DEF MergePending
<1>. HIDE DEF rest, k, n
<1>4. J \in [1..n -> C] /\ \A i \in 1..n : K[i] \in 1..(n - i + 1)  BY <1>2
<1>5. PICK f : Walk(f, C, J, K, n)
  <2>. HIDE DEF J, K
  <2>. QED BY <1>1, <1>4, WalkExists
<1>6. Solves(f)
  <2>1. ASSUME NEW i \in 1..(n + 1)
        PROVE  f[i] = IF i > n THEN <<>>
                      ELSE <<JoinChunks(SubSeq(rest(i), 1, k(i)), o)>>
                               \o f[i + k(i)]
    <3>1. CASE i > n  BY <1>5, <3>1 DEF Walk
    <3>2. CASE ~(i > n)
      <4>1. i \in 1..n  BY <1>1, <3>2
      <4>2. f[i] = <<J[i]>> \o f[i + K[i]]
        <5>. HIDE DEF J, K
        <5>. QED BY <1>5, <3>2 DEF Walk
      <4>. QED BY <3>2, <4>1, <4>2
    <3>. QED BY <3>1, <3>2
  <2>2. f \in [1..(n + 1) -> Seq(C)]
    <3>. HIDE DEF J, K
    <3>. QED BY <1>5 DEF Walk
  <2>. QED BY <2>1, <2>2
<1>. HIDE DEF Solves
<1>7. PICK c : c = CHOOSE g : Solves(g)  OBVIOUS
<1>8. Solves(c)  BY <1>6, <1>7
<1>. DEFINE Kept(i) == /\ c[i] \in Seq(C)
                       /\ TextOf(c[i]) = TextOf(SubSeq(pending, i, n))
            P == {m \in 0..n : \A i \in (n + 1 - m)..(n + 1) : Kept(i)}
<1>9. 0 \in P
  <2>1. c[n + 1] = <<>>  BY <1>1, <1>8 DEF Solves
  <2>2. c[n + 1] \in Seq(C)  BY <2>1
  <2>3. SubSeq(pending, n + 1, n) = <<>>
    <3>1. n + 1 \in Int /\ n \in Int /\ n + 1 > n  BY <1>1
    <3>. QED BY <3>1, SubSeqEmpty
  <2>4. Kept(n + 1)  BY <2>1, <2>2, <2>3
  <2>5. \A i \in (n + 1 - 0)..(n + 1) : i = n + 1  BY <1>1
  <2>. HIDE DEF Kept
  <2>. QED BY <1>1, <2>4, <2>5
<1>10. ASSUME NEW m \in 1..n, m - 1 \in P PROVE m \in P
  <2>1. PICK l : l = n + 1 - m  OBVIOUS
  <2>2. l \in 1..n /\ n + 1 - (m - 1) = l + 1  BY <1>1, <2>1
  <2>3. \A i \in (l + 1)..(n + 1) : Kept(i)  BY <1>10, <2>2
  <2>4. PICK x \in 1..(n - l + 1) : x = k(l)  BY <1>2, <2>2
  <2>5. PICK r \in (l + 1)..(n + 1) : r = l + x  BY <1>1, <2>2, <2>4
  <2>6. PICK lead : lead = SubSeq(pending, l, l + x - 1)  OBVIOUS
  <2>7. SubSeq(rest(l), 1, x) = lead
    <3>1. /\ l \in 1..n /\ n \in 1..n
          /\ 1 \in 1..(n - l + 1) /\ x \in 1..(n - l + 1)
          /\ l + 1 - 1 = l
      BY <1>1, <2>2, <2>4
    <3>2. pending \in Seq(C) /\ n = Len(pending)  BY DEF n
    <3>3. SubSeq(SubSeq(pending, l, n), 1, x)
              = SubSeq(pending, l + 1 - 1, l + x - 1)
      BY <3>1, <3>2, SubSeqOfSubSeq
    <3>. QED BY <2>6, <3>1, <3>3 DEF rest
  <2>8. PICK j \in C : j = JoinChunks(lead, o)  BY <1>2, <2>2, <2>4, <2>7
  <2>9. c[l] = <<j>> \o c[r]
    <3>1. l \in 1..(n + 1) /\ ~(l > n)  BY <1>1, <2>2
    <3>2. c[l] = <<JoinChunks(SubSeq(rest(l), 1, k(l)), o)>> \o c[l + k(l)]
      BY <1>8, <3>1 DEF Solves
    <3>. QED BY <2>4, <2>5, <2>7, <2>8, <3>2
  <2>10. HoldText(C)  BY MergeableHoldText
  <2>11. PICK tail \in Seq(C) :
             tail = c[r] /\ TextOf(tail) = TextOf(SubSeq(pending, r, n))
    BY <2>3
  <2>12. <<j>> \in Seq(C) /\ TextOf(<<j>>) = TextOf(lead)
    BY <2>8, <2>10, TextOfOne, JoinHolds
  <2>13. lead \o SubSeq(pending, r, n) = SubSeq(pending, l, n)
    <3>1. PICK y : y = l + x - 1  OBVIOUS
    <3>2. l \in 1..(n + 1) /\ y \in (l - 1)..n /\ n \in y..n /\ y + 1 = r
      BY <1>1, <2>2, <2>4, <2>5, <3>1
    <3>3. pending \in Seq(C) /\ n = Len(pending)  BY DEF n
    <3>4. SubSeq(pending, l, y) \o SubSeq(pending, y + 1, n)
              = SubSeq(pending, l, n)
      BY <3>2, <3>3, ConcatAdjacentSubSeq
    <3>. QED BY <2>6, <3>1, <3>2, <3>4
  <2>14. lead \in Seq(C) /\ SubSeq(pending, r, n) \in Seq(C)
    <3>1. /\ l \in Nat \ {0} /\ l + x - 1 \in Int /\ l + x - 1 <= n
          /\ r \in Nat \ {0} /\ n \in Int /\ n <= n
      BY <1>1, <2>2, <2>4, <2>5
    <3>2. pending \in Seq(C) /\ n = Len(pending)  BY DEF n
    <3>. QED BY <2>6, <3>1, <3>2, SubSeqIsSequence
  <2>15. TextOf(SubSeq(pending, l, n))
             = TextOf(lead) \o TextOf(SubSeq(pending, r, n))
    BY <2>10, <2>13, <2>14, TextOfConcat
  <2>16. <<j>> \o tail \in Seq(C)
         /\ TextOf(<<j>> \o tail) = TextOf(<<j>>) \o TextOf(tail)
    BY <2>10, <2>12, ConcatProperties, TextOfConcat
  <2>17. Kept(l)  BY <2>9, <2>11, <2>12, <2>15, <2>16
  <2>18. \A i \in l..(n + 1) : i = l \/ i \in (l + 1)..(n + 1)  BY <1>1, <2>2
  <2>. HIDE DEF Kept
  <2>. QED BY <1>1, <2>1, <2>3, <2>17, <2>18
<1>. HIDE DEF P
<1>11. \A m \in 0..n : m \in P  BY <1>1, <1>9, <1>10, BoundedInduction
<1>12. Kept(1)
  <2>1. n \in P  BY <1>1, <1>11
  <2>2. 1 \in (n + 1 - n)..(n + 1)  BY <1>1
  <2>. QED BY <2>1, <2>2 DEF P
<1>13. SubSeq(pending, 1, n) = pending  BY SubSeqFull DEF n
<1>. QED BY <1>3, <1>7, <1>12, <1>13

(* So does mergeTail.                                                      *)
LEMMA TailIsMerged ==
  ASSUME NEW H, NEW o, IsOptions(o), NEW C, Mergeable(C, o, H),
         NEW packed \in Seq(C)
  PROVE  /\ MergeTail(packed, o) \in Seq(C)
         /\ TextOf(MergeTail(packed, o)) = TextOf(packed)
<1>. DEFINE n == Len(packed)
            pair == <<packed[n - 1], packed[n]>>
            joined == JoinChunks(pair, o)
<1>1. n \in Nat  BY LenProperties
<1>2. CASE n >= 2
  <2>1. n \in 1..n /\ n - 1 \in 1..n  BY <1>1, <1>2
  <2>2. packed[n] \in C /\ packed[n - 1] \in C  BY <2>1, ElementOfSeq
  <2>3. /\ pair \in Seq(C) /\ pair # <<>> /\ Len(pair) = 2
        /\ pair[1] = packed[n - 1] /\ pair[2] = packed[n]
    BY <2>2
  <2>. HIDE DEF pair, joined
  <2>4. ASSUME IsSameSection(packed[n - 1], packed[n]),
               joined.tokenCount <= o.maxTokens
        PROVE  joined \in C
    <3>1. pair[1].headingPath = pair[2].headingPath
      BY <2>2, <2>3, <2>4, SameSectionIsOnePath DEF Mergeable
    <3>2. \A i \in 1..2 : i = 1 \/ i = 2  OBVIOUS
    <3>3. OnePath(pair)  BY <2>3, <3>1, <3>2 DEF OnePath
    <3>. QED BY <2>3, <2>4, <3>3 DEF Mergeable, joined
  <2>5. 1 \in Nat \ {0} /\ n - 2 \in Int /\ n - 2 <= n  BY <1>1
  <2>6. SubSeq(packed, 1, n - 2) \in Seq(C)  BY <2>5, SubSeqIsSequence
  <2>7. ASSUME joined \in C
        PROVE  /\ Append(SubSeq(packed, 1, n - 2), joined) \in Seq(C)
               /\ TextOf(Append(SubSeq(packed, 1, n - 2), joined))
                      = TextOf(packed)
    <3>1. HoldText(C)  BY MergeableHoldText
    <3>2. PICK front \in Seq(C) : front = SubSeq(packed, 1, n - 2)  BY <2>6
    <3>3. Append(front, joined) \in Seq(C)
          /\ TextOf(Append(front, joined)) = TextOf(front) \o joined.text
      BY <2>7, <3>1, AppendProperties, TextOfAppend
    <3>4. joined.text = TextOf(pair)  BY JoinHolds DEF joined
    <3>5. SubSeq(packed, n - 1, n) = pair
      <4>1. n - 1 \in Nat \ {0} /\ n \in Int /\ n <= Len(packed)
        <5>1. PICK z \in Nat : z = n  BY <1>1
        <5>2. z - 1 \in Nat \ {0} /\ z \in Int /\ z <= z  BY <1>2, <5>1
        <5>. QED BY <5>1, <5>2
      <4>2. n - 1 \in 1..(n + 1) /\ n \in (n - 1 - 1)..n  BY <1>1, <1>2
      <4>3. PICK t \in Seq(C) : t = SubSeq(packed, n - 1, n)
        BY <4>1, SubSeqIsSequence
      <4>4. Len(t) = 2 /\ \A i \in 1..2 : t[i] = packed[n - 1 + i - 1]
        <5>1. /\ Len(SubSeq(packed, n - 1, n))
                     = IF n - 1 <= n THEN n - (n - 1) + 1 ELSE 0
              /\ \A i \in 1..(n - (n - 1) + 1) :
                     SubSeq(packed, n - 1, n)[i]
                         = packed[n - 1 + i - 1]
          BY <4>2, SubSeqProperties DEF n
        <5>2. n - (n - 1) + 1 = 2 /\ n - 1 <= n  BY <1>1
        <5>. QED BY <4>3, <5>1, <5>2
      <4>5. n - 1 + 1 - 1 = n - 1 /\ n - 1 + 2 - 1 = n  BY <1>1
      <4>6. t[1] = pair[1] /\ t[2] = pair[2]  BY <2>3, <4>4, <4>5
      <4>7. \A i \in 1..2 : i = 1 \/ i = 2  OBVIOUS
      <4>8. \A i \in 1..Len(t) : t[i] = pair[i]  BY <4>4, <4>6, <4>7
      <4>. QED BY <2>3, <4>3, <4>4, <4>8, SeqEqual
    <3>6. TextOf(packed) = TextOf(front) \o TextOf(pair)
      <4>1. PICK k \in 0..Len(packed) : k = n - 2
        <5>1. PICK z \in Nat : z = n  BY <1>1
        <5>2. z - 2 \in 0..z  BY <1>2, <5>1
        <5>. QED BY <5>1, <5>2
      <4>2. k + 1 = n - 1  BY <1>1, <4>1
      <4>3. TextOf(packed) = TextOf(SubSeq(packed, 1, k))
                             \o TextOf(SubSeq(packed, k + 1, Len(packed)))
        BY <3>1, TextOfParts
      <4>. QED BY <3>2, <3>5, <4>1, <4>2, <4>3 DEF n
    <3>. QED BY <3>2, <3>3, <3>4, <3>6
  <2>8. \/ MergeTail(packed, o) = packed
        \/ /\ IsSameSection(packed[n - 1], packed[n])
           /\ joined.tokenCount <= o.maxTokens
           /\ MergeTail(packed, o)
                  = Append(SubSeq(packed, 1, n - 2), joined)
    BY DEF MergeTail, joined, pair
  <2>. QED BY <2>4, <2>7, <2>8
<1>3. CASE ~(n >= 2)  BY <1>3 DEF MergeTail
<1>. QED BY <1>2, <1>3

(* The state of packChunks: what grows is of one section.                  *)
Packing(C) ==
    {acc \in [packed : Seq(C), pending : Seq(C)] : OnePath(acc.pending)}

(* A turn of packChunks keeps that.                                        *)
LEMMA PackChunkStays ==
  ASSUME NEW H, NEW o, IsOptions(o), NEW C, Mergeable(C, o, H),
         NEW acc \in Packing(C), NEW chunk \in C
  PROVE  PackChunk(acc, chunk, o) \in Packing(C)
<1>. DEFINE more == Append(acc.pending, chunk)
            closed == acc.packed \o MergePending(acc.pending, o)
<1>1. /\ acc.packed \in Seq(C) /\ acc.pending \in Seq(C)
      /\ OnePath(acc.pending)
  BY DEF Packing
<1>2. MergePending(acc.pending, o) \in Seq(C)  BY <1>1, PendingIsMerged
<1>3. closed \in Seq(C)  BY <1>1, <1>2, ConcatProperties
<1>4. PICK pending \in Seq(C) : pending = acc.pending  BY <1>1
<1>5. PICK n \in Nat : n = Len(pending)  BY LenProperties
<1>6. /\ more \in Seq(C) /\ Len(more) = n + 1
      /\ \A i \in 1..n : more[i] = pending[i]
      /\ more[n + 1] = chunk
  BY <1>4, <1>5, AppendProperties
<1>7. ASSUME pending = <<>> \/ IsSameSection(pending[1], chunk)
      PROVE  OnePath(more)
  <2>1. ASSUME NEW i \in 1..(n + 1)
        PROVE  more[i].headingPath = more[1].headingPath
    <3>1. CASE n = 0
      <4>1. i = 1  BY <3>1
      <4>. QED BY <4>1
    <3>2. CASE n # 0
      <4>1. 1 \in 1..n /\ pending # <<>>  BY <1>5, <3>2, EmptySeq
      <4>2. pending[1] \in C  BY <1>5, <4>1, ElementOfSeq
      <4>3. pending[1].headingPath = chunk.headingPath
        BY <1>7, <4>1, <4>2, SameSectionIsOnePath DEF Mergeable
      <4>4. CASE i \in 1..n  BY <1>1, <1>4, <1>5, <1>6, <4>1, <4>4 DEF OnePath
      <4>5. CASE i = n + 1  BY <1>6, <4>1, <4>3, <4>5
      <4>6. i \in 1..n \/ i = n + 1  OBVIOUS
      <4>. QED BY <4>4, <4>5, <4>6
    <3>. QED BY <3>1, <3>2
  <2>. HIDE DEF more
  <2>. QED BY <1>6, <2>1 DEF OnePath
<1>8. <<chunk>> \in Seq(C) /\ OnePath(<<chunk>>)
  <2>1. <<chunk>> \in Seq(C) /\ Len(<<chunk>>) = 1  OBVIOUS
  <2>2. \A i \in 1..1 : i = 1  OBVIOUS
  <2>. QED BY <2>1, <2>2 DEF OnePath
<1>9. \/ /\ pending = <<>> \/ IsSameSection(pending[1], chunk)
         /\ PackChunk(acc, chunk, o) = [packed |-> acc.packed, pending |-> more]
      \/ PackChunk(acc, chunk, o) = [packed |-> closed, pending |-> <<chunk>>]
  BY <1>4 DEF PackChunk
<1>. HIDE DEF more, closed
<1>10. OnePath(more) => [packed |-> acc.packed, pending |-> more] \in Packing(C)
  BY <1>1, <1>6 DEF Packing
<1>11. [packed |-> closed, pending |-> <<chunk>>] \in Packing(C)
  BY <1>3, <1>8 DEF Packing
<1>. QED BY <1>7, <1>9, <1>10, <1>11

(* What the state of packChunks holds.                                     *)
Held(acc) == TextOf(acc.packed) \o TextOf(acc.pending)

(* A turn of packChunks adds the text of its chunk.                        *)
TurnHolds(acc, chunk, o) ==
    Held(PackChunk(acc, chunk, o)) = Held(acc) \o chunk.text

(* Every turn does.                                                        *)
LEMMA PackChunkHolds ==
  ASSUME NEW H, NEW o, IsOptions(o), NEW C, Mergeable(C, o, H),
         NEW acc \in Packing(C), NEW chunk \in C
  PROVE  TurnHolds(acc, chunk, o)
<1>1. PICK packed \in Seq(C), pending \in Seq(C) :
          packed = acc.packed /\ pending = acc.pending /\ OnePath(pending)
  BY DEF Packing
<1>2. HoldText(C)  BY MergeableHoldText
<1>3. PICK p \in Text, q \in Text, t \in Text :
          p = TextOf(packed) /\ q = TextOf(pending) /\ t = chunk.text
  BY <1>2, TextOfIsText DEF HoldText
<1>4. TextOf(Append(pending, chunk)) = q \o t  BY <1>2, <1>3, TextOfAppend
<1>5. PICK merged \in Seq(C) :
          merged = MergePending(pending, o) /\ TextOf(merged) = q
  BY <1>1, <1>3, PendingIsMerged
<1>6. TextOf(packed \o merged) = p \o q  BY <1>2, <1>3, <1>5, TextOfConcat
<1>7. TextOf(<<chunk>>) = t  BY <1>2, <1>3, TextOfOne
<1>8. Held(acc) = p \o q  BY <1>1, <1>3 DEF Held
<1>9. p \o (q \o t) = (p \o q) \o t  BY ConcatAssociative, SMTT(30) DEF Text
<1>10. \/ PackChunk(acc, chunk, o)
              = [packed |-> packed, pending |-> Append(pending, chunk)]
       \/ PackChunk(acc, chunk, o)
              = [packed |-> packed \o merged, pending |-> <<chunk>>]
  BY <1>1, <1>5 DEF PackChunk
<1>11. CASE PackChunk(acc, chunk, o)
               = [packed |-> packed, pending |-> Append(pending, chunk)]
  <2>1. PICK r : r = PackChunk(acc, chunk, o)  OBVIOUS
  <2>2. r.packed = packed /\ r.pending = Append(pending, chunk)  BY <1>11, <2>1
  <2>3. Held(r) = p \o (q \o t)  BY <1>3, <1>4, <2>2 DEF Held
  <2>. QED BY <1>3, <1>8, <1>9, <2>1, <2>3 DEF TurnHolds
<1>12. CASE PackChunk(acc, chunk, o)
               = [packed |-> packed \o merged, pending |-> <<chunk>>]
  <2>1. PICK r : r = PackChunk(acc, chunk, o)  OBVIOUS
  <2>2. r.packed = packed \o merged /\ r.pending = <<chunk>>  BY <1>12, <2>1
  <2>3. Held(r) = (p \o q) \o t  BY <1>6, <1>7, <2>2 DEF Held
  <2>. QED BY <1>3, <1>8, <2>1, <2>3 DEF TurnHolds
<1>. QED BY <1>10, <1>11, <1>12

(* The loop of packChunks over the chunks.                                 *)
PackingRun(g, chunks, o, C) ==
    /\ g \in [0..Len(chunks) -> Packing(C)]
    /\ g[0] = [packed |-> <<>>, pending |-> <<>>]
    /\ \A k \in 1..Len(chunks) : g[k] = PackChunk(g[k - 1], chunks[k], o)
    /\ PackedRuns(chunks, o) = g[Len(chunks)]

(* The run of packChunks exists.                                           *)
LEMMA PackingRuns ==
  ASSUME NEW H, NEW o, IsOptions(o), NEW C, Mergeable(C, o, H),
         NEW chunks \in Seq(C)
  PROVE  \E g : PackingRun(g, chunks, o, C)
<1>. DEFINE A == Packing(C)
            B == C
            n == Len(chunks)
            F == [p \in A \X B |-> PackChunk(p[1], p[2], o)]
            Solves(it) == it = [s \in SUBSET DOMAIN chunks |->
                                   IF s = {}
                                   THEN [packed |-> <<>>, pending |-> <<>>]
                                   ELSE PackChunk(it[s \ {Max(s)}], chunks[Max(s)], o)]
<1>1. n \in Nat /\ chunks \in [1..n -> B] /\ DOMAIN chunks = 1..n
  BY LenProperties
<1>2. PackedRuns(chunks, o) = (CHOOSE it : Solves(it))[DOMAIN chunks]
  BY DEF PackedRuns, FoldLeft, MapThenFoldSet
<1>3. [packed |-> <<>>, pending |-> <<>>] \in A
  <2>1. <<>> \in Seq(C) /\ Len(<<>>) = 0 /\ 1..0 = {}  OBVIOUS
  <2>2. OnePath(<<>>)  BY <2>1 DEF OnePath
  <2>. QED BY <2>1, <2>2 DEF Packing
<1>4. ASSUME NEW a \in A, NEW b \in B PROVE PackChunk(a, b, o) \in A
  BY PackChunkStays
<1>. HIDE DEF n, A, B
<1>5. /\ F \in [A \X B -> A]
      /\ \A a \in A, b \in B : F[<<a, b>>] = PackChunk(a, b, o)
  BY <1>4
<1>. HIDE DEF F
<1>6. PICK h : FoldOf(h, A, B, F, [packed |-> <<>>, pending |-> <<>>],
                      n, chunks)
  <2>. HIDE DEF Solves
  <2>1. \A G \in [A \X B -> A], a \in A, k \in Nat :
            \A s \in [1..k -> B] : \E h : FoldOf(h, A, B, G, a, k, s)
    BY FoldExists, Zenon
  <2>. QED BY <1>1, <1>3, <1>5, <2>1
<1>7. Solves(h)  BY <1>1, <1>5, <1>6 DEF FoldOf
<1>. HIDE DEF Solves
<1>8. PICK it : Solves(it) /\ PackedRuns(chunks, o) = it[1..n]
  BY <1>1, <1>2, <1>7
<1>9. it[{}] = [packed |-> <<>>, pending |-> <<>>]  BY <1>1, <1>8 DEF Solves
<1>10. ASSUME NEW k \in 1..n
       PROVE  it[1..k] = PackChunk(it[1..(k - 1)], chunks[k], o)
  <2>1. k \in Nat /\ k # 0 /\ 1..k \in SUBSET (1..n)  BY <1>1
  <2>2. /\ 1..k # {}
        /\ Max(1..k) = k /\ (1..k) \ {Max(1..k)} = 1..(k - 1)
    BY <2>1, FirstIndices
  <2>. QED BY <1>1, <1>8, <2>1, <2>2 DEF Solves
<1>11. ASSUME NEW k \in 1..n, it[1..(k - 1)] \in A PROVE it[1..k] \in A
  <2>1. chunks[k] \in B  BY <1>1
  <2>. QED BY <1>4, <1>10, <1>11, <2>1
<1>12. \A k \in 0..n : it[1..k] \in A  BY <1>1, <1>3, <1>9, <1>11, FoldStays
<1>. DEFINE g == [k \in 0..n |-> it[1..k]]
<1>13. g \in [0..n -> A] /\ g[0] = [packed |-> <<>>, pending |-> <<>>]
  BY <1>1, <1>9, <1>12
<1>14. \A k \in 1..n : g[k] = PackChunk(g[k - 1], chunks[k], o)  BY <1>1, <1>10
<1>15. PackedRuns(chunks, o) = g[n]  BY <1>1, <1>8
<1>. HIDE DEF g
<1>16. PackingRun(g, chunks, o, C)  BY <1>13, <1>14, <1>15 DEF A, n, PackingRun
<1>. QED BY <1>16

(* So packChunks stays in the set too, and keeps the text.                 *)
LEMMA ChunksArePacked ==
  ASSUME NEW H, NEW o, IsOptions(o), NEW C, Mergeable(C, o, H),
         NEW chunks \in Seq(C)
  PROVE  /\ PackChunks(chunks, o) \in Seq(C)
         /\ TextOf(PackChunks(chunks, o)) = TextOf(chunks)
<1>1. PICK n \in Nat : n = Len(chunks)  BY LenProperties
<1>2. PICK g : PackingRun(g, chunks, o, C)  BY PackingRuns
<1>3. /\ g \in [0..n -> Packing(C)]
      /\ g[0] = [packed |-> <<>>, pending |-> <<>>]
      /\ \A k \in 1..n : g[k] = PackChunk(g[k - 1], chunks[k], o)
      /\ PackedRuns(chunks, o) = g[n]
  BY <1>1, <1>2 DEF PackingRun
<1>4. HoldText(C)  BY MergeableHoldText
<1>. DEFINE P == {k \in 0..n : Held(g[k]) = TextOf(SubSeq(chunks, 1, k))}
<1>5. 0 \in P
  <2>1. SubSeq(chunks, 1, 0) = <<>>  BY SubSeqEmpty
  <2>2. Held(g[0]) = <<>> \o <<>>  BY <1>3, TextOfNone DEF Held
  <2>3. <<>> \o <<>> = <<>>
    <3>1. <<>> \in Seq({})  OBVIOUS
    <3>. QED BY <3>1, ConcatEmptySeq
  <2>4. 0 \in 0..n  OBVIOUS
  <2>. QED BY <2>1, <2>2, <2>3, <2>4, TextOfNone
<1>6. ASSUME NEW k \in 1..n, k - 1 \in P PROVE k \in P
  <2>1. PICK j \in 0..n : j = k - 1  OBVIOUS
  <2>2. g[j] \in Packing(C) /\ chunks[k] \in C
    BY <1>1, <1>3, <2>1, ElementOfSeq
  <2>3. Held(g[k]) = Held(g[j]) \o chunks[k].text
    <3>1. PICK a \in Packing(C), c \in C : a = g[j] /\ c = chunks[k]  BY <2>2
    <3>2. Held(PackChunk(a, c, o)) = Held(a) \o c.text
      <4>1. TurnHolds(a, c, o)  BY PackChunkHolds
      <4>. QED BY <4>1 DEF TurnHolds
    <3>3. g[k] = PackChunk(a, c, o)  BY <1>3, <2>1, <3>1
    <3>. QED BY <3>1, <3>2, <3>3
  <2>4. SubSeq(chunks, 1, k) = SubSeq(chunks, 1, j) \o <<chunks[k]>>
    <3>1. 1 \in 1..(n + 1) /\ j \in (1 - 1)..n /\ k \in j..n /\ j + 1 = k
      BY <2>1
    <3>2. SubSeq(chunks, 1, j) \o SubSeq(chunks, j + 1, k)
              = SubSeq(chunks, 1, k)
      BY <1>1, <3>1, ConcatAdjacentSubSeq
    <3>3. SubSeq(chunks, k, k) = <<chunks[k]>>
      <4>1. PICK s \in Seq(C) : s = SubSeq(chunks, k, k)
        <5>1. k \in Nat \ {0} /\ k \in Int /\ k <= Len(chunks)  BY <1>1
        <5>. QED BY <5>1, SubSeqIsSequence
      <4>2. k \in 1..(n + 1) /\ k \in (k - 1)..n /\ k - k + 1 = 1
            /\ k + 1 - 1 = k
        OBVIOUS
      <4>3. Len(s) = 1 /\ s[1] = chunks[k]
        <5>1. /\ Len(SubSeq(chunks, k, k))
                     = IF k <= k THEN k - k + 1 ELSE 0
              /\ \A i \in 1..(k - k + 1) :
                     SubSeq(chunks, k, k)[i] = chunks[k + i - 1]
          BY <1>1, <4>2, SubSeqProperties
        <5>2. 1 \in 1..(k - k + 1) /\ k <= k  OBVIOUS
        <5>3. Len(SubSeq(chunks, k, k)) = 1  BY <4>2, <5>1, <5>2
        <5>4. SubSeq(chunks, k, k)[1] = chunks[k + 1 - 1]  BY <5>1, <5>2
        <5>5. s[1] = chunks[k]  BY <4>1, <4>2, <5>4
        <5>. QED BY <4>1, <5>3, <5>5
      <4>4. <<chunks[k]>> \in Seq(C) /\ Len(<<chunks[k]>>) = 1  BY <2>2
      <4>5. \A i \in 1..1 : i = 1  OBVIOUS
      <4>6. \A i \in 1..Len(s) : s[i] = <<chunks[k]>>[i]  BY <4>3, <4>5
      <4>7. s = <<chunks[k]>>  BY <4>3, <4>4, <4>6, SeqEqual
      <4>. QED BY <4>1, <4>7
    <3>. QED BY <3>1, <3>2, <3>3
  <2>5. SubSeq(chunks, 1, j) \in Seq(C) /\ <<chunks[k]>> \in Seq(C)
    BY <1>1, <2>1, <2>2, SubSeqIsSequence
  <2>6. TextOf(SubSeq(chunks, 1, k))
            = TextOf(SubSeq(chunks, 1, j)) \o chunks[k].text
    BY <1>4, <2>2, <2>4, <2>5, TextOfConcat, TextOfOne
  <2>7. Held(g[j]) = TextOf(SubSeq(chunks, 1, j))  BY <1>6, <2>1
  <2>8. k \in 0..n  OBVIOUS
  <2>. QED BY <2>3, <2>6, <2>7, <2>8
<1>. HIDE DEF P
<1>7. \A k \in 0..n : k \in P  BY <1>5, <1>6, BoundedInduction
<1>8. Held(g[n]) = TextOf(chunks)
  <2>1. n \in 0..n  OBVIOUS
  <2>2. n \in P  BY <1>7, <2>1
  <2>. QED BY <1>1, <2>2, SubSeqFull DEF P
<1>9. PICK end \in Packing(C) : end = g[n]  BY <1>3
<1>10. PICK packed \in Seq(C), pending \in Seq(C) :
           packed = end.packed /\ pending = end.pending /\ OnePath(pending)
  BY DEF Packing
<1>11. PICK merged \in Seq(C) : /\ merged = MergePending(pending, o)
                                /\ TextOf(merged) = TextOf(pending)
  BY <1>10, PendingIsMerged
<1>12. PICK all \in Seq(C) :
           all = packed \o merged
           /\ TextOf(all) = TextOf(packed) \o TextOf(merged)
  BY <1>4, ConcatProperties, TextOfConcat
<1>13. MergeTail(all, o) \in Seq(C) /\ TextOf(MergeTail(all, o)) = TextOf(all)
  BY TailIsMerged, SMTT(30)
<1>14. PackChunks(chunks, o) = MergeTail(all, o)
  BY <1>3, <1>9, <1>10, <1>11, <1>12 DEF PackChunks
<1>15. TextOf(all) = Held(g[n])  BY <1>9, <1>10, <1>11, <1>12 DEF Held
<1>. QED BY <1>8, <1>13, <1>14, <1>15

(* A body becomes such chunks.                                             *)
LEMMA CreatesSoundChunks ==
  ASSUME NEW nodes, IsParsed(nodes), NEW format, NEW o, IsOptions(o)
  PROVE  CreateChunks(nodes, format, o)
             \in Seq(SoundChunks(nodes, format, o.maxTokens))
<1>. DEFINE C == SoundChunks(nodes, format, o.maxTokens)
            cut == IF format = "markdown" THEN ChunkMarkdown(nodes, o)
                                          ELSE ChunkText(nodes, o)
<1>1. cut \in Seq(C)
  <2>1. CASE format = "markdown"  BY <2>1, BodyIsSound
  <2>2. CASE format # "markdown"
    <3>1. C = WithinCeiling(nodes, o.maxTokens)  BY <2>2 DEF SoundChunks
    <3>. QED BY <2>2, <3>1, BodyIsSound
  <2>. QED BY <2>1, <2>2
<1>2. Mergeable(C, o, Titles(nodes))  BY SoundChunksMerge
<1>. HIDE DEF C, cut
<1>3. PackChunks(cut, o) \in Seq(C)  BY <1>1, <1>2, ChunksArePacked
<1>. QED BY <1>3 DEF C, cut, CreateChunks

-----------------------------------------------------------------------------
(* Texts that differ in dropped tokens only.                               *)
Alike(s, t, dropped) ==
    Without(s, dropped) = Without(t, dropped) /\ ToSet(s) = ToSet(t)

(* A token or nothing, token by token.                                     *)
Filtering(parts, s, D) ==
    /\ Without(s, D) = FlattenSeq(parts)
    /\ Len(parts) = Len(s)
    /\ \A i \in 1..Len(s) :
           parts[i] = IF s[i] \in D THEN <<>> ELSE <<s[i]>>

(* The filter is a chain of those.                                         *)
LEMMA WithoutParts ==
  ASSUME NEW S, NEW s \in Seq(S), NEW D
  PROVE  \E parts \in Seq(Seq(S)) : Filtering(parts, s, D)
<1>1. PICK n \in Nat : n = Len(s) /\ DOMAIN s = 1..n  BY LenProperties
<1>. DEFINE parts == [i \in 1..n |-> IF s[i] \in D THEN <<>> ELSE <<s[i]>>]
<1>2. \A i \in 1..n : s[i] \in S  BY <1>1, ElementOfSeq
<1>3. ASSUME NEW i \in 1..n
      PROVE  (IF s[i] \in D THEN <<>> ELSE <<s[i]>>) \in Seq(S)
  <2>1. <<>> \in Seq(S) /\ <<s[i]>> \in Seq(S)  BY <1>2
  <2>. QED BY <2>1
<1>4. parts \in [1..n -> Seq(S)]  BY <1>3
<1>5. parts \in Seq(Seq(S)) /\ Len(parts) = n
  <2>. HIDE DEF parts
  <2>. QED BY <1>4, IsSequence
<1>6. Without(s, D) = FlattenSeq(parts)  BY <1>1 DEF Without
<1>7. \A i \in 1..n : parts[i] = IF s[i] \in D THEN <<>> ELSE <<s[i]>>  OBVIOUS
<1>. HIDE DEF parts
<1>8. Filtering(parts, s, D)  BY <1>1, <1>5, <1>6, <1>7 DEF Filtering
<1>. QED BY <1>5, <1>8

(* A chain of two sequences, place by place.                               *)
Chained(v, s, t) ==
    /\ Len(v) = Len(s) + Len(t)
    /\ \A i \in 1..(Len(s) + Len(t)) :
           v[i] = IF i <= Len(s) THEN s[i] ELSE t[i - Len(s)]

(* What the library says of it, under that name.                           *)
LEMMA ConcatIsChained ==
  ASSUME NEW S, NEW s \in Seq(S), NEW t \in Seq(S)
  PROVE  Chained(s \o t, s, t)
BY ConcatProperties DEF Chained

(* Two filtered texts make the filtered whole.                             *)
LEMMA WithoutConcat ==
  ASSUME NEW S, NEW p \in Seq(S), NEW q \in Seq(S), NEW D
  PROVE  Without(p \o q, D) = Without(p, D) \o Without(q, D)
<1>1. PICK all \in Seq(S) : all = p \o q  BY ConcatProperties
<1>2. PICK n \in Nat : n = Len(p)  BY LenProperties
<1>3. PICK m \in Nat : m = Len(q)  BY LenProperties
<1>4. /\ Len(all) = n + m
      /\ \A i \in 1..(n + m) : all[i] = IF i <= n THEN p[i] ELSE q[i - n]
  BY <1>1, <1>2, <1>3, ConcatProperties
<1>5. PICK s \in Seq(Seq(S)) :
          /\ Without(p, D) = FlattenSeq(s) /\ Len(s) = n
          /\ \A i \in 1..n : s[i] = IF p[i] \in D THEN <<>> ELSE <<p[i]>>
  <2>1. PICK x \in Seq(Seq(S)) : Filtering(x, p, D)  BY WithoutParts
  <2>. QED BY <1>2, <2>1 DEF Filtering
<1>6. PICK t \in Seq(Seq(S)) :
          /\ Without(q, D) = FlattenSeq(t) /\ Len(t) = m
          /\ \A i \in 1..m : t[i] = IF q[i] \in D THEN <<>> ELSE <<q[i]>>
  <2>1. PICK x \in Seq(Seq(S)) : Filtering(x, q, D)  BY WithoutParts
  <2>. QED BY <1>3, <2>1 DEF Filtering
<1>7. PICK u \in Seq(Seq(S)) :
          /\ Without(all, D) = FlattenSeq(u) /\ Len(u) = n + m
          /\ \A i \in 1..(n + m) :
                 u[i] = IF all[i] \in D THEN <<>> ELSE <<all[i]>>
  <2>1. PICK x \in Seq(Seq(S)) : Filtering(x, all, D)  BY WithoutParts
  <2>. QED BY <1>4, <2>1 DEF Filtering
<1>8. PICK v \in Seq(Seq(S)) : v = s \o t  BY ConcatProperties
<1>9. /\ Len(v) = n + m
      /\ \A i \in 1..(n + m) : v[i] = IF i <= n THEN s[i] ELSE t[i - n]
  <2>1. Chained(v, s, t)  BY <1>8, ConcatIsChained
  <2>. QED BY <1>5, <1>6, <2>1 DEF Chained
<1>10. ASSUME NEW i \in 1..(n + m) PROVE u[i] = v[i]
  <2>1. CASE i <= n
    <3>1. i \in 1..n  BY <2>1
    <3>. QED BY <1>4, <1>5, <1>7, <1>9, <2>1, <3>1
  <2>2. CASE ~(i <= n)
    <3>1. i - n \in 1..m  BY <2>2
    <3>. QED BY <1>4, <1>6, <1>7, <1>9, <2>2, <3>1
  <2>. QED BY <2>1, <2>2
<1>11. u = v  BY <1>7, <1>9, <1>10, SeqEqual
<1>12. FlattenSeq(v) = FlattenSeq(s) \o FlattenSeq(t)  BY <1>8, FlattenConcat
<1>. QED BY <1>1, <1>5, <1>6, <1>7, <1>11, <1>12

(* A filtered text is a text.                                              *)
LEMMA WithoutIsSeq ==
  ASSUME NEW S, NEW s \in Seq(S), NEW D
  PROVE  Without(s, D) \in Seq(S)
<1>1. PICK parts \in Seq(Seq(S)) : Without(s, D) = FlattenSeq(parts)
  BY WithoutParts DEF Filtering
<1>. QED BY <1>1, FlattenIsSequence

(* A text of dropped tokens leaves nothing.                                *)
LEMMA WithoutAll ==
  ASSUME NEW S, NEW s \in Seq(S), NEW D, \A i \in 1..Len(s) : s[i] \in D
  PROVE  Without(s, D) = <<>>
<1>1. PICK n \in Nat : n = Len(s)  BY LenProperties
<1>2. PICK parts \in Seq(Seq(S)) :
          /\ Without(s, D) = FlattenSeq(parts) /\ Len(parts) = n
          /\ \A i \in 1..n : parts[i] = IF s[i] \in D THEN <<>> ELSE <<s[i]>>
  <2>1. PICK x \in Seq(Seq(S)) : Filtering(x, s, D)  BY WithoutParts
  <2>. QED BY <1>1, <2>1 DEF Filtering
<1>3. PICK g : FlattenRun(g, parts, S)  BY FlattenRuns
<1>4. /\ g[0] = <<>> /\ FlattenSeq(parts) = g[n]
      /\ \A k \in 1..n : g[k] = g[k - 1] \o parts[k]
  BY <1>2, <1>3 DEF FlattenRun
<1>. DEFINE P == {k \in 0..n : g[k] = <<>>}
<1>5. 0 \in P  BY <1>4
<1>6. ASSUME NEW k \in 1..n, k - 1 \in P PROVE k \in P
  <2>1. parts[k] = <<>>  BY <1>1, <1>2
  <2>2. <<>> \o <<>> = <<>>
    <3>1. <<>> \in Seq({})  OBVIOUS
    <3>. QED BY <3>1, ConcatEmptySeq
  <2>3. g[k] = <<>>  BY <1>4, <1>6, <2>1, <2>2
  <2>. QED BY <2>3
<1>. HIDE DEF P
<1>7. \A k \in 0..n : k \in P  BY <1>5, <1>6, BoundedInduction
<1>8. n \in 0..n  OBVIOUS
<1>9. n \in P  BY <1>7, <1>8
<1>. QED BY <1>2, <1>4, <1>9 DEF P

(* The tokens of two texts.                                                *)
LEMMA ToSetConcat ==
  ASSUME NEW S, NEW p \in Seq(S), NEW q \in Seq(S)
  PROVE  ToSet(p \o q) = ToSet(p) \union ToSet(q)
<1>1. PICK all \in Seq(S) : all = p \o q  BY ConcatProperties
<1>2. PICK n \in Nat : n = Len(p) /\ DOMAIN p = 1..n  BY LenProperties
<1>3. PICK m \in Nat : m = Len(q) /\ DOMAIN q = 1..m  BY LenProperties
<1>4. /\ DOMAIN all = 1..(n + m)
      /\ \A i \in 1..(n + m) : all[i] = IF i <= n THEN p[i] ELSE q[i - n]
  BY <1>1, <1>2, <1>3, ConcatProperties, LenProperties
<1>5. ToSet(all) \subseteq ToSet(p) \union ToSet(q)
  <2>1. ASSUME NEW i \in 1..(n + m)
        PROVE  all[i] \in ToSet(p) \union ToSet(q)
    <3>1. i <= n => i \in 1..n  OBVIOUS
    <3>2. ~(i <= n) => i - n \in 1..m  OBVIOUS
    <3>. QED BY <1>2, <1>3, <1>4, <3>1, <3>2 DEF ToSet
  <2>. QED BY <1>4, <2>1 DEF ToSet
<1>6. ToSet(p) \subseteq ToSet(all)
  <2>1. \A i \in 1..n : i \in 1..(n + m) /\ i <= n  OBVIOUS
  <2>. QED BY <1>2, <1>4, <2>1 DEF ToSet
<1>7. ToSet(q) \subseteq ToSet(all)
  <2>1. ASSUME NEW i \in 1..m PROVE q[i] \in ToSet(all)
    <3>1. PICK j \in 1..(n + m) : j = n + i  OBVIOUS
    <3>2. ~(j <= n) /\ j - n = i  BY <3>1
    <3>3. all[j] = q[i]  BY <1>4, <3>2
    <3>. QED BY <1>4, <3>3 DEF ToSet
  <2>. QED BY <1>3, <2>1 DEF ToSet
<1>. QED BY <1>1, <1>5, <1>6, <1>7

(* What is alike in two parts is alike.                                    *)
LEMMA AlikeConcat ==
  ASSUME NEW S, NEW D, NEW p \in Seq(S), NEW q \in Seq(S),
         NEW s \in Seq(S), NEW t \in Seq(S), Alike(p, s, D), Alike(q, t, D)
  PROVE  Alike(p \o q, s \o t, D)
<1>1. Without(p \o q, D) = Without(s \o t, D)
  <2>1. Without(p \o q, D) = Without(p, D) \o Without(q, D)  BY WithoutConcat
  <2>2. Without(s \o t, D) = Without(s, D) \o Without(t, D)  BY WithoutConcat
  <2>. QED BY <2>1, <2>2 DEF Alike
<1>2. ToSet(p \o q) = ToSet(p) \union ToSet(q)  BY ToSetConcat
<1>3. ToSet(s \o t) = ToSet(s) \union ToSet(t)  BY ToSetConcat
<1>. QED BY <1>1, <1>2, <1>3 DEF Alike

-----------------------------------------------------------------------------
(* What the cut of a node keeps.                                           *)

(* The pieces of splitText are the text.                                   *)
LEMMA SplitKeeps ==
  ASSUME NEW S, NEW text \in Seq(S), NEW m \in Nat \ {0}
  PROVE  /\ SplitText(text, m) \in Seq(Seq(S))
         /\ FlattenSeq(SplitText(text, m)) = text
<1>. DEFINE Lower(a, b) == IF a < b THEN a ELSE b
<1>1. PICK n \in Nat : n = Len(text)  BY LenProperties
<1>2. PICK count \in Nat : count = (n + m - 1) \div m  OBVIOUS
<1>3. n <= count * m /\ count * m <= n + m - 1
  <2>1. n + m - 1 \in Nat  OBVIOUS
  <2>2. \A a \in Nat : /\ (a \div m) * m <= a
                       /\ a <= (a \div m) * m + m - 1
    OBVIOUS
  <2>. QED BY <1>2, <2>1, <2>2
<1>4. SplitText(text, m)
          = [k \in 1..count |-> SubSeq(text, (k - 1) * m + 1, Lower(k * m, n))]
  BY <1>1, <1>2 DEF SplitText
<1>5. PICK parts \in Seq(Seq(S)) : parts = SplitText(text, m)
  <2>1. SplitText(text, m) \in Seq(Cuts(text, S, m))  BY SplitFits
  <2>2. Cuts(text, S, m) \subseteq Seq(S)  BY DEF Cuts
  <2>. QED BY <2>1, <2>2, SeqMonotonic
<1>6. Len(parts) = count
  <2>1. DOMAIN parts = 1..count /\ DOMAIN parts = 1..Len(parts)
        /\ Len(parts) \in Nat
    BY <1>4, <1>5, LenProperties
  <2>. QED BY <2>1
<1>7. PICK g : FlattenRun(g, parts, S)  BY FlattenRuns
<1>8. /\ g[0] = <<>> /\ FlattenSeq(parts) = g[count]
      /\ \A k \in 1..count : g[k] = g[k - 1] \o parts[k]
  BY <1>6, <1>7 DEF FlattenRun
<1>. DEFINE P == {k \in 0..count : g[k] = SubSeq(text, 1, Lower(k * m, n))}
<1>9. 0 \in P
  <2>1. Lower(0 * m, n) = 0  OBVIOUS
  <2>2. SubSeq(text, 1, 0) = <<>>  BY SubSeqEmpty
  <2>3. 0 \in 0..count  OBVIOUS
  <2>. QED BY <1>8, <2>1, <2>2, <2>3
<1>10. ASSUME NEW k \in 1..count, k - 1 \in P PROVE k \in P
  <2>1. PICK x \in Nat : x = (k - 1) * m  OBVIOUS
  <2>2. k * m = x + m  BY <2>1
  <2>3. x <= n
    <3>1. x <= (count - 1) * m
      <4>1. \A a \in Nat, b \in Nat, c \in Nat : a <= b => a * c <= b * c
        OBVIOUS
      <4>2. k - 1 \in Nat /\ count - 1 \in Nat /\ k - 1 <= count - 1  OBVIOUS
      <4>. QED BY <2>1, <4>1, <4>2
    <3>2. (count - 1) * m = count * m - m  OBVIOUS
    <3>. QED BY <1>3, <3>1, <3>2
  <2>4. PICK y \in Nat : y = Lower(k * m, n)  BY <2>2
  <2>5. x <= y /\ y <= n  BY <2>2, <2>3, <2>4
  <2>6. parts[k] = SubSeq(text, x + 1, y)  BY <1>4, <1>5, <2>1, <2>4
  <2>7. Lower((k - 1) * m, n) = x  BY <2>1, <2>3
  <2>8. g[k - 1] = SubSeq(text, 1, x)  BY <1>10, <2>7
  <2>9. SubSeq(text, 1, x) \o SubSeq(text, x + 1, y) = SubSeq(text, 1, y)
    <3>1. 1 \in 1..(n + 1) /\ x \in (1 - 1)..n /\ y \in x..n  BY <2>3, <2>5
    <3>. QED BY <1>1, <3>1, ConcatAdjacentSubSeq
  <2>10. g[k] = SubSeq(text, 1, y)  BY <1>8, <2>6, <2>8, <2>9
  <2>11. k \in 0..count  OBVIOUS
  <2>. QED BY <2>4, <2>10, <2>11
<1>. HIDE DEF P
<1>11. \A k \in 0..count : k \in P  BY <1>9, <1>10, BoundedInduction
<1>12. g[count] = SubSeq(text, 1, Lower(count * m, n))
  <2>1. count \in 0..count  OBVIOUS
  <2>2. count \in P  BY <1>11, <2>1
  <2>. QED BY <2>2 DEF P
<1>13. Lower(count * m, n) = n  BY <1>3
<1>14. SubSeq(text, 1, n) = text  BY <1>1, SubSeqFull
<1>. QED BY <1>5, <1>8, <1>12, <1>13, <1>14

(* Numbered tokens go on where others end.                                 *)
LEMMA TokensFollow ==
  ASSUME NEW n \in Int, NEW a \in Nat, NEW b \in Nat
  PROVE  /\ Tokens(n, 0, a) \in Text /\ Len(Tokens(n, 0, a)) = a
         /\ Tokens(n, 0, a) \o Tokens(n, a, b) = Tokens(n, 0, a + b)
<1>1. ASSUME NEW c \in Nat, NEW d \in Nat
      PROVE  /\ Tokens(n, c, d) \in Text /\ Len(Tokens(n, c, d)) = d
             /\ \A i \in 1..d : Tokens(n, c, d)[i] = <<n, c + i>>
  <2>1. Tokens(n, c, d) \in [1..d -> Tok]  BY DEF Tokens, Tok
  <2>2. Tokens(n, c, d) \in Seq(Tok) /\ Len(Tokens(n, c, d)) = d
    BY <2>1, IsSequence
  <2>. QED BY <2>2 DEF Tokens, Text
<1>2. PICK p \in Text, q \in Text, r \in Text :
          p = Tokens(n, 0, a) /\ q = Tokens(n, a, b) /\ r = Tokens(n, 0, a + b)
  <2>1. a + b \in Nat /\ 0 \in Nat  OBVIOUS
  <2>. QED BY <1>1, <2>1
<1>3. /\ Len(p) = a /\ Len(q) = b /\ Len(r) = a + b
      /\ \A i \in 1..a : p[i] = <<n, 0 + i>>
      /\ \A i \in 1..b : q[i] = <<n, a + i>>
      /\ \A i \in 1..(a + b) : r[i] = <<n, 0 + i>>
  <2>1. a + b \in Nat /\ 0 \in Nat  OBVIOUS
  <2>. QED BY <1>1, <1>2, <2>1
<1>4. Chained(p \o q, p, q)  BY ConcatIsChained DEF Text
<1>5. PICK v \in Text : v = p \o q  BY ConcatProperties DEF Text
<1>6. Len(v) = a + b
      /\ \A i \in 1..(a + b) : v[i] = IF i <= a THEN p[i] ELSE q[i - a]
  BY <1>3, <1>4, <1>5 DEF Chained
<1>7. ASSUME NEW i \in 1..(a + b) PROVE v[i] = r[i]
  <2>1. CASE i <= a
    <3>1. i \in 1..a  BY <2>1
    <3>. QED BY <1>3, <1>6, <2>1, <3>1
  <2>2. CASE ~(i <= a)
    <3>1. PICK j \in 1..b : j = i - a  BY <2>2
    <3>2. a + j = 0 + i  BY <3>1
    <3>3. v[i] = q[j]  BY <1>6, <2>2, <3>1
    <3>. QED BY <1>3, <3>2, <3>3
  <2>. QED BY <2>1, <2>2
<1>8. v = r  BY <1>3, <1>5, <1>6, <1>7, SeqEqual DEF Text
<1>. QED BY <1>2, <1>3, <1>5, <1>8

(* The units of a node make its text.                                      *)
LEMMA UnitsMakeText ==
  ASSUME NEW nodes, IsParsed(nodes), NEW n \in DOMAIN nodes,
         NEW units \in Seq(Text),
         units = [k \in DOMAIN nodes[n].units |-> UnitText(nodes, n, k)]
  PROVE  FlattenSeq(units) = NodeText(nodes, n)
<1>1. n \in Int /\ nodes[n].units \in Seq(Nat)  BY DEF IsParsed
<1>2. PICK counts \in Seq(Nat) : counts = nodes[n].units  BY <1>1
<1>3. counts \in Seq(Int)  BY SeqMonotonic
<1>4. PICK c \in Nat : c = Len(counts) /\ DOMAIN counts = 1..c
  BY LenProperties
<1>5. \A k \in 1..c : counts[k] \in Nat  BY <1>4, ElementOfSeq
<1>6. PICK t : TotalRun(t, counts)  BY <1>3, TotalRuns
<1>7. /\ t[0] = 0 /\ Total(counts) = t[c]
      /\ \A k \in 1..c : t[k] = t[k - 1] + counts[k]
  BY <1>4, <1>6 DEF TotalRun
<1>8. Len(units) = c
  <2>1. DOMAIN units = 1..c  BY <1>2, <1>4
  <2>2. DOMAIN units = 1..Len(units) /\ Len(units) \in Nat  BY LenProperties
  <2>. QED BY <2>1, <2>2
<1>9. PICK g : FlattenRun(g, units, Tok)  BY FlattenRuns DEF Text
<1>10. /\ g[0] = <<>> /\ FlattenSeq(units) = g[c]
       /\ \A k \in 1..c : g[k] = g[k - 1] \o units[k]
  BY <1>8, <1>9 DEF FlattenRun
<1>. DEFINE P == {k \in 0..c : t[k] \in Nat /\ g[k] = Tokens(n, 0, t[k])}
<1>11. 0 \in P
  <2>1. Len(Tokens(n, 0, 0)) = 0 /\ Tokens(n, 0, 0) \in Seq(Tok)
    BY <1>1, TokensFollow DEF Text
  <2>2. Tokens(n, 0, 0) = <<>>  BY <2>1, EmptySeq
  <2>3. 0 \in 0..c  OBVIOUS
  <2>. QED BY <1>7, <1>10, <2>2, <2>3
<1>12. ASSUME NEW k \in 1..c, k - 1 \in P PROVE k \in P
  <2>1. PICK j \in 0..c : j = k - 1  OBVIOUS
  <2>2. PICK a \in Nat, b \in Nat : a = t[j] /\ b = counts[k]
    BY <1>5, <1>12, <2>1
  <2>3. t[k] = a + b  BY <1>7, <2>1, <2>2
  <2>4. Total(SubSeq(counts, 1, j)) = t[j]  BY <1>3, <1>4, <1>6, TotalOfPart
  <2>5. units[k] = Tokens(n, a, b)
    BY <1>2, <1>4, <2>1, <2>2, <2>4 DEF UnitText
  <2>6. g[k] = Tokens(n, 0, a) \o Tokens(n, a, b)
    BY <1>10, <1>12, <2>1, <2>2, <2>5
  <2>7. g[k] = Tokens(n, 0, a + b)  BY <1>1, <2>6, TokensFollow
  <2>8. k \in 0..c /\ a + b \in Nat  OBVIOUS
  <2>. QED BY <2>3, <2>7, <2>8
<1>. HIDE DEF P
<1>13. \A k \in 0..c : k \in P  BY <1>11, <1>12, BoundedInduction
<1>14. c \in 0..c  OBVIOUS
<1>15. c \in P  BY <1>13, <1>14
<1>. QED BY <1>2, <1>7, <1>10, <1>15 DEF P, NodeText

-----------------------------------------------------------------------------
(* What packSourceUnits has taken so far: the text of the units, but for   *)
(* the header row of the pieces that are closed.                           *)
PackHolds(acc, t, header, D) ==
    /\ Without(TextOf(acc.pieces) \o acc.pending.text, D) = Without(t, D)
    /\ (ToSet(TextOf(acc.pieces)) \union ToSet(acc.pending.text))
           \union ToSet(header)
       = ToSet(t) \union ToSet(header)

(* Pieces hold texts.                                                      *)
LEMMA PieceHoldsText == HoldText(Piece)
BY DEF HoldText, Piece

(* The header row comes first.                                             *)
LEMMA UnderHeaderHolds ==
  ASSUME NEW header \in Text, NEW piece \in Piece
  PROVE  UnderHeader(header, piece).text = header \o piece.text
<1>1. piece.text \in Seq(Tok)  BY DEF Piece, Text
<1>2. <<>> \o piece.text = piece.text  BY <1>1, ConcatEmptySeq
<1>. QED BY <1>2 DEF UnderHeader

(* A text filtered in two parts.                                           *)
LEMMA WithoutTexts ==
  ASSUME NEW p \in Text, NEW q \in Text, NEW D
  PROVE  /\ p \o q \in Text
         /\ Without(p, D) \in Text
         /\ Without(p \o q, D) = Without(p, D) \o Without(q, D)
         /\ ToSet(p \o q) = ToSet(p) \union ToSet(q)
<1>1. p \o q \in Text  BY ConcatProperties DEF Text
<1>2. Without(p, D) \in Text  BY WithoutIsSeq DEF Text
<1>3. Without(p \o q, D) = Without(p, D) \o Without(q, D)
  BY WithoutConcat DEF Text
<1>4. ToSet(p \o q) = ToSet(p) \union ToSet(q)  BY ToSetConcat DEF Text
<1>. QED BY <1>1, <1>2, <1>3, <1>4

(* Texts of tokens chain in any grouping.                                  *)
LEMMA TextsChain ==
  ASSUME NEW p \in Text, NEW q \in Text, NEW r \in Text
  PROVE  (p \o q) \o r = p \o (q \o r)
BY ConcatAssociative DEF Text

(* A dropped header row counts for nothing.                                *)
LEMMA HeaderIsDropped ==
  ASSUME NEW header \in Text, NEW D, ToSet(header) \subseteq D, NEW t \in Text
  PROVE  Without(header \o t, D) = Without(t, D)
<1>1. \A i \in 1..Len(header) : header[i] \in D
  BY LenProperties DEF ToSet, Text
<1>2. Without(header, D) = <<>>  BY <1>1, WithoutAll DEF Text
<1>3. Without(header \o t, D) = <<>> \o Without(t, D)
  <2>1. Without(header \o t, D) = Without(header, D) \o Without(t, D)
    BY WithoutTexts
  <2>. QED BY <1>2, <2>1
<1>4. Without(t, D) \in Seq(Tok)  BY WithoutIsSeq DEF Text
<1>. QED BY <1>3, <1>4, ConcatEmptySeq

(* A turn of the loop takes its unit.                                      *)
LEMMA PackUnitHolds ==
  ASSUME NEW acc \in [pieces : Seq(Piece), pending : Piece],
         NEW unit \in Text, NEW header \in Text, NEW maxTokens,
         NEW D, ToSet(header) \subseteq D,
         NEW t \in Text, PackHolds(acc, t, header, D)
  PROVE  PackHolds(PackUnit(acc, unit, header, maxTokens), t \o unit,
                   header, D)
<1>1. PICK pieces \in Seq(Piece), pending \in Piece :
          pieces = acc.pieces /\ pending = acc.pending
  OBVIOUS
<1>2. PICK p \in Text, q \in Text : p = TextOf(pieces) /\ q = pending.text
  BY PieceHoldsText, TextOfIsText DEF Piece
<1>3. /\ Without(p \o q, D) = Without(t, D)
      /\ (ToSet(p) \union ToSet(q)) \union ToSet(header)
         = ToSet(t) \union ToSet(header)
  BY <1>1, <1>2 DEF PackHolds
<1>4. PICK under \in Piece :
          under = UnderHeader(header, pending) /\ under.text = header \o q
  BY <1>2, UnderHeaderIsPiece, UnderHeaderHolds
<1>5. TextOf(Append(pieces, under)) = p \o (header \o q)
  BY <1>2, <1>4, PieceHoldsText, TextOfAppend
<1>6. PICK next : next = PackUnit(acc, unit, header, maxTokens)  OBVIOUS
<1>7. \/ /\ next.pieces = Append(pieces, under)
         /\ next.pending.text = unit
      \/ /\ next.pieces = pieces
         /\ next.pending.text = q \o unit
  BY <1>1, <1>2, <1>4, <1>6 DEF PackUnit, Line
<1>8. /\ p \o q \in Text /\ header \o q \in Text
      /\ p \o (header \o q) \in Text
      /\ q \o unit \in Text
  BY ConcatProperties DEF Text
<1>9. Without(t \o unit, D) = Without(p \o q, D) \o Without(unit, D)
  BY <1>3, WithoutTexts
<1>10. ToSet(t \o unit) = ToSet(t) \union ToSet(unit)  BY WithoutTexts
<1>11. CASE /\ next.pieces = Append(pieces, under)
            /\ next.pending.text = unit
  <2>1. Without(p \o (header \o q), D) = Without(p \o q, D)
    <3>1. Without(p \o (header \o q), D)
              = Without(p, D) \o Without(header \o q, D)
      BY <1>8, WithoutTexts
    <3>2. Without(p \o q, D) = Without(p, D) \o Without(q, D)  BY WithoutTexts
    <3>. QED BY <3>1, <3>2, HeaderIsDropped
  <2>2. PICK x \in Text : x = p \o (header \o q)  BY <1>8
  <2>3. Without(x \o unit, D) = Without(t \o unit, D)
    <3>1. Without(x \o unit, D) = Without(x, D) \o Without(unit, D)
      BY WithoutTexts
    <3>. QED BY <1>9, <2>1, <2>2, <3>1
  <2>4. ToSet(x) = ToSet(p) \union (ToSet(header) \union ToSet(q))
    <3>1. ToSet(header \o q) = ToSet(header) \union ToSet(q)  BY WithoutTexts
    <3>2. ToSet(p \o (header \o q)) = ToSet(p) \union ToSet(header \o q)
      BY <1>8, WithoutTexts
    <3>. QED BY <2>2, <3>1, <3>2
  <2>5. TextOf(next.pieces) = x  BY <1>5, <1>11, <2>2
  <2>6. (ToSet(x) \union ToSet(unit)) \union ToSet(header)
        = ToSet(t \o unit) \union ToSet(header)
    BY <1>3, <1>10, <2>4
  <2>. QED BY <1>6, <1>11, <2>3, <2>5, <2>6 DEF PackHolds
<1>12. CASE next.pieces = pieces /\ next.pending.text = q \o unit
  <2>1. p \o (q \o unit) = (p \o q) \o unit  BY TextsChain
  <2>2. Without((p \o q) \o unit, D) = Without(p \o q, D) \o Without(unit, D)
    BY <1>8, WithoutTexts
  <2>3. Without(p \o (q \o unit), D) = Without(t \o unit, D)
    BY <1>9, <2>1, <2>2
  <2>4. ToSet(q \o unit) = ToSet(q) \union ToSet(unit)  BY WithoutTexts
  <2>5. (ToSet(p) \union ToSet(q \o unit)) \union ToSet(header)
        = ToSet(t \o unit) \union ToSet(header)
    BY <1>3, <1>10, <2>4
  <2>. QED BY <1>2, <1>6, <1>12, <2>3, <2>5 DEF PackHolds
<1>. QED BY <1>7, <1>11, <1>12

-----------------------------------------------------------------------------
(* packSourceUnits keeps its units and adds its header row: to every       *)
(* piece, so to one at least when there is a unit.                         *)
PackKeeps(pieces, units, header, D) ==
    /\ pieces \in Seq(Piece)
    /\ Without(TextOf(pieces), D) = Without(FlattenSeq(units), D)
    /\ ToSet(TextOf(pieces)) \union ToSet(header)
       = ToSet(FlattenSeq(units)) \union ToSet(header)
    /\ units # <<>> => ToSet(header) \subseteq ToSet(TextOf(pieces))

(* It does.                                                                *)
LEMMA PackSourceUnitsKeeps ==
  ASSUME NEW units \in Seq(Text), NEW header \in Text, NEW maxTokens,
         NEW D, ToSet(header) \subseteq D
  PROVE  PackKeeps(PackSourceUnits(units, header, maxTokens), units,
                   header, D)
<1>. DEFINE A == [pieces : Seq(Piece), pending : Piece]
<1>1. PICK n \in Nat : n = Len(units)  BY LenProperties
<1>2. PICK g : PackUnitsRun(g, units, header, maxTokens)  BY PackUnitsRuns
<1>3. /\ g \in [0..n -> A]
      /\ g[0] = [pieces |-> <<>>, pending |-> NoLines]
      /\ \A k \in 1..n : g[k] = PackUnit(g[k - 1], units[k], header, maxTokens)
      /\ PackUnits(units, header, maxTokens) = g[n]
  BY <1>1, <1>2 DEF PackUnitsRun
<1>4. PICK f : FlattenRun(f, units, Tok)  BY FlattenRuns DEF Text
<1>5. /\ f \in [0..n -> Text] /\ f[0] = <<>> /\ FlattenSeq(units) = f[n]
      /\ \A k \in 1..n : f[k] = f[k - 1] \o units[k]
  BY <1>1, <1>4 DEF FlattenRun, Text
<1>. DEFINE P == {k \in 0..n :
                     /\ PackHolds(g[k], f[k], header, D)
                     /\ g[k].pending.lines \in Nat
                     /\ g[k].pending.lines = 0 => k = 0}
<1>6. 0 \in P
  <2>1. g[0].pieces = <<>> /\ g[0].pending.text = <<>>
        /\ g[0].pending.lines = 0
    BY <1>3 DEF NoLines
  <2>2. <<>> \o <<>> = <<>>
    <3>1. <<>> \in Seq({})  OBVIOUS
    <3>. QED BY <3>1, ConcatEmptySeq
  <2>3. ToSet(<<>>) = {}  BY DEF ToSet
  <2>4. PackHolds(g[0], f[0], header, D)
    BY <1>5, <2>1, <2>2, <2>3, TextOfNone DEF PackHolds
  <2>5. 0 \in 0..n  OBVIOUS
  <2>. QED BY <2>1, <2>4, <2>5
<1>7. ASSUME NEW k \in 1..n, k - 1 \in P PROVE k \in P
  <2>1. PICK j \in 0..n : j = k - 1  OBVIOUS
  <2>2. PICK acc \in A, t \in Text, unit \in Text :
            acc = g[j] /\ t = f[j] /\ unit = units[k]
    BY <1>1, <1>3, <1>5, <2>1, ElementOfSeq
  <2>3. PackHolds(acc, t, header, D) /\ acc.pending.lines \in Nat
    BY <1>7, <2>1, <2>2
  <2>4. PackHolds(PackUnit(acc, unit, header, maxTokens), t \o unit,
                  header, D)
    BY <2>3, PackUnitHolds
  <2>5. g[k] = PackUnit(acc, unit, header, maxTokens) /\ f[k] = t \o unit
    BY <1>3, <1>5, <2>1, <2>2
  <2>6. /\ g[k].pending.lines \in Nat
        /\ g[k].pending.lines # 0
    <3>1. \/ g[k].pending = Line(unit)
          \/ g[k].pending = [text |-> acc.pending.text \o unit,
                             lines |-> acc.pending.lines + 1]
      BY <2>5 DEF PackUnit
    <3>. QED BY <2>3, <3>1 DEF Line
  <2>7. k \in 0..n  OBVIOUS
  <2>. QED BY <2>4, <2>5, <2>6, <2>7
<1>. HIDE DEF P
<1>8. \A k \in 0..n : k \in P  BY <1>6, <1>7, BoundedInduction
<1>9. PICK end \in A : end = g[n]  BY <1>3
<1>10. /\ PackHolds(end, f[n], header, D)
       /\ end.pending.lines = 0 => n = 0
  <2>1. n \in 0..n  OBVIOUS
  <2>2. n \in P  BY <1>8, <2>1
  <2>. QED BY <1>9, <2>2 DEF P
<1>11. PICK pieces \in Seq(Piece), pending \in Piece :
           pieces = end.pieces /\ pending = end.pending
  OBVIOUS
<1>12. PICK p \in Text, q \in Text : p = TextOf(pieces) /\ q = pending.text
  BY PieceHoldsText, TextOfIsText DEF Piece
<1>13. PICK t \in Text : t = FlattenSeq(units) /\ t = f[n]
  <2>1. n \in 0..n  OBVIOUS
  <2>. QED BY <1>5, <2>1
<1>14. /\ Without(p \o q, D) = Without(t, D)
       /\ (ToSet(p) \union ToSet(q)) \union ToSet(header)
          = ToSet(t) \union ToSet(header)
  BY <1>10, <1>11, <1>12, <1>13 DEF PackHolds
<1>15. PICK result :
           /\ result = PackSourceUnits(units, header, maxTokens)
           /\ result = IF pending.lines = 0 THEN pieces
                       ELSE Append(pieces, UnderHeader(header, pending))
  BY <1>3, <1>9, <1>11 DEF PackSourceUnits
<1>16. CASE n = 0
  <2>1. units = <<>>  BY <1>1, <1>16, EmptySeq
  <2>2. end = [pieces |-> <<>>, pending |-> NoLines]  BY <1>3, <1>9, <1>16
  <2>3. result = <<>> /\ pieces = <<>> /\ q = <<>>
    BY <1>11, <1>12, <1>15, <2>2 DEF NoLines
  <2>4. t = <<>>  BY <1>5, <1>13, <1>16
  <2>5. TextOf(result) = <<>>  BY <2>3, TextOfNone
  <2>6. result \in Seq(Piece)  BY <2>3
  <2>. QED BY <1>13, <1>15, <2>1, <2>4, <2>5, <2>6 DEF PackKeeps
<1>17. CASE n # 0
  <2>1. PICK under \in Piece :
            under = UnderHeader(header, pending) /\ under.text = header \o q
    BY <1>12, UnderHeaderIsPiece, UnderHeaderHolds
  <2>2. result = Append(pieces, under)  BY <1>10, <1>11, <1>15, <1>17, <2>1
  <2>3. result \in Seq(Piece)  BY <2>2, AppendProperties
  <2>4. TextOf(result) = p \o (header \o q)
    BY <1>12, <2>1, <2>2, PieceHoldsText, TextOfAppend
  <2>5. header \o q \in Text  BY WithoutTexts
  <2>6. Without(p \o (header \o q), D) = Without(t, D)
    <3>1. Without(p \o (header \o q), D)
              = Without(p, D) \o Without(header \o q, D)
      BY <2>5, WithoutTexts
    <3>2. Without(p \o q, D) = Without(p, D) \o Without(q, D)  BY WithoutTexts
    <3>. QED BY <1>14, <3>1, <3>2, HeaderIsDropped
  <2>7. ToSet(p \o (header \o q))
            = ToSet(p) \union (ToSet(header) \union ToSet(q))
    <3>1. ToSet(header \o q) = ToSet(header) \union ToSet(q)  BY WithoutTexts
    <3>2. ToSet(p \o (header \o q)) = ToSet(p) \union ToSet(header \o q)
      BY <2>5, WithoutTexts
    <3>. QED BY <3>1, <3>2
  <2>. QED BY <1>13, <1>14, <1>15, <2>3, <2>4, <2>6, <2>7 DEF PackKeeps
<1>. QED BY <1>16, <1>17

-----------------------------------------------------------------------------
(* The tokens of a node that is not lost, and of all of them.              *)
KeptText(nodes, lost, n) == IF n \in lost THEN <<>> ELSE NodeText(nodes, n)

Source(nodes, lost) ==
    FlattenSeq([n \in DOMAIN nodes |-> KeptText(nodes, lost, n)])

(* Pieces that hold a node, but for its header row.                        *)
HoldNode(pieces, nodes, n) ==
    /\ pieces \in Seq(Piece)
    /\ Alike(TextOf(pieces), NodeText(nodes, n), HeaderTokens(nodes))

(* The units of a node, each a text, make its text.                        *)
UnitsOf(units, nodes, n) ==
    /\ units = [k \in DOMAIN nodes[n].units |-> UnitText(nodes, n, k)]
    /\ units \in Seq(Text)
    /\ Len(units) = Len(nodes[n].units)
    /\ FlattenSeq(units) = NodeText(nodes, n)

LEMMA UnitsAreTexts ==
  ASSUME NEW nodes, IsParsed(nodes), NEW n \in DOMAIN nodes
  PROVE  \E units : UnitsOf(units, nodes, n)
<1>. DEFINE units == [k \in DOMAIN nodes[n].units |-> UnitText(nodes, n, k)]
<1>1. n \in Int  BY DEF IsParsed
<1>2. PICK g : Offsets(g, nodes, n)  BY UnitsRise
<1>3. PICK c \in Nat : c = Len(nodes[n].units)  BY <1>2 DEF Offsets
<1>4. /\ g \in [0..c -> Nat] /\ DOMAIN nodes[n].units = 1..c
      /\ \A k \in 1..c : UnitText(nodes, n, k) \in Rising(n, g[k - 1], g[k])
  BY <1>2, <1>3 DEF Offsets
<1>5. units \in [1..c -> Text]
  <2>1. ASSUME NEW k \in 1..c PROVE UnitText(nodes, n, k) \in Text
    <3>1. k - 1 \in 0..c /\ k \in 0..c  BY <1>3
    <3>2. g[k - 1] \in Int /\ g[k] \in Int  BY <1>4, <3>1
    <3>. QED BY <1>1, <1>4, <3>2, RisingIsText
  <2>. QED BY <1>4, <2>1
<1>6. units \in Seq(Text) /\ Len(units) = c  BY <1>5, IsASeq
<1>7. FlattenSeq(units) = NodeText(nodes, n)  BY <1>6, UnitsMakeText
<1>. HIDE DEF units
<1>8. UnitsOf(units, nodes, n)  BY <1>3, <1>6, <1>7 DEF units, UnitsOf
<1>. QED BY <1>8

(* The header row of a table is its first unit.                            *)
LEMMA HeaderIsFirst ==
  ASSUME NEW nodes, IsParsed(nodes), NEW n \in DOMAIN nodes,
         nodes[n].kind = "table"
  PROVE  /\ UnitText(nodes, n, 1) \in Text
         /\ ToSet(UnitText(nodes, n, 1)) \subseteq HeaderTokens(nodes)
<1>1. n \in Int /\ nodes[n].units \in Seq(Nat) /\ nodes[n].units # <<>>
  BY DEF IsParsed
<1>2. PICK counts \in Seq(Nat) : counts = nodes[n].units  BY <1>1
<1>3. PICK c \in Nat : c = Len(counts)  BY LenProperties
<1>4. 1 \in 1..c  BY <1>1, <1>2, <1>3, EmptySeq
<1>5. PICK h \in Nat : h = counts[1]  BY <1>3, <1>4, ElementOfSeq
<1>6. counts \in Seq(Int)  BY SeqMonotonic
<1>7. Total(SubSeq(counts, 1, 0)) = 0
  <2>1. PICK t : TotalRun(t, counts)  BY <1>6, TotalRuns
  <2>2. 0 \in 0..Len(counts)  BY <1>3
  <2>3. Total(SubSeq(counts, 1, 0)) = t[0]  BY <1>6, <2>1, <2>2, TotalOfPart
  <2>. QED BY <2>1, <2>3 DEF TotalRun
<1>8. UnitText(nodes, n, 1) = Tokens(n, 0, h)
  <2>1. 1 - 1 = 0  OBVIOUS
  <2>. QED BY <1>2, <1>5, <1>7, <2>1 DEF UnitText
<1>9. Tokens(n, 0, h) \in Text  BY <1>1, TokensFollow
<1>10. ToSet(Tokens(n, 0, h)) \subseteq HeaderTokens(nodes)
  <2>1. ASSUME NEW t \in ToSet(Tokens(n, 0, h)) PROVE t \in HeaderTokens(nodes)
    <3>1. PICK i \in 1..h : t = <<n, 0 + i>>  BY <2>1 DEF ToSet, Tokens
    <3>2. t = <<n, i>>  BY <3>1
    <3>3. t \in {<<n, j>> : j \in 1..nodes[n].units[1]}  BY <1>2, <1>5, <3>2
    <3>. QED BY <3>3 DEF HeaderTokens
  <2>. QED BY <2>1
<1>. QED BY <1>8, <1>9, <1>10

(* The rows of a table below its header.                                   *)
LEMMA TableKeeps ==
  ASSUME NEW nodes, IsParsed(nodes), NEW n \in DOMAIN nodes, NEW maxTokens,
         nodes[n].kind = "table", Len(nodes[n].units) # 1
  PROVE  HoldNode(SplitOversizeNode(nodes, n, maxTokens), nodes, n)
<1>. DEFINE D == HeaderTokens(nodes)
<1>1. PICK units \in Seq(Text) : UnitsOf(units, nodes, n)
  BY UnitsAreTexts DEF UnitsOf
<1>2. PICK c \in Nat : c = Len(units) /\ DOMAIN units = 1..c  BY LenProperties
<1>3. c # 0 /\ c # 1  BY <1>1, <1>2, EmptySeq DEF UnitsOf, IsParsed
<1>4. PICK header \in Text, us \in Seq(Text) :
          /\ header = Head(units) /\ us = Tail(units)
          /\ header = units[1] /\ Len(us) = c - 1
          /\ units = <<header>> \o us
  <2>1. units # <<>>  BY <1>2, <1>3, EmptySeq
  <2>2. Head(units) \in Text /\ Head(units) = units[1]
        /\ Tail(units) \in Seq(Text) /\ Len(Tail(units)) = c - 1
        /\ \A k \in 1..(c - 1) : Tail(units)[k] = units[k + 1]
    BY <1>2, <2>1, HeadTailProperties
  <2>3. PICK h \in Text, us \in Seq(Text) : h = Head(units) /\ us = Tail(units)
    BY <2>2
  <2>4. <<h>> \in Seq(Text) /\ Len(<<h>>) = 1 /\ <<h>>[1] = h  OBVIOUS
  <2>5. PICK v \in Seq(Text) : v = <<h>> \o us  BY <2>4, ConcatProperties
  <2>6. Chained(v, <<h>>, us)  BY <2>4, <2>5, ConcatIsChained
  <2>7. c - 1 \in Nat /\ 1 + (c - 1) = c  BY <1>3
  <2>8. Len(v) = c
        /\ \A i \in 1..c : v[i] = IF i <= 1 THEN <<h>>[i] ELSE us[i - 1]
    BY <2>2, <2>3, <2>4, <2>6, <2>7 DEF Chained
  <2>9. ASSUME NEW i \in 1..c PROVE v[i] = units[i]
    <3>1. CASE i <= 1
      <4>1. i = 1  BY <3>1
      <4>. QED BY <2>2, <2>3, <2>4, <2>8, <3>1, <4>1
    <3>2. CASE ~(i <= 1)
      <4>1. i - 1 \in 1..(c - 1) /\ i - 1 + 1 = i  BY <3>2
      <4>. QED BY <2>2, <2>3, <2>8, <3>2, <4>1
    <3>. QED BY <3>1, <3>2
  <2>10. v = units  BY <1>2, <2>5, <2>8, <2>9, SeqEqual
  <2>. QED BY <2>2, <2>3, <2>5, <2>10
<1>5. ToSet(header) \subseteq D
  <2>1. 1 \in 1..c  BY <1>3
  <2>2. 1 \in DOMAIN nodes[n].units /\ units[1] = UnitText(nodes, n, 1)
    BY <1>1, <1>2, <2>1 DEF UnitsOf
  <2>. QED BY <1>4, <2>2, HeaderIsFirst
<1>6. PICK pieces : /\ pieces = PackSourceUnits(us, header, maxTokens)
                    /\ PackKeeps(pieces, us, header, D)
  <2>. HIDE DEF D
  <2>. QED BY <1>5, PackSourceUnitsKeeps
<1>7. SplitOversizeNode(nodes, n, maxTokens) = pieces
  BY <1>1, <1>4, <1>6 DEF SplitOversizeNode, UnitsOf
<1>8. PICK rest \in Text : rest = FlattenSeq(us)  BY FlattenIsSequence DEF Text
<1>9. NodeText(nodes, n) = header \o rest
  <2>1. <<header>> \in Seq(Text) /\ Len(<<header>>) = 1
        /\ <<header>>[1] = header
    OBVIOUS
  <2>2. FlattenSeq(<<header>>) = header  BY <2>1, FlattenOfOne
  <2>3. FlattenSeq(<<header>> \o us) = FlattenSeq(<<header>>) \o FlattenSeq(us)
    BY <2>1, FlattenConcat DEF Text
  <2>. QED BY <1>1, <1>4, <1>8, <2>2, <2>3 DEF UnitsOf
<1>10. Without(header \o rest, D) = Without(rest, D)
  <2>. HIDE DEF D
  <2>. QED BY <1>5, HeaderIsDropped
<1>11. ToSet(header \o rest) = ToSet(header) \union ToSet(rest)
  BY WithoutTexts
<1>12. us # <<>>  BY <1>2, <1>3, <1>4, EmptySeq
<1>. HIDE DEF D
<1>13. /\ Without(TextOf(pieces), D) = Without(header \o rest, D)
       /\ ToSet(TextOf(pieces)) = ToSet(header \o rest)
  BY <1>6, <1>8, <1>10, <1>11, <1>12 DEF PackKeeps
<1>. QED BY <1>6, <1>7, <1>9, <1>13 DEF PackKeeps, HoldNode, Alike, D

(* The items of a list.                                                    *)
LEMMA ListKeeps ==
  ASSUME NEW nodes, IsParsed(nodes), NEW n \in DOMAIN nodes, NEW maxTokens,
         nodes[n].kind # "table", nodes[n].kind = "list"
  PROVE  HoldNode(SplitOversizeNode(nodes, n, maxTokens), nodes, n)
<1>. DEFINE D == HeaderTokens(nodes)
<1>1. PICK units \in Seq(Text) : UnitsOf(units, nodes, n)
  BY UnitsAreTexts DEF UnitsOf
<1>2. <<>> \in Text /\ ToSet(<<>>) = {}  BY DEF Text, ToSet
<1>3. PICK pieces : /\ pieces = PackSourceUnits(units, <<>>, maxTokens)
                    /\ PackKeeps(pieces, units, <<>>, D)
  <2>. HIDE DEF D
  <2>. QED BY <1>2, PackSourceUnitsKeeps
<1>4. SplitOversizeNode(nodes, n, maxTokens) = pieces
  BY <1>1, <1>3 DEF SplitOversizeNode, UnitsOf
<1>. HIDE DEF D
<1>5. /\ Without(TextOf(pieces), D) = Without(NodeText(nodes, n), D)
      /\ ToSet(TextOf(pieces)) = ToSet(NodeText(nodes, n))
      /\ pieces \in Seq(Piece)
  <2>1. PICK text : text = NodeText(nodes, n) /\ text = FlattenSeq(units)
    BY <1>1 DEF UnitsOf
  <2>2. PICK S, T : S = ToSet(TextOf(pieces)) /\ T = ToSet(text)  OBVIOUS
  <2>3. S \union {} = T \union {}  BY <1>2, <1>3, <2>1, <2>2 DEF PackKeeps
  <2>4. S = T  BY <2>3
  <2>. QED BY <1>3, <2>1, <2>2, <2>4 DEF PackKeeps
<1>. QED BY <1>4, <1>5 DEF HoldNode, Alike, D

(* Any other node is cut anywhere.                                         *)
LEMMA CutKeeps ==
  ASSUME NEW nodes, IsParsed(nodes), NEW n \in DOMAIN nodes,
         NEW maxTokens \in Nat, maxTokens > 1,
         nodes[n].kind # "table", nodes[n].kind # "list"
  PROVE  HoldNode(SplitOversizeNode(nodes, n, maxTokens), nodes, n)
<1>1. PICK m \in Nat \ {0} : m = maxTokens - Fence(nodes, n)  BY DEF Fence
<1>2. PICK text \in Seq(Tok) : text = NodeText(nodes, n)
  BY NodeTextRises, RisingIsText DEF Text
<1>3. PICK cut \in Seq(Text) : /\ cut = SplitText(text, m)
                               /\ FlattenSeq(cut) = text
  BY SplitKeeps DEF Text
<1>4. PICK c \in Nat : c = Len(cut) /\ DOMAIN cut = 1..c  BY LenProperties
<1>. DEFINE lines == [k \in DOMAIN cut |-> Line(cut[k])]
<1>5. \A k \in 1..c : cut[k] \in Text  BY <1>4, ElementOfSeq
<1>6. lines \in [1..c -> Piece]  BY <1>4, <1>5 DEF Line, Piece
<1>7. lines \in Seq(Piece)  BY <1>6, IsASeq
<1>8. TextOf(lines) = text
  <2>1. [k \in DOMAIN lines |-> lines[k].text] = [k \in DOMAIN cut |-> cut[k]]
    BY DEF Line
  <2>2. [k \in DOMAIN cut |-> cut[k]] = cut  BY <1>4
  <2>. QED BY <1>3, <2>1, <2>2 DEF TextOf
<1>9. SplitOversizeNode(nodes, n, maxTokens) = lines
  BY <1>1, <1>2, <1>3 DEF SplitOversizeNode
<1>. HIDE DEF lines
<1>. QED BY <1>2, <1>7, <1>8, <1>9 DEF HoldNode, Alike

(* Chunks made of pieces hold what the pieces hold.                        *)
LEMMA MadeOfPieces ==
  ASSUME NEW pieces, NEW made, DOMAIN made = DOMAIN pieces,
         \A i \in DOMAIN pieces : made[i].text = pieces[i].text
  PROVE  TextOf(made) = TextOf(pieces)
BY DEF TextOf

(* A table that is a header row alone is as long as the row.               *)
LEMMA HeaderIsWhole ==
  ASSUME NEW nodes, IsParsed(nodes), NEW n \in DOMAIN nodes,
         NEW o, IsOptions(o),
         nodes[n].kind = "table", Len(nodes[n].units) = 1
  PROVE  /\ nodes[n].units[1] \in Nat
         /\ CountTokens([text |-> NodeText(nodes, n),
                         lines |-> Len(nodes[n].units)], o)
                + FenceTokens(nodes, n, NodeText(nodes, n), o)
                    = nodes[n].units[1]
<1>. DEFINE whole == [text |-> NodeText(nodes, n),
                      lines |-> Len(nodes[n].units)]
<1>1. PICK counts \in Seq(Nat) : counts = nodes[n].units  BY DEF IsParsed
<1>2. counts \in Seq(Int)  BY SeqMonotonic
<1>3. Total(counts) = counts[1]  BY <1>1, <1>2, TotalOf
<1>4. PICK h \in Nat : h = counts[1]
  <2>1. Len(counts) = 1  BY <1>1
  <2>2. 1 \in 1..Len(counts)  BY <2>1
  <2>. QED BY <2>2, ElementOfSeq
<1>5. Len(whole.text) = h
  <2>1. n \in Int /\ 0 \in Nat  BY DEF IsParsed
  <2>2. Len(Tokens(n, 0, h)) = h  BY <2>1, TokensFollow
  <2>3. whole.text = Tokens(n, 0, h)  BY <1>1, <1>3, <1>4 DEF NodeText
  <2>. QED BY <2>2, <2>3
<1>6. whole.lines - 1 = 0 /\ 0 * o.join = 0  BY DEF IsOptions
<1>7. CountTokens(whole, o) = h
  <2>1. CountTokens(whole, o) = Len(whole.text) + (whole.lines - 1) * o.join
    BY DEF CountTokens
  <2>2. h + 0 = h  OBVIOUS
  <2>. HIDE DEF whole
  <2>. QED BY <1>5, <1>6, <2>1, <2>2
<1>8. FenceTokens(nodes, n, NodeText(nodes, n), o) = 0  BY DEF FenceTokens
<1>9. nodes[n].units[1] = h /\ h + 0 = h  BY <1>1, <1>4
<1>. HIDE DEF whole
<1>. QED BY <1>7, <1>8, <1>9 DEF whole

(* Over the ceiling, it is cut to the rows below it, and there are none.   *)
LEMMA LoneHeaderIsLost ==
  ASSUME NEW nodes, IsParsed(nodes), NEW n \in DOMAIN nodes,
         nodes[n].kind = "table", Len(nodes[n].units) = 1, NEW maxTokens
  PROVE  SplitOversizeNode(nodes, n, maxTokens) = <<>>
<1>1. PICK units \in Seq(Text) : UnitsOf(units, nodes, n)
  BY UnitsAreTexts DEF UnitsOf
<1>2. Len(units) = 1 /\ units # <<>>  BY <1>1, EmptySeq DEF UnitsOf
<1>3. Tail(units) = <<>> /\ Head(units) \in Text
  <2>1. /\ Tail(units) \in Seq(Text) /\ Len(Tail(units)) = 1 - 1
        /\ Head(units) \in Text
    BY <1>2, HeadTailProperties
  <2>2. Len(Tail(units)) = 0  BY <2>1
  <2>. QED BY <2>1, <2>2, EmptySeq
<1>4. PICK header \in Text : header = Head(units)  BY <1>3
<1>5. PICK none \in Seq(Text) : none = <<>>  BY EmptySeq
<1>6. PICK g : PackUnitsRun(g, none, header, maxTokens)  BY PackUnitsRuns
<1>7. PackUnits(none, header, maxTokens)
          = [pieces |-> <<>>, pending |-> NoLines]
  <2>1. Len(none) = 0  BY <1>5
  <2>. QED BY <1>6, <2>1 DEF PackUnitsRun
<1>8. PackSourceUnits(none, header, maxTokens) = <<>>
  BY <1>7 DEF PackSourceUnits, NoLines
<1>. QED BY <1>1, <1>3, <1>4, <1>5, <1>8 DEF SplitOversizeNode, UnitsOf

(* The chunks of a node hold its text, but for such a header.              *)
LEMMA NodeKeeps ==
  ASSUME NEW nodes, IsParsed(nodes), NEW n \in DOMAIN nodes,
         NEW o, IsOptions(o)
  PROVE  Alike(TextOf(ChunkNode(nodes, n, o)),
               KeptText(nodes, LoneHeaders(nodes, o.maxTokens), n),
               HeaderTokens(nodes))
<1>. DEFINE ChunkOf(piece) == Chunk(piece.text,
                                    CountTokens(piece, o)
                                        + FenceTokens(nodes, n, piece.text, o),
                                    HeadingPath(nodes, n))
            whole  == [text |-> NodeText(nodes, n),
                       lines |-> Len(nodes[n].units)]
            pieces == SplitOversizeNode(nodes, n, o.maxTokens)
            cut == [i \in DOMAIN pieces |-> ChunkOf(pieces[i])]
<1>1. ChunkNode(nodes, n, o) = IF ChunkOf(whole).tokenCount <= o.maxTokens
                               THEN <<ChunkOf(whole)>> ELSE cut
  BY DEF ChunkNode
<1>2. PICK text \in Text : text = NodeText(nodes, n)
  BY NodeTextRises, RisingIsText
<1>3. TextOf(<<ChunkOf(whole)>>) = text
  <2>1. ChunkOf(whole).text = text  BY <1>2 DEF Chunk
  <2>. HIDE DEF ChunkOf, whole
  <2>2. PICK c : c = ChunkOf(whole) /\ c.text = text  BY <2>1
  <2>3. HoldText({c})  BY <2>2 DEF HoldText
  <2>4. TextOf(<<c>>) = c.text  BY <2>3, TextOfOne
  <2>. QED BY <2>2, <2>4
<1>4. o.maxTokens \in Int  BY DEF IsOptions
<1>5. ASSUME nodes[n].kind = "table", Len(nodes[n].units) = 1
      PROVE  /\ ChunkOf(whole).tokenCount = nodes[n].units[1]
             /\ nodes[n].units[1] \in Nat
  BY <1>5, HeaderIsWhole DEF Chunk
<1>6. TextOf(cut) = TextOf(pieces)
  <2>1. DOMAIN cut = DOMAIN pieces
        /\ \A i \in DOMAIN pieces : cut[i].text = pieces[i].text
    BY DEF Chunk
  <2>. HIDE DEF cut, pieces
  <2>. QED BY <2>1, MadeOfPieces
<1>. HIDE DEF ChunkOf, whole, pieces, cut
<1>7. CASE n \in LoneHeaders(nodes, o.maxTokens)
  <2>1. /\ nodes[n].kind = "table" /\ Len(nodes[n].units) = 1
        /\ nodes[n].units[1] > o.maxTokens
    BY <1>7 DEF LoneHeaders
  <2>2. ~(ChunkOf(whole).tokenCount <= o.maxTokens)  BY <1>4, <1>5, <2>1
  <2>3. TextOf(pieces) = <<>>
    BY <2>1, LoneHeaderIsLost, TextOfNone DEF pieces
  <2>. QED BY <1>1, <1>6, <1>7, <2>2, <2>3 DEF KeptText, Alike
<1>8. CASE n \notin LoneHeaders(nodes, o.maxTokens)
  <2>1. ASSUME ~(ChunkOf(whole).tokenCount <= o.maxTokens)
        PROVE  HoldNode(pieces, nodes, n)
    <3>1. CASE nodes[n].kind = "table"
      <4>1. ASSUME Len(nodes[n].units) = 1 PROVE FALSE
        BY <1>4, <1>5, <1>8, <2>1, <3>1, <4>1 DEF LoneHeaders
      <4>. QED BY <3>1, <4>1, TableKeeps DEF pieces
    <3>2. CASE nodes[n].kind # "table" /\ nodes[n].kind = "list"
      BY <3>2, ListKeeps DEF pieces
    <3>3. CASE nodes[n].kind # "table" /\ nodes[n].kind # "list"
      BY <3>3, CutKeeps DEF IsOptions, pieces
    <3>. QED BY <3>1, <3>2, <3>3
  <2>2. KeptText(nodes, LoneHeaders(nodes, o.maxTokens), n) = text
    BY <1>2, <1>8 DEF KeptText
  <2>. QED BY <1>1, <1>2, <1>3, <1>6, <2>1, <2>2 DEF HoldNode, Alike
<1>. QED BY <1>7, <1>8

(* Sound chunks hold texts.                                                *)
LEMMA SoundChunksHoldText ==
  ASSUME NEW nodes, NEW format, NEW maxTokens
  PROVE  HoldText(SoundChunks(nodes, format, maxTokens))
BY DEF HoldText, SoundChunks, InSections, WithinCeiling, Chunks

(* The nodes' texts.                                                       *)
LEMMA SourceIsText ==
  ASSUME NEW nodes, IsParsed(nodes), NEW lost
  PROVE  \E texts \in Seq(Text) :
             /\ texts = [n \in DOMAIN nodes |-> KeptText(nodes, lost, n)]
             /\ Len(texts) = Len(nodes)
             /\ Source(nodes, lost) = FlattenSeq(texts)
             /\ Source(nodes, lost) \in Text
<1>. DEFINE texts == [n \in DOMAIN nodes |-> KeptText(nodes, lost, n)]
<1>1. Len(nodes) \in Nat /\ DOMAIN nodes = 1..Len(nodes)  BY DEF IsParsed
<1>2. ASSUME NEW n \in DOMAIN nodes PROVE KeptText(nodes, lost, n) \in Text
  <2>1. NodeText(nodes, n) \in Text  BY NodeTextRises, RisingIsText
  <2>2. <<>> \in Text  BY DEF Text
  <2>. QED BY <2>1, <2>2 DEF KeptText
<1>3. texts \in [1..Len(nodes) -> Text]  BY <1>1, <1>2
<1>4. texts \in Seq(Text) /\ Len(texts) = Len(nodes)  BY <1>1, <1>3, IsASeq
<1>5. Source(nodes, lost) = FlattenSeq(texts)  BY DEF Source
<1>. HIDE DEF texts
<1>6. FlattenSeq(texts) \in Text  BY <1>4, FlattenIsSequence DEF Text
<1>. QED BY <1>4, <1>5, <1>6 DEF texts

(* The chunks of a Markdown body hold it, node by node.                    *)
LEMMA MarkdownKeeps ==
  ASSUME NEW nodes, IsParsed(nodes), NEW o, IsOptions(o)
  PROVE  Alike(TextOf(ChunkMarkdown(nodes, o)),
               Source(nodes, LoneHeaders(nodes, o.maxTokens)),
               HeaderTokens(nodes))
<1>. DEFINE C == SoundChunks(nodes, "markdown", o.maxTokens)
            D == HeaderTokens(nodes)
            L == LoneHeaders(nodes, o.maxTokens)
            each == [n \in DOMAIN nodes |-> ChunkNode(nodes, n, o)]
<1>1. PICK c \in Nat : c = Len(nodes) /\ DOMAIN nodes = 1..c  BY DEF IsParsed
<1>2. HoldText(C)  BY SoundChunksHoldText
<1>3. each \in [1..c -> Seq(C)]  BY <1>1, NodeIsSound
<1>4. \A n \in 1..c : each[n] = ChunkNode(nodes, n, o)  BY <1>1
<1>5. ChunkMarkdown(nodes, o) = FlattenSeq(each)  BY DEF ChunkMarkdown
<1>. HIDE DEF each, C
<1>6. each \in Seq(Seq(C)) /\ Len(each) = c  BY <1>3, IsASeq
<1>7. PICK texts \in Seq(Text) :
          /\ Len(texts) = c /\ Source(nodes, L) = FlattenSeq(texts)
          /\ \A n \in 1..c : texts[n] = KeptText(nodes, L, n)
  BY <1>1, SourceIsText
<1>8. PICK g : FlattenRun(g, each, C)  BY <1>6, FlattenRuns
<1>9. /\ g \in [0..c -> Seq(C)] /\ g[0] = <<>> /\ FlattenSeq(each) = g[c]
      /\ \A k \in 1..c : g[k] = g[k - 1] \o each[k]
  BY <1>6, <1>8 DEF FlattenRun
<1>10. PICK f : FlattenRun(f, texts, Tok)  BY FlattenRuns DEF Text
<1>11. /\ f \in [0..c -> Text] /\ f[0] = <<>> /\ FlattenSeq(texts) = f[c]
       /\ \A k \in 1..c : f[k] = f[k - 1] \o texts[k]
  BY <1>7, <1>10 DEF FlattenRun, Text
<1>. DEFINE P == {k \in 0..c : Alike(TextOf(g[k]), f[k], D)}
<1>12. 0 \in P
  <2>1. 0 \in 0..c  OBVIOUS
  <2>. QED BY <1>9, <1>11, <2>1, TextOfNone DEF Alike
<1>13. ASSUME NEW k \in 1..c, k - 1 \in P PROVE k \in P
  <2>1. PICK j \in 0..c : j = k - 1  OBVIOUS
  <2>2. PICK made \in Seq(C), next \in Seq(C) :
            made = g[j] /\ next = ChunkNode(nodes, k, o)
    BY <1>3, <1>4, <1>9, <2>1
  <2>3. PICK s \in Text, t \in Text : s = f[j] /\ t = texts[k]
    BY <1>7, <1>11, <2>1, ElementOfSeq
  <2>4. PICK p \in Text, q \in Text : p = TextOf(made) /\ q = TextOf(next)
    BY <1>2, TextOfIsText
  <2>5. Alike(p, s, D)  BY <1>13, <2>1, <2>2, <2>3, <2>4
  <2>6. Alike(q, t, D)
    <3>1. k \in DOMAIN nodes  BY <1>1
    <3>. QED BY <1>7, <2>2, <2>3, <2>4, <3>1, NodeKeeps
  <2>. HIDE DEF D
  <2>7. Alike(p \o q, s \o t, D)  BY <2>5, <2>6, AlikeConcat DEF Text
  <2>8. TextOf(made \o next) = p \o q  BY <1>2, <2>4, TextOfConcat
  <2>9. g[k] = made \o next /\ f[k] = s \o t
    BY <1>4, <1>9, <1>11, <2>1, <2>2, <2>3
  <2>10. k \in 0..c  OBVIOUS
  <2>. QED BY <2>7, <2>8, <2>9, <2>10
<1>. HIDE DEF P
<1>14. \A k \in 0..c : k \in P  BY <1>12, <1>13, BoundedInduction
<1>15. c \in 0..c  OBVIOUS
<1>16. c \in P  BY <1>14, <1>15
<1>. QED BY <1>5, <1>7, <1>9, <1>11, <1>16 DEF P

(* The chunks of a plain text are the text.                                *)
LEMMA PlainTextKeeps ==
  ASSUME NEW nodes, IsParsed(nodes), NEW o, IsOptions(o)
  PROVE  TextOf(ChunkText(nodes, o)) = Source(nodes, {})
<1>1. PICK text \in Seq(Tok) : text = Source(nodes, {})
  BY SourceIsText DEF Text
<1>2. PICK m \in Nat \ {0} : m = o.maxTokens  BY DEF IsOptions
<1>3. PICK pieces \in Seq(Text) : /\ pieces = SplitText(text, m)
                                  /\ FlattenSeq(pieces) = text
  BY SplitKeeps DEF Text
<1>. DEFINE cut == [i \in DOMAIN pieces |->
                       Chunk(pieces[i], Len(pieces[i]), <<>>)]
<1>4. TextOf(cut) = FlattenSeq(pieces)
  <2>1. [i \in DOMAIN cut |-> cut[i].text] = [i \in DOMAIN pieces |-> pieces[i]]
    BY DEF Chunk
  <2>2. [i \in DOMAIN pieces |-> pieces[i]] = pieces  BY LenProperties
  <2>. QED BY <2>1, <2>2 DEF TextOf
<1>5. text = FlattenSeq([n \in DOMAIN nodes |-> NodeText(nodes, n)])
  BY <1>1 DEF Source, KeptText
<1>6. ChunkText(nodes, o) = cut  BY <1>2, <1>3, <1>5 DEF ChunkText
<1>. QED BY <1>1, <1>3, <1>4, <1>6

(* The headers a document of this format loses.                            *)
LostOf(nodes, format, maxTokens) ==
    IF format = "markdown" THEN LoneHeaders(nodes, maxTokens) ELSE {}

(* So the chunks of a body hold its tokens, once and in their order, but   *)
(* for the header rows.                                                    *)
LEMMA CreatedChunksKeepText ==
  ASSUME NEW nodes, IsParsed(nodes), NEW format, NEW o, IsOptions(o)
  PROVE  TextIsKept(nodes, LostOf(nodes, format, o.maxTokens),
                    CreateChunks(nodes, format, o))
<1>. DEFINE C == SoundChunks(nodes, format, o.maxTokens)
            D == HeaderTokens(nodes)
            L == LostOf(nodes, format, o.maxTokens)
<1>1. PICK cut \in Seq(C) :
          cut = IF format = "markdown" THEN ChunkMarkdown(nodes, o)
                                       ELSE ChunkText(nodes, o)
  <2>1. CASE format = "markdown"  BY <2>1, BodyIsSound
  <2>2. CASE format # "markdown"
    <3>1. C = WithinCeiling(nodes, o.maxTokens)  BY <2>2 DEF SoundChunks
    <3>. QED BY <2>2, <3>1, BodyIsSound
  <2>. QED BY <2>1, <2>2
<1>2. Mergeable(C, o, Titles(nodes))  BY SoundChunksMerge
<1>. HIDE DEF C
<1>3. TextOf(PackChunks(cut, o)) = TextOf(cut)  BY <1>2, ChunksArePacked
<1>4. Alike(TextOf(cut), Source(nodes, L), D)
  <2>1. CASE format = "markdown"  BY <1>1, <2>1, MarkdownKeeps DEF LostOf
  <2>2. CASE format # "markdown"
    BY <1>1, <2>2, PlainTextKeeps DEF Alike, LostOf
  <2>. QED BY <2>1, <2>2
<1>5. CreateChunks(nodes, format, o) = PackChunks(cut, o)
  BY <1>1 DEF CreateChunks
<1>6. Alike(TextOf(CreateChunks(nodes, format, o)), Source(nodes, L), D)
  BY <1>3, <1>4, <1>5
<1>. HIDE DEF L
<1>. QED BY <1>6 DEF Alike, TextOf, Source, KeptText, TextIsKept, L

-----------------------------------------------------------------------------
(* The document in hand, from its parsed nodes to its rows.                *)
Fields == {"page", "body", "nodes", "format", "join", "chunks", "sent",
           "vectors", "rows"}

(* A document is a record of its fields.                                   *)
HasFields(d) == d = [f \in Fields |-> d[f]]

(* The nodes of a document are parsed, and its chunks are chunks of them.  *)
IsDoc(d) ==
    /\ HasFields(d)
    /\ IsParsed(d.nodes)
    /\ d.join \in Int
    /\ d.chunks \in Seq(SoundChunks(d.nodes, d.format, MaxTokens))

(* The vectors so far are those of the first texts.                        *)
VectorsAlign(d) ==
    /\ d.vectors \in Seq(Text)
    /\ Len(d.vectors) <= Len(d.chunks)
    /\ \A i \in 1..Len(d.vectors) : d.vectors[i] = d.chunks[i].text

(* The batch sent last kept the limits.                                    *)
BatchFits ==
    /\ Len(doc.sent) <= MaxInputs
    /\ doc.sent # <<>> =>
           /\ TokensOf(doc.sent[1], Last(doc.sent)) <= MaxRequestTokens
           /\ \A k \in DOMAIN doc.sent :
                  InputTokens(doc.sent[k]) <= MaxInputTokens

(* Every row of the store has the vector of its own text.                  *)
RowsAlign(d) ==
    /\ Len(d.rows) = Len(d.chunks)
    /\ \A i \in DOMAIN d.rows : d.rows[i].embedding = d.rows[i].text

(* The inductive invariant: at every phase the vectors are those of the    *)
(* first chunks, the last request kept the limits, and the rows to store   *)
(* are aligned.                                                            *)
DocInv ==
    /\ IsDoc(doc)
    /\ VectorsAlign(doc)
    /\ BatchFits
    /\ phase = "chunk" => doc.vectors = <<>> /\ doc.sent = <<>>
    /\ phase = "store" => RowsAlign(doc)

(* Such chunks are chunks.                                                 *)
LEMMA SoundChunksAreChunks ==
  ASSUME NEW nodes, NEW format, NEW maxTokens
  PROVE  SoundChunks(nodes, format, maxTokens) \subseteq Chunks(Titles(nodes))
BY DEF SoundChunks, InSections, WithinCeiling

(* Nothing in hand is a sound document.                                    *)
LEMMA NoDocIsSound ==
  /\ IsDoc(NoDoc) /\ VectorsAlign(NoDoc)
  /\ NoDoc.sent = <<>> /\ NoDoc.vectors = <<>> /\ NoDoc.chunks = <<>>
<1>1. IsParsed(<<>>)  BY DEF IsParsed
<1>2. HasFields(NoDoc)  BY DEF NoDoc, Fields, HasFields
<1>3. /\ NoDoc.sent = <<>> /\ NoDoc.vectors = <<>> /\ NoDoc.chunks = <<>>
      /\ NoDoc.nodes = <<>> /\ NoDoc.join = 0
  BY DEF NoDoc
<1>4. <<>> \in Seq(SoundChunks(<<>>, NoDoc.format, MaxTokens))
      /\ <<>> \in Seq(Text) /\ Len(<<>>) = 0
  BY EmptySeq
<1>5. IsDoc(NoDoc)  BY <1>1, <1>2, <1>3, <1>4 DEF IsDoc
<1>6. VectorsAlign(NoDoc)  BY <1>3, <1>4 DEF VectorsAlign
<1>. QED BY <1>3, <1>5, <1>6

(* A pass starts with nothing in hand.                                     *)
LEMMA InitDoc == Init => DocInv
BY NoDocIsSound, IngestAssumption, EmptySeq DEF Init, DocInv, BatchFits

(* A fetched document holds nothing but what the parser made of it.        *)
Fetched(d) ==
    /\ IsDoc(d)
    /\ d.chunks = <<>> /\ d.vectors = <<>> /\ d.sent = <<>>

(* What the readers fetch is what the parser made.                         *)
LEMMA FetchesParse ==
  /\ \A page \in NotionPages : Fetched(FetchNotion(page))
  /\ \A page \in ConfluencePages : Fetched(FetchConfluence(page))
  /\ \A file \in Files, join \in Joins : Fetched(FetchUpload(file, join))
<1>1. ASSUME NEW page \in NotionPages PROVE Fetched(FetchNotion(page))
  <2>. DEFINE d == FetchNotion(page)
  <2>1. /\ HasFields(d)
        /\ d.join = 0 /\ d.chunks = <<>> /\ d.vectors = <<>> /\ d.sent = <<>>
    BY DEF FetchNotion, NoDoc, Fields, HasFields
  <2>2. IsParsed(d.nodes)  BY ParserAssumption
  <2>. HIDE DEF d
  <2>3. <<>> \in Seq(SoundChunks(d.nodes, d.format, MaxTokens))  BY EmptySeq
  <2>4. IsDoc(d)  BY <2>1, <2>2, <2>3 DEF IsDoc
  <2>. QED BY <2>1, <2>4 DEF Fetched, d
<1>2. ASSUME NEW page \in ConfluencePages PROVE Fetched(FetchConfluence(page))
  <2>. DEFINE d == FetchConfluence(page)
  <2>1. /\ HasFields(d)
        /\ d.join = 0 /\ d.chunks = <<>> /\ d.vectors = <<>> /\ d.sent = <<>>
    BY DEF FetchConfluence, NoDoc, Fields, HasFields
  <2>2. IsParsed(d.nodes)  BY ParserAssumption
  <2>. HIDE DEF d
  <2>3. <<>> \in Seq(SoundChunks(d.nodes, d.format, MaxTokens))  BY EmptySeq
  <2>4. IsDoc(d)  BY <2>1, <2>2, <2>3 DEF IsDoc
  <2>. QED BY <2>1, <2>4 DEF Fetched, d
<1>3. ASSUME NEW file \in Files, NEW join \in Joins
      PROVE  Fetched(FetchUpload(file, join))
  <2>. DEFINE d == FetchUpload(file, join)
  <2>1. /\ HasFields(d) /\ d.nodes = file.nodes
        /\ d.join = join /\ d.chunks = <<>> /\ d.vectors = <<>> /\ d.sent = <<>>
    BY DEF FetchUpload, NoDoc, Fields, HasFields
  <2>2. IsParsed(d.nodes)  BY <2>1, ParserAssumption
  <2>3. d.join \in Int  BY <2>1, IngestAssumption
  <2>. HIDE DEF d
  <2>4. <<>> \in Seq(SoundChunks(d.nodes, d.format, MaxTokens))  BY EmptySeq
  <2>5. IsDoc(d)  BY <2>1, <2>2, <2>3, <2>4 DEF IsDoc
  <2>. QED BY <2>1, <2>5 DEF Fetched, d
<1>. QED BY <1>1, <1>2, <1>3

(* A fetch leaves a document without chunks, vectors or rows.              *)
LEMMA FetchKeepsDoc ==
  ASSUME Fetch
  PROVE  DocInv'
<1>1. PICK d : FetchDocument(d) /\ Fetched(d)  BY FetchesParse DEF Fetch
<1>2. doc' = d /\ phase' = "chunk"  BY <1>1 DEF FetchDocument
<1>3. Len(<<>>) = 0 /\ <<>> \in Seq(Text)  BY EmptySeq
<1>4. BatchFits'  BY <1>1, <1>2, <1>3, IngestAssumption DEF Fetched, BatchFits
<1>5. VectorsAlign(d)  BY <1>1, <1>3 DEF Fetched, VectorsAlign
<1>. QED BY <1>1, <1>2, <1>4, <1>5 DEF DocInv, Fetched

(* chunkMarkdown makes chunks, and the embedding starts from none.         *)
LEMMA ChunkKeepsDoc ==
  ASSUME DocInv, ChunkDocument
  PROVE  DocInv'
<1>. DEFINE made == CreateChunks(doc.nodes, doc.format, ChunkOptions)
<1>1. /\ phase = "chunk" /\ phase' = "embed"
      /\ doc' = [doc EXCEPT !.chunks = made, !.page = <<>>, !.body = <<>>]
  BY DEF ChunkDocument
<1>2. IsOptions(ChunkOptions)
  BY IngestAssumption DEF IsOptions, ChunkOptions, DocInv, IsDoc
<1>3. made \in Seq(SoundChunks(doc.nodes, doc.format, MaxTokens))
  <2>1. ChunkOptions.maxTokens = MaxTokens  BY DEF ChunkOptions
  <2>. QED BY <1>2, <2>1, CreatesSoundChunks DEF DocInv, IsDoc
<1>. HIDE DEF made
<1>4. /\ HasFields(doc')
      /\ doc'.nodes = doc.nodes /\ doc'.format = doc.format
      /\ doc'.join = doc.join
      /\ doc'.chunks = made /\ doc'.vectors = <<>> /\ doc'.sent = <<>>
  BY <1>1 DEF DocInv, IsDoc, Fields, HasFields
<1>5. IsDoc(doc')  BY <1>3, <1>4 DEF DocInv, IsDoc
<1>6. Len(<<>>) = 0 /\ <<>> \in Seq(Text) /\ Len(made) \in Nat
  BY <1>3, EmptySeq, LenProperties
<1>7. VectorsAlign(doc')  BY <1>4, <1>6 DEF VectorsAlign
<1>8. BatchFits'  BY <1>4, <1>6, IngestAssumption DEF BatchFits
<1>. QED BY <1>1, <1>5, <1>7, <1>8 DEF DocInv

(* The batch that starts at a text is never empty, ends within the texts   *)
(* and holds more than one text only within both limits.                   *)
LEMMA BatchEnds ==
  ASSUME NEW from \in 1..Len(doc.chunks), Len(doc.chunks) \in Nat
  PROVE  /\ BatchEnd(from) \in from..Len(doc.chunks)
         /\ BatchEnd(from) = from
            \/ /\ TokensOf(from, BatchEnd(from)) <= MaxRequestTokens
               /\ BatchEnd(from) - from + 1 <= MaxInputs
<1>. DEFINE n == Len(doc.chunks)
            fits == {to \in from..n :
                        to = from \/ /\ TokensOf(from, to) <= MaxRequestTokens
                                     /\ to - from + 1 <= MaxInputs}
<1>1. BatchEnd(from) = CHOOSE to \in fits : \A other \in fits : other <= to
  BY DEF BatchEnd
<1>2. fits \in SUBSET (0..n) /\ from \in fits  OBVIOUS
<1>3. \A to \in fits :
          /\ to \in from..n
          /\ to = from \/ /\ TokensOf(from, to) <= MaxRequestTokens
                          /\ to - from + 1 <= MaxInputs
  OBVIOUS
<1>. HIDE DEF fits
<1>4. Max(fits) \in fits /\ \A x \in fits : x <= Max(fits)
  BY <1>2, GreatestUpTo
<1>5. \E to \in fits : \A other \in fits : other <= to  BY <1>4
<1>6. BatchEnd(from) \in fits  BY <1>1, <1>5
<1>. QED BY <1>3, <1>6

(* The tokens of an input are a number.                                    *)
LEMMA InputIsCounted ==
  ASSUME IsDoc(doc), NEW i \in 1..Len(doc.chunks)
  PROVE  InputTokens(i) \in Int
<1>1. PICK c \in Chunks(Titles(doc.nodes)) : c = doc.chunks[i]
  BY ElementOfSeq, SoundChunksAreChunks DEF IsDoc
<1>2. c.tokenCount \in Int /\ Len(c.headingPath) \in Int
  BY LenProperties DEF Chunks
<1>. QED BY <1>1, <1>2 DEF InputTokens

(* A batch of one text counts the tokens of that text.                     *)
LEMMA SingleBatch ==
  ASSUME IsDoc(doc), NEW i \in 1..Len(doc.chunks), Len(doc.chunks) \in Nat
  PROVE  TokensOf(i, i) = InputTokens(i)
<1>. DEFINE f == [k \in 1..(i - i + 1) |-> InputTokens(i + k - 1)]
<1>1. i - i + 1 = 1 /\ i + 1 - 1 = i  OBVIOUS
<1>2. \A k \in 1..1 : k = 1  OBVIOUS
<1>3. f \in [1..1 -> Int]  BY <1>1, <1>2, InputIsCounted
<1>4. f \in Seq(Int) /\ Len(f) = 1  BY <1>3, IsASeq
<1>5. f[1] = InputTokens(i)  BY <1>1, <1>2
<1>6. TokensOf(i, i) = Total(f)  BY DEF TokensOf
<1>. HIDE DEF f
<1>. QED BY <1>4, <1>5, <1>6, TotalOf

(* Each answer is put at the place of the text it names, whatever their    *)
(* order.                                                                  *)
Answers(batch, order, texts) ==
    [k \in DOMAIN batch |-> [index |-> order[k],
                             vector |-> texts[batch[order[k]]].text]]

(* Answers in any order find the place of their own input, since each is   *)
(* put where its index says.                                               *)
LEMMA PlacesAreRight ==
  ASSUME NEW m \in Nat, NEW batch \in [1..m -> Int], NEW texts,
         NEW order \in Bijection(1..m, 1..m)
  PROVE  /\ DOMAIN PlaceVectors(batch, Answers(batch, order, texts)) = 1..m
         /\ \A k \in 1..m :
                PlaceVectors(batch, Answers(batch, order, texts))[k]
                    = texts[batch[k]].text
<1>. DEFINE items == Answers(batch, order, texts)
<1>1. items = [k \in 1..m |-> [index |-> order[k],
                               vector |-> texts[batch[order[k]]].text]]
  BY DEF Answers
<1>. HIDE DEF items
<1>2. /\ order \in [1..m -> 1..m]
      /\ \A k \in 1..m : \E v \in 1..m : order[v] = k
  BY DEF Bijection, Surjection, Injection
<1>3. ASSUME NEW k \in 1..m
      PROVE  (CHOOSE item \in ToSet(items) : item.index = k).vector
                 = texts[batch[k]].text
  <2>1. ToSet(items) = {items[v] : v \in 1..m}  BY <1>1 DEF ToSet
  <2>2. PICK v \in 1..m : order[v] = k  BY <1>2
  <2>3. items[v] \in ToSet(items) /\ items[v].index = k  BY <1>1, <2>1, <2>2
  <2>4. PICK item \in ToSet(items) :
            /\ item.index = k
            /\ item = CHOOSE it \in ToSet(items) : it.index = k
    BY <2>3
  <2>5. PICK w \in 1..m : item = items[w]  BY <2>1
  <2>6. item.index = order[w] /\ item.vector = texts[batch[order[w]]].text
    BY <1>1, <2>5
  <2>. QED BY <2>4, <2>6
<1>. QED BY <1>3 DEF PlaceVectors, items

(* A request appends the vectors of the batch after those of the texts     *)
(* before it, whatever order they come back in.                            *)
LEMMA EmbedKeepsDoc ==
  ASSUME DocInv, NEW order, EmbedBatch(order)
  PROVE  DocInv'
<1>. DEFINE n == Len(doc.chunks)
            l == Len(doc.vectors)
<1>1. PICK from, to, batch, items, placed :
          /\ from = l + 1 /\ to = BatchEnd(from)
          /\ batch = [k \in 1..(to - from + 1) |-> from + k - 1]
          /\ items = [k \in DOMAIN batch |->
                         [index |-> order[k],
                          vector |-> doc.chunks[batch[order[k]]].text]]
          /\ placed = PlaceVectors(batch, items)
  OBVIOUS
<1>2. /\ phase = "embed" /\ phase' = "embed"
      /\ from <= n
      /\ \A k \in DOMAIN batch : InputTokens(batch[k]) <= MaxInputTokens
      /\ order \in Bijection(DOMAIN batch, DOMAIN batch)
      /\ doc' = [doc EXCEPT !.sent = batch, !.vectors = @ \o placed]
  BY <1>1 DEF EmbedBatch
<1>3. /\ n \in Nat /\ l \in Nat /\ from \in 1..n
      /\ \A i \in 1..n : doc.chunks[i] \in Chunks(Titles(doc.nodes))
      /\ \A i \in 1..l : doc.vectors[i] \in Text
  <2>1. /\ doc.chunks \in Seq(Chunks(Titles(doc.nodes)))
        /\ doc.vectors \in Seq(Text)
    BY SoundChunksAreChunks, SeqMonotonic DEF DocInv, IsDoc, VectorsAlign
  <2>2. n \in Nat /\ l \in Nat  BY <2>1, LenProperties
  <2>3. from \in 1..n
    <3>1. from = l + 1 /\ from <= n  BY <1>1, <1>2
    <3>. HIDE DEF n, l
    <3>. QED BY <2>2, <3>1
  <2>. QED BY <2>1, <2>2, <2>3, ElementOfSeq
<1>4. /\ to \in from..n
      /\ to = from \/ /\ TokensOf(from, to) <= MaxRequestTokens
                      /\ to - from + 1 <= MaxInputs
  BY <1>1, <1>3, BatchEnds
<1>. HIDE DEF n, l
<1>5. PICK m \in Nat : m = to - from + 1  BY <1>3, <1>4
<1>6. m # 0 /\ from \in Int /\ to \in Int /\ to = from + m - 1
  BY <1>3, <1>4, <1>5
<1>7. /\ batch \in [1..m -> Int] /\ DOMAIN batch = 1..m
      /\ \A k \in 1..m : batch[k] = from + k - 1
  BY <1>1, <1>5, <1>6
<1>8. Len(batch) = m /\ batch[1] = from /\ batch[m] = to  BY <1>6, <1>7, IsASeq
<1>9. \A k \in 1..m : batch[k] \in 1..n  BY <1>3, <1>4, <1>6, <1>7
<1>10. /\ DOMAIN placed = 1..m
       /\ \A k \in 1..m : placed[k] = doc.chunks[batch[k]].text
  <2>1. items = Answers(batch, order, doc.chunks)  BY <1>1 DEF Answers
  <2>2. order \in Bijection(1..m, 1..m)  BY <1>2, <1>7
  <2>3. /\ DOMAIN PlaceVectors(batch, Answers(batch, order, doc.chunks)) = 1..m
        /\ \A k \in 1..m :
               PlaceVectors(batch, Answers(batch, order, doc.chunks))[k]
                   = doc.chunks[batch[k]].text
    BY <1>7, <2>2, PlacesAreRight
  <2>. QED BY <1>1, <2>1, <2>3
<1>11. placed \in Seq(Text) /\ Len(placed) = m
  <2>1. \A k \in 1..m : placed[k] \in Text  BY <1>3, <1>9, <1>10 DEF Chunks
  <2>2. placed = [k \in 1..m |-> placed[k]]
    <3>1. placed = [k \in DOMAIN placed |-> placed[k]]
      BY <1>1 DEF PlaceVectors
    <3>. QED BY <1>10, <3>1
  <2>3. placed \in [1..m -> Text]  BY <2>1, <2>2
  <2>. QED BY <2>3, IsASeq
<1>12. /\ HasFields(doc')
       /\ doc'.nodes = doc.nodes /\ doc'.format = doc.format
      /\ doc'.join = doc.join
       /\ doc'.chunks = doc.chunks /\ doc'.sent = batch
       /\ doc'.vectors = doc.vectors \o placed
  BY <1>2 DEF DocInv, IsDoc, Fields, HasFields
<1>13. IsDoc(doc')  BY <1>12 DEF DocInv, IsDoc
<1>14. VectorsAlign(doc')
  <2>1. /\ doc'.vectors \in Seq(Text)
        /\ Len(doc'.vectors) = l + m
        /\ \A i \in 1..(l + m) :
               doc'.vectors[i] = IF i <= l THEN doc.vectors[i] ELSE placed[i - l]
    <3>1. doc.vectors \in Seq(Text)  BY DEF DocInv, VectorsAlign
    <3>2. PICK v : v = doc.vectors \o placed  OBVIOUS
    <3>3. /\ v \in Seq(Text)
          /\ Len(v) = l + m
          /\ \A i \in 1..(l + m) :
                 v[i] = IF i <= l THEN doc.vectors[i] ELSE placed[i - l]
      BY <1>11, <3>1, <3>2, ConcatProperties DEF l
    <3>. QED BY <1>12, <3>2, <3>3
  <2>2. l + m <= n  BY <1>1, <1>3, <1>4, <1>5
  <2>3. ASSUME NEW i \in 1..(l + m)
        PROVE  doc'.vectors[i] = doc.chunks[i].text
    <3>1. CASE i <= l
      <4>1. i \in 1..l  BY <1>3, <3>1
      <4>. QED BY <2>1, <3>1, <4>1 DEF DocInv, VectorsAlign, l
    <3>2. CASE ~(i <= l)
      <4>1. PICK k : k = i - l  OBVIOUS
      <4>2. k \in 1..m /\ from + k - 1 = i  BY <1>1, <1>3, <3>2, <4>1
      <4>3. batch[k] = i  BY <1>7, <4>2
      <4>. QED BY <1>10, <2>1, <3>2, <4>1, <4>2, <4>3
    <3>. QED BY <3>1, <3>2
  <2>. QED BY <1>12, <2>1, <2>2, <2>3 DEF VectorsAlign, n
<1>15. BatchFits'
  <2>1. m <= MaxInputs /\ TokensOf(from, to) <= MaxRequestTokens
    <3>1. CASE to = from
      <4>1. m = 1 /\ 1 <= MaxInputs  BY <1>5, <1>6, <3>1, IngestAssumption
      <4>2. TokensOf(from, from) = InputTokens(from)
        BY <1>3, SingleBatch DEF DocInv, n
      <4>3. InputTokens(from) <= MaxInputTokens /\ InputTokens(from) \in Int
        BY <1>2, <1>3, <1>7, <1>8, <4>1, InputIsCounted DEF DocInv, n
      <4>4. TokensOf(from, from) <= MaxRequestTokens
        BY <4>2, <4>3, IngestAssumption
      <4>. QED BY <3>1, <4>1, <4>4
    <3>2. CASE to # from  BY <1>4, <1>5, <3>2
    <3>. QED BY <3>1, <3>2
  <2>2. Len(doc'.sent) = m /\ doc'.sent[1] = from /\ Last(doc'.sent) = to
    BY <1>8, <1>12 DEF Last
  <2>3. TokensOf(from, to)' = TokensOf(from, to)
    BY <1>12 DEF TokensOf, InputTokens
  <2>4. \A k \in DOMAIN batch : InputTokens(batch[k])' <= MaxInputTokens
    BY <1>2, <1>12 DEF InputTokens
  <2>5. (TokensOf(doc.sent[1], Last(doc.sent)) <= MaxRequestTokens)'
    BY <2>1, <2>2, <2>3
  <2>6. (\A k \in DOMAIN doc.sent : InputTokens(doc.sent[k]) <= MaxInputTokens)'
    BY <1>12, <2>4
  <2>. QED BY <2>1, <2>2, <2>5, <2>6 DEF BatchFits
<1>. QED BY <1>2, <1>13, <1>14, <1>15 DEF DocInv

(* When all texts have a vector, row i takes vector i.                     *)
LEMMA AlignKeepsDoc ==
  ASSUME DocInv, AlignRows
  PROVE  DocInv'
<1>. DEFINE rows == [i \in DOMAIN doc.chunks |->
                        [text |-> doc.chunks[i].text,
                         embedding |-> doc.vectors[i]]]
<1>1. /\ phase' = "store" /\ Len(doc.vectors) = Len(doc.chunks)
      /\ doc' = [doc EXCEPT !.rows = rows]
  BY DEF AlignRows
<1>2. /\ Len(doc.chunks) \in Nat /\ DOMAIN doc.chunks = 1..Len(doc.chunks)
  BY LenProperties DEF DocInv, IsDoc
<1>3. /\ Len(rows) = Len(doc.chunks)
      /\ \A i \in DOMAIN rows : rows[i].embedding = rows[i].text
  BY <1>1, <1>2 DEF DocInv, VectorsAlign
<1>. HIDE DEF rows
<1>4. /\ HasFields(doc')
      /\ doc'.nodes = doc.nodes /\ doc'.format = doc.format
      /\ doc'.join = doc.join
      /\ doc'.chunks = doc.chunks /\ doc'.sent = doc.sent
      /\ doc'.vectors = doc.vectors /\ doc'.rows = rows
  BY <1>1 DEF DocInv, IsDoc, Fields, HasFields
<1>5. IsDoc(doc')  BY <1>4 DEF DocInv, IsDoc
<1>6. VectorsAlign(doc')  BY <1>4 DEF DocInv, VectorsAlign
<1>7. BatchFits'  BY <1>4 DEF DocInv, BatchFits, TokensOf, InputTokens
<1>8. RowsAlign(doc')  BY <1>3, <1>4 DEF RowsAlign
<1>. QED BY <1>1, <1>5, <1>6, <1>7, <1>8 DEF DocInv

(* A document that is stored or given up leaves nothing in hand.           *)
LEMMA DropKeepsDoc ==
  ASSUME doc' = NoDoc
  PROVE  DocInv'
<1>1. BatchFits'  BY NoDocIsSound, IngestAssumption, EmptySeq DEF BatchFits
<1>2. Len(NoDoc.rows) = Len(NoDoc.chunks)
      /\ \A i \in DOMAIN NoDoc.rows : NoDoc.rows[i].embedding = NoDoc.rows[i].text
  BY DEF NoDoc
<1>. QED BY <1>1, <1>2, NoDocIsSound DEF DocInv, RowsAlign

(* A step that leaves the document in hand alone and starts nothing.       *)
LEMMA OthersKeepDoc ==
  ASSUME DocInv, doc' = doc, phase' \notin {"chunk", "store"} \/ phase' = phase
  PROVE  DocInv'
BY DEF DocInv, BatchFits, TokensOf, InputTokens

(* What a step does to the document in hand.                               *)
LEMMA DocumentSteps ==
  ASSUME [Next]_vars
  PROVE  \/ UNCHANGED <<provider, phase, doc>>
         \/ doc' = doc /\ phase' \notin {"chunk", "embed", "store"}
         \/ Fetch \/ ChunkDocument \/ FailEmbedding \/ AlignRows
         \/ StoreDocument \/ \E order \in Orders : EmbedBatch(order)
<1>. DEFINE same == UNCHANGED <<provider, phase, doc>>
            idle == doc' = doc /\ phase' \notin {"chunk", "embed", "store"}
<1>1. CASE UNCHANGED vars  BY <1>1 DEF vars
<1>2. ASSUME NEW p \in Pages, EditPage(p) PROVE same
  BY <1>2 DEF EditPage, given
<1>3. ASSUME NEW p \in Pages, NEW to \in Scopes, MovePage(p, to) PROVE same
  BY <1>3 DEF MovePage, given
<1>4. ASSUME NEW failure \in Failures, NEW s \in RetryAfters,
             FailAttempt(failure, s)
      PROVE  same \/ idle
  BY <1>4 DEF FailAttempt, given
<1>5. ASSUME NEW link \in {"body", "header"}, ListDocuments(link) PROVE idle
  <2>1. doc' = doc /\ phase' \in {"check", "fetch"}  BY <1>5 DEF ListDocuments
  <2>. QED BY <2>1
<1>6. ASSUME SkipDocument PROVE idle
  <2>1. doc' = doc /\ phase' \in {"check", "fetch", "list"}
    BY <1>6 DEF SkipDocument, NextPhase
  <2>. QED BY <2>1
<1>7. ASSUME NEW p \in Pages, CheckDocument(p) PROVE same
  BY <1>7 DEF CheckDocument, given
<1>8. ASSUME DeleteDocuments PROVE idle  BY <1>8 DEF DeleteDocuments
<1>. HIDE DEF same, idle
<1>9. CASE Next
  BY <1>2, <1>3, <1>4, <1>5, <1>6, <1>7, <1>8, <1>9 DEF Next, same, idle
<1>. QED BY <1>1, <1>9

(* No step of a pass breaks the invariant.                                 *)
LEMMA StepDoc == DocInv /\ [Next]_vars => DocInv'
<1>. SUFFICES ASSUME DocInv, [Next]_vars PROVE DocInv'  OBVIOUS
<1>1. CASE UNCHANGED <<provider, phase, doc>>  BY <1>1, OthersKeepDoc
<1>2. CASE doc' = doc /\ phase' \notin {"chunk", "embed", "store"}
  BY <1>2, OthersKeepDoc
<1>3. CASE Fetch  BY <1>3, FetchKeepsDoc
<1>4. CASE ChunkDocument  BY <1>4, ChunkKeepsDoc
<1>5. ASSUME NEW order \in Orders, EmbedBatch(order) PROVE DocInv'
  BY <1>5, EmbedKeepsDoc
<1>6. CASE FailEmbedding  BY <1>6, DropKeepsDoc DEF FailEmbedding
<1>7. CASE AlignRows  BY <1>7, AlignKeepsDoc
<1>8. CASE StoreDocument  BY <1>8, DropKeepsDoc DEF StoreDocument
<1>. QED BY <1>1, <1>2, <1>3, <1>4, <1>5, <1>6, <1>7, <1>8, DocumentSteps

(* A request of embedBatch keeps its three limits, and every row that      *)
(* AlignRows gives the store carries the vector of its own text: for every *)
(* document a parser may make, every ceiling and limit, and every order in *)
(* which the service answers.                                              *)
THEOREM EmbeddingIsAlwaysSound == Spec => []EmbeddingIsSound
<1>1. DocInv => EmbeddingIsSound
  BY DEF DocInv, VectorsAlign, BatchFits, RowsAlign, EmbeddingIsSound
<1>. QED BY <1>1, InitDoc, StepDoc, PTL DEF Spec

(* No merge of packChunks runs over two sections, and none passes the      *)
(* ceiling: a chunk above it is one piece of one table or list, whose rows *)
(* and items packSourceUnits never cuts, or of a code block, which its     *)
(* fence alone takes over it.  It holds of every document a parser may     *)
(* make, every ceiling, whatever a join costs and wherever backticks are.  *)
THEOREM MergesAreAlwaysSound == Spec => []MergesAreSound
<1>1. DocInv => MergesAreSound
  <2>. SUFFICES ASSUME DocInv PROVE MergesAreSound  OBVIOUS
  <2>1. ChunkOptions.maxTokens = MaxTokens  BY DEF ChunkOptions
  <2>2. /\ IsParsed(doc.nodes)
        /\ doc.chunks \in Seq(SoundChunks(doc.nodes, doc.format,
                                          ChunkOptions.maxTokens))
    BY <2>1 DEF DocInv, IsDoc
  <2>. QED BY <2>2, SoundChunksAreApart DEF MergesAreSound
<1>. QED BY <1>1, InitDoc, StepDoc, PTL DEF Spec

(* chunkMarkdown makes chunks that hold the body, and no later step of the *)
(* document changes them.                                                  *)
LEMMA StepText ==
  DocInv /\ OnlyLoneHeadersAreLost /\ [Next]_vars => OnlyLoneHeadersAreLost'
<1>. SUFFICES ASSUME DocInv, OnlyLoneHeadersAreLost, [Next]_vars
              PROVE  OnlyLoneHeadersAreLost'
  OBVIOUS
<1>1. CASE phase' # "embed"  BY <1>1 DEF OnlyLoneHeadersAreLost
<1>2. CASE UNCHANGED <<provider, phase, doc>>
  BY <1>2 DEF OnlyLoneHeadersAreLost
<1>3. CASE doc' = doc /\ phase' \notin {"chunk", "embed", "store"}
  BY <1>1, <1>3
<1>4. CASE Fetch
  <2>1. phase' # "embed"  BY <1>4 DEF Fetch, FetchDocument
  <2>. QED BY <1>1, <2>1
<1>5. CASE ChunkDocument
  <2>. DEFINE made == CreateChunks(doc.nodes, doc.format, ChunkOptions)
  <2>1. doc' = [doc EXCEPT !.chunks = made, !.page = <<>>, !.body = <<>>]
    BY <1>5 DEF ChunkDocument
  <2>2. IsOptions(ChunkOptions) /\ ChunkOptions.maxTokens = MaxTokens
    BY IngestAssumption DEF IsOptions, ChunkOptions, DocInv, IsDoc
  <2>3. TextIsKept(doc.nodes, LostOf(doc.nodes, doc.format, MaxTokens), made)
    BY <2>2, CreatedChunksKeepText DEF DocInv, IsDoc
  <2>. HIDE DEF made
  <2>4. /\ doc'.nodes = doc.nodes /\ doc'.format = doc.format
        /\ doc'.chunks = made
    BY <2>1 DEF DocInv, IsDoc, Fields, HasFields
  <2>. QED BY <2>3, <2>4 DEF OnlyLoneHeadersAreLost, LostOf
<1>6. ASSUME NEW order \in Orders, EmbedBatch(order)
      PROVE  OnlyLoneHeadersAreLost'
  <2>1. PICK sent, vectors :
            /\ phase' = phase
            /\ doc' = [doc EXCEPT !.sent = sent, !.vectors = vectors]
    BY <1>6 DEF EmbedBatch
  <2>2. /\ doc'.nodes = doc.nodes /\ doc'.format = doc.format
        /\ doc'.chunks = doc.chunks
    BY <2>1 DEF DocInv, IsDoc, Fields, HasFields
  <2>. QED BY <2>1, <2>2 DEF OnlyLoneHeadersAreLost
<1>7. CASE FailEmbedding  BY <1>1, <1>7 DEF FailEmbedding
<1>8. CASE AlignRows  BY <1>1, <1>8 DEF AlignRows
<1>9. CASE StoreDocument
  <2>1. phase' # "embed"  BY <1>9 DEF StoreDocument, NextPhase
  <2>. QED BY <1>1, <2>1
<1>. QED BY <1>2, <1>3, <1>4, <1>5, <1>6, <1>7, <1>8, <1>9, DocumentSteps

(* Nothing of a document is lost but a table that is a header row alone    *)
(* and over the ceiling: every other token of its body stands in one       *)
(* chunk, in the order of the body, and only header rows come again.  It   *)
(* holds of every page and file a parser may make nodes of, every ceiling, *)
(* and whatever a join costs.                                              *)
THEOREM ChunksAlwaysKeepTheRest == Spec => []OnlyLoneHeadersAreLost
<1>1. Init => OnlyLoneHeadersAreLost  BY DEF Init, OnlyLoneHeadersAreLost
<1>. QED BY <1>1, InitDoc, StepDoc, StepText, PTL DEF Spec

-----------------------------------------------------------------------------
(* Trees.  A page numbers its nodes in document order: what hangs below a  *)
(* node is the interval up to its end.                                     *)

(* All that lies below c comes before its end, and what comes after hangs  *)
(* elsewhere.                                                              *)
LEMMA EndIsEnd ==
  ASSUME NEW n \in Nat, NEW p, Preorder(p, n), NEW c \in 0..n
  PROVE  IsEnd(EndOf(p, n, c), p, n, c)
<1>. DEFINE E == {e \in c..n : \A i \in (c + 1)..e : p[i] >= c}
<1>1. E \in SUBSET (0..n)  OBVIOUS
<1>2. c \in E  OBVIOUS
<1>. HIDE DEF E
<1>3. E # {}  BY <1>2
<1>4. PICK e : e = Max(E)  OBVIOUS
<1>5. e \in E /\ \A x \in E : x <= e  BY <1>1, <1>3, <1>4, GreatestUpTo
<1>6. e \in c..n /\ \A i \in (c + 1)..e : p[i] >= c  BY <1>5 DEF E
<1>7. ASSUME e < n PROVE p[e + 1] < c
  <2>1. PICK f \in 1..n : f = e + 1
    <3>1. e + 1 \in 1..n  BY <1>6, <1>7
    <3>. QED BY <3>1
  <2>2. f \notin E  BY <1>5, <1>6, <2>1
  <2>3. f \in c..n  BY <1>6, <2>1
  <2>4. PICK i \in (c + 1)..f : ~(p[i] >= c)  BY <2>2, <2>3 DEF E
  <2>5. i = f
    <3>1. i # f => i \in (c + 1)..e  BY <1>6, <2>1
    <3>. QED BY <1>6, <2>4, <3>1
  <2>6. p[f] \in Nat  BY <2>1 DEF Preorder
  <2>. QED BY <2>1, <2>4, <2>5, <2>6
<1>8. IsEnd(e, p, n, c)  BY <1>6, <1>7 DEF IsEnd
<1>. QED BY <1>4, <1>8 DEF EndOf, E

(* A child lies below its parent with all that hangs on it, and after it   *)
(* comes a child again or the end.                                         *)
LEMMA ChildEnds ==
  ASSUME NEW n \in Nat, NEW p, Preorder(p, n), NEW b \in 0..n,
         NEW e, IsEnd(e, p, n, b),
         NEW c \in 1..n, p[c] = b, NEW f, IsEnd(f, p, n, c)
  PROVE  /\ b < c /\ c <= f /\ f <= e
         /\ \A i \in (c + 1)..f : p[i] # b
         /\ f < e => p[f + 1] = b
<1>1. b \in 0..(c - 1)  BY DEF Preorder
<1>2. /\ e \in b..n
      /\ \A i \in (b + 1)..e : p[i] >= b
      /\ e < n => p[e + 1] < b
  BY DEF IsEnd
<1>3. /\ f \in c..n
      /\ \A i \in (c + 1)..f : p[i] >= c
      /\ f < n => p[f + 1] < c
  BY DEF IsEnd
<1>4. \A k \in (b + 1)..(c - 1) : p[k] >= b  BY DEF Preorder
<1>5. f <= e
  <2>. SUFFICES ASSUME e < f PROVE FALSE  BY <1>2, <1>3
  <2>1. PICK g \in 1..n : g = e + 1
    <3>1. e + 1 \in 1..n  BY <1>2, <1>3
    <3>. QED BY <3>1
  <2>2. p[g] < b /\ p[g] \in Nat  BY <1>2, <2>1 DEF Preorder
  <2>3. CASE g < c
    <3>1. g \in (b + 1)..(c - 1)  BY <1>2, <2>1, <2>3
    <3>. QED BY <1>4, <2>2, <3>1
  <2>4. CASE g = c  BY <2>2, <2>4
  <2>5. CASE g > c
    <3>1. g \in (c + 1)..f  BY <1>2, <1>3, <2>1, <2>5
    <3>2. p[g] >= c  BY <1>3, <3>1
    <3>. QED BY <1>1, <2>2, <3>2
  <2>. QED BY <2>3, <2>4, <2>5
<1>6. \A i \in (c + 1)..f : p[i] # b  BY <1>1, <1>3
<1>7. ASSUME f < e PROVE p[f + 1] = b
  <2>1. PICK g \in 1..n : g = f + 1
    <3>1. f + 1 \in 1..n  BY <1>2, <1>3, <1>7
    <3>. QED BY <3>1
  <2>2. p[g] \in 0..(g - 1) /\ \A k \in (p[g] + 1)..(g - 1) : p[k] >= p[g]
    BY DEF Preorder
  <2>3. p[g] < c  BY <1>2, <1>3, <1>7, <2>1
  <2>4. g \in (b + 1)..e  BY <1>1, <1>2, <1>3, <1>7, <2>1
  <2>5. p[g] >= b  BY <1>2, <2>4
  <2>6. c \in (p[g] + 1)..(g - 1)  BY <1>3, <2>1, <2>2, <2>3
  <2>7. b >= p[g]  BY <2>2, <2>6
  <2>. QED BY <2>1, <2>2, <2>5, <2>7
<1>. QED BY <1>1, <1>3, <1>5, <1>6, <1>7

(* A node past the end of b is no child of it.                             *)
LEMMA PastTheEnd ==
  ASSUME NEW n \in Nat, NEW p, Preorder(p, n), NEW b \in 0..n,
         NEW e, IsEnd(e, p, n, b), NEW i \in (e + 1)..n
  PROVE  p[i] # b
<1>. SUFFICES ASSUME p[i] = b PROVE FALSE  OBVIOUS
<1>1. /\ e \in b..n /\ e < n
      /\ p[e + 1] < b
  BY DEF IsEnd
<1>2. PICK g \in 1..n : g = e + 1
  <2>1. e + 1 \in 1..n  BY <1>1
  <2>. QED BY <2>1
<1>3. p[g] < b /\ p[g] \in Nat  BY <1>1, <1>2 DEF Preorder
<1>4. i \in 1..n  BY <1>1
<1>5. \A k \in (b + 1)..(i - 1) : p[k] >= b  BY <1>4 DEF Preorder
<1>6. g # i  BY <1>3
<1>7. g \in (b + 1)..(i - 1)  BY <1>1, <1>2, <1>6
<1>. QED BY <1>3, <1>5, <1>7

(* If each child adds what hangs on it, all children add what lies below b.*)
LEMMA ChildrenAdd ==
  ASSUME NEW n \in Nat, NEW p, Preorder(p, n), NEW b \in 0..n, NEW S,
         NEW X \in [0..n -> Seq(S)], NEW K \in [1..n -> Seq(S)],
         ChildrenGive(X, K, p, n, b),
         NEW parts \in Seq(Seq(S)), OfChildren(parts, p, n, b, K)
  PROVE  AllGive(X, p, n, b, parts)
<1>1. PICK end : end = EndOf(p, n, b) /\ IsEnd(end, p, n, b)  BY EndIsEnd
<1>2. end \in b..n  BY <1>1 DEF IsEnd
<1>3. PICK g : FlattenRun(g, parts, S)  BY FlattenRuns
<1>4. /\ g \in [0..n -> Seq(S)] /\ g[0] = <<>>
      /\ \A k \in 1..n : g[k] = g[k - 1] \o parts[k]
      /\ FlattenSeq(parts) = g[n]
  BY <1>3 DEF FlattenRun, OfChildren
<1>5. \A k \in 1..n : parts[k] = IF p[k] = b THEN K[k] ELSE <<>>
  BY DEF OfChildren
<1>6. ASSUME NEW k \in 1..n, p[k] # b PROVE g[k] = g[k - 1]
  <2>1. PICK s \in Seq(S) : s = g[k - 1]
    <3>1. k - 1 \in 0..n  OBVIOUS
    <3>. QED BY <1>4, <3>1
  <2>2. s \o <<>> = s  BY ConcatEmptySeq
  <2>. QED BY <1>4, <1>5, <1>6, <2>1, <2>2
<1>. DEFINE P == {k \in 0..n : IF k < b THEN g[k] = <<>>
                              ELSE IF k <= end
                              THEN \E e : Walked(g[k], X, p, b, end, k, e)
                              ELSE g[k] = g[end]}
<1>7. ASSUME g[b] = <<>> PROVE Walked(g[b], X, p, b, end, b, b)
  <2>1. X[b] \o <<>> = X[b]  BY ConcatEmptySeq
  <2>2. ASSUME b # end PROVE p[b + 1] = b
    <3>1. PICK i \in 1..n : i = b + 1
      <4>1. b + 1 \in 1..n  BY <1>2, <2>2
      <4>. QED BY <4>1
    <3>2. p[i] \in 0..(i - 1)  BY DEF Preorder
    <3>3. i \in (b + 1)..end  BY <1>2, <2>2, <3>1
    <3>4. p[i] >= b  BY <1>1, <3>3 DEF IsEnd
    <3>. QED BY <3>1, <3>2, <3>4
  <2>3. b \in b..end /\ (b + 1)..b = {}  BY <1>2
  <2>. QED BY <1>7, <2>1, <2>2, <2>3 DEF Walked
<1>8. 0 \in P
  <2>1. CASE 0 < b  BY <1>4, <2>1
  <2>2. CASE 0 = b
    <3>1. Walked(g[0], X, p, b, end, 0, 0)  BY <1>4, <1>7, <2>2
    <3>. QED BY <1>2, <2>2, <3>1
  <2>. QED BY <2>1, <2>2
<1>9. ASSUME NEW k \in 1..n, k - 1 \in P PROVE k \in P
  <2>1. PICK j \in 0..n : j = k - 1 /\ j \in P /\ k = j + 1
    <3>. HIDE DEF P
    <3>1. k - 1 \in 0..n /\ k = (k - 1) + 1  OBVIOUS
    <3>. QED BY <1>9, <3>1
  <2>2. CASE k <= b
    <3>1. j < b  BY <2>1, <2>2
    <3>2. g[j] = <<>>  BY <2>1, <3>1
    <3>3. p[k] \in 0..(k - 1)  BY DEF Preorder
    <3>4. p[k] # b  BY <2>2, <3>3
    <3>5. g[k] = <<>>  BY <1>6, <2>1, <3>2, <3>4
    <3>6. CASE k < b  BY <3>5, <3>6
    <3>7. CASE k = b
      <4>1. Walked(g[k], X, p, b, end, k, k)  BY <1>7, <3>5, <3>7
      <4>. QED BY <1>2, <3>7, <4>1
    <3>. QED BY <2>2, <3>6, <3>7
  <2>3. CASE b < k /\ k <= end
    <3>1. ~(j < b) /\ j <= end  BY <1>2, <2>1, <2>3
    <3>2. PICK e : Walked(g[j], X, p, b, end, j, e)  BY <2>1, <3>1
    <3>3. /\ e \in j..end /\ X[e] = X[b] \o g[j]
          /\ \A i \in (j + 1)..e : p[i] # b
          /\ e = end \/ p[e + 1] = b
      BY <3>2 DEF Walked
    <3>4. CASE e # j
      <4>1. k \in (j + 1)..e /\ e \in k..end  BY <2>1, <3>3, <3>4
      <4>2. g[k] = g[j]  BY <1>6, <2>1, <3>3, <4>1
      <4>3. \A i \in (k + 1)..e : p[i] # b
        <5>1. \A i \in (k + 1)..e : i \in (j + 1)..e  BY <2>1
        <5>. QED BY <3>3, <5>1
      <4>4. Walked(g[k], X, p, b, end, k, e)
        BY <3>3, <4>1, <4>2, <4>3 DEF Walked
      <4>. QED BY <2>3, <4>4
    <3>5. CASE e = j
      <4>1. p[k] = b  BY <2>1, <2>3, <3>3, <3>5
      <4>2. PICK f : f = EndOf(p, n, k) /\ IsEnd(f, p, n, k)  BY EndIsEnd
      <4>3. /\ b < k /\ k <= f /\ f <= end
            /\ \A i \in (k + 1)..f : p[i] # b
            /\ f < end => p[f + 1] = b
        BY <1>1, <4>1, <4>2, ChildEnds
      <4>4. f \in k..end
        <5>1. f \in k..n  BY <4>2 DEF IsEnd
        <5>. QED BY <1>2, <4>3, <5>1
      <4>5. X[f] = X[j] \o K[k]  BY <2>1, <4>1, <4>2 DEF ChildrenGive
      <4>6. PICK x \in Seq(S), y \in Seq(S), z \in Seq(S) :
                x = X[b] /\ y = g[j] /\ z = K[k]
        BY <1>4
      <4>7. g[k] = y \o z  BY <1>4, <1>5, <2>1, <4>1, <4>6
      <4>8. X[f] = (x \o y) \o z  BY <3>3, <3>5, <4>5, <4>6
      <4>9. (x \o y) \o z = x \o (y \o z)  BY ConcatAssociative, SMTT(30)
      <4>10. X[f] = X[b] \o g[k]  BY <4>6, <4>7, <4>8, <4>9
      <4>11. f = end \/ p[f + 1] = b  BY <1>2, <4>3, <4>4
      <4>12. Walked(g[k], X, p, b, end, k, f)
        BY <4>3, <4>4, <4>10, <4>11 DEF Walked
      <4>. QED BY <2>3, <4>12
    <3>. QED BY <3>4, <3>5
  <2>4. CASE end < k
    <3>1. k \in (end + 1)..n  BY <1>2, <2>4
    <3>2. p[k] # b  BY <1>1, <3>1, PastTheEnd
    <3>3. g[k] = g[j]  BY <1>6, <2>1, <3>2
    <3>4. CASE j <= end
      <4>1. j = end  BY <1>2, <2>1, <2>4, <3>4
      <4>. QED BY <1>2, <2>4, <3>3, <4>1
    <3>5. CASE ~(j <= end)
      <4>1. ~(j < b)  BY <1>2, <3>5
      <4>2. g[j] = g[end]  BY <2>1, <3>5, <4>1
      <4>. QED BY <1>2, <2>4, <3>3, <4>2
    <3>. QED BY <3>4, <3>5
  <2>. QED BY <1>2, <2>2, <2>3, <2>4
<1>. HIDE DEF P
<1>10. \A k \in 0..n : k \in P  BY <1>8, <1>9, BoundedInduction
<1>11. X[end] = X[b] \o g[end]
  <2>1. end \in P /\ ~(end < b) /\ end <= end  BY <1>2, <1>10
  <2>2. PICK e : Walked(g[end], X, p, b, end, end, e)  BY <2>1 DEF P
  <2>3. e \in end..end /\ X[e] = X[b] \o g[end]  BY <2>2 DEF Walked
  <2>4. e = end  BY <1>2, <2>3
  <2>. QED BY <2>3, <2>4
<1>12. g[n] = g[end]
  <2>1. n \in P /\ ~(n < b)  BY <1>2, <1>10
  <2>2. n <= end => n = end  BY <1>2
  <2>. QED BY <2>1, <2>2 DEF P
<1>. QED BY <1>1, <1>4, <1>11, <1>12 DEF AllGive

-----------------------------------------------------------------------------
(* Chains of chains.                                                       *)

(* The chain of no parts.                                                  *)
LEMMA FlattenNone == FlattenSeq(<<>>) = <<>>
<1>1. <<>> \in Seq(Seq({})) /\ Len(<<>>) = 0  BY EmptySeq
<1>2. PICK s \in Seq(Seq({})) : s = <<>> /\ Len(s) = 0  BY <1>1
<1>3. PICK g : FlattenRun(g, s, {})  BY FlattenRuns
<1>. QED BY <1>2, <1>3 DEF FlattenRun

(* It takes any chain to the chain of the images.                          *)
LEMMA ChainOfImages ==
  ASSUME NEW T, NEW S, NEW H \in [Seq(T) -> Seq(S)], Chains(H, T),
         NEW ss \in Seq(Seq(T)), NEW ts \in Seq(Seq(S)), Images(ts, H, ss)
  PROVE  H[FlattenSeq(ss)] = FlattenSeq(ts)
<1>1. PICK n \in Nat : n = Len(ss) /\ n = Len(ts)  BY LenProperties DEF Images
<1>2. PICK h : FlattenRun(h, ss, T)  BY FlattenRuns
<1>3. PICK g : FlattenRun(g, ts, S)  BY FlattenRuns
<1>. DEFINE P == {k \in 0..n : H[h[k]] = g[k]}
<1>4. 0 \in P
  <2>1. h[0] = <<>> /\ g[0] = <<>>  BY <1>2, <1>3 DEF FlattenRun
  <2>2. H[<<>>] = <<>>  BY DEF Chains
  <2>3. H[h[0]] = g[0]  BY <2>1, <2>2
  <2>4. 0 \in 0..n  OBVIOUS
  <2>. QED BY <2>3, <2>4, Zenon
<1>5. ASSUME NEW k \in 1..n, k - 1 \in P PROVE k \in P
  <2>1. k - 1 \in 0..n /\ k \in 0..n  OBVIOUS
  <2>2. PICK x \in Seq(T), y \in Seq(T) : x = h[k - 1] /\ y = ss[k]
    BY <1>1, <1>2, <2>1, ElementOfSeq DEF FlattenRun
  <2>3. h[k] = x \o y  BY <1>1, <1>2, <2>2 DEF FlattenRun
  <2>4. g[k] = g[k - 1] \o ts[k]  BY <1>1, <1>3 DEF FlattenRun
  <2>5. ts[k] = H[y]  BY <1>1, <2>2 DEF Images
  <2>6. H[x \o y] = H[x] \o H[y]  BY DEF Chains
  <2>7. g[k - 1] = H[x]  BY <1>5, <2>2
  <2>. QED BY <2>1, <2>3, <2>4, <2>5, <2>6, <2>7
<1>. HIDE DEF P
<1>6. \A k \in 0..n : k \in P  BY <1>4, <1>5, BoundedInduction
<1>7. n \in 0..n  OBVIOUS
<1>8. n \in P  BY <1>6, <1>7
<1>. QED BY <1>1, <1>2, <1>3, <1>8 DEF P, FlattenRun

(* A chain of chains, flattened part by part.                              *)
LEMMA FlattenTwice ==
  ASSUME NEW S, NEW ss \in Seq(Seq(Seq(S))), NEW ts \in Seq(Seq(S)),
         Len(ts) = Len(ss), \A i \in 1..Len(ss) : ts[i] = FlattenSeq(ss[i])
  PROVE  FlattenSeq(FlattenSeq(ss)) = FlattenSeq(ts)
<1>. DEFINE T == Seq(S)
            H == [x \in Seq(T) |-> FlattenSeq(x)]
<1>1. H \in [Seq(T) -> Seq(S)]
  <2>1. \A x \in Seq(T) : FlattenSeq(x) \in Seq(S)  BY FlattenIsSequence
  <2>. QED BY <2>1
<1>2. Chains(H, T)
  <2>1. <<>> \in Seq(T)  BY EmptySeq
  <2>2. \A x, y \in Seq(T) : x \o y \in Seq(T)  BY ConcatProperties
  <2>3. \A x, y \in Seq(T) :
            FlattenSeq(x \o y) = FlattenSeq(x) \o FlattenSeq(y)
    BY FlattenConcat
  <2>4. H[<<>>] = <<>>  BY <2>1, FlattenNone
  <2>5. \A x, y \in Seq(T) : H[x \o y] = H[x] \o H[y]  BY <2>2, <2>3
  <2>. HIDE DEF H, T
  <2>. QED BY <2>4, <2>5 DEF Chains
<1>3. \A x \in Seq(T) : H[x] = FlattenSeq(x)  OBVIOUS
<1>4. FlattenSeq(ss) \in Seq(T)  BY FlattenIsSequence
<1>5. \A i \in 1..Len(ss) : ss[i] \in Seq(T)  BY ElementOfSeq
<1>. HIDE DEF H
<1>6. Images(ts, H, ss)  BY <1>3, <1>5 DEF Images
<1>7. H[FlattenSeq(ss)] = FlattenSeq(ts)  BY <1>1, <1>2, <1>6, ChainOfImages
<1>. QED BY <1>3, <1>4, <1>7

(* What is left of a chain is the chain of what is left of its parts.      *)
LEMMA WithoutChain ==
  ASSUME NEW S, NEW D, NEW ss \in Seq(Seq(S)), NEW ts \in Seq(Seq(S)),
         Filtered(ts, ss, D)
  PROVE  Without(FlattenSeq(ss), D) = FlattenSeq(ts)
<1>. DEFINE H == [x \in Seq(S) |-> Without(x, D)]
<1>1. H \in [Seq(S) -> Seq(S)]
  <2>1. \A x \in Seq(S) : Without(x, D) \in Seq(S)  BY WithoutIsSeq
  <2>. QED BY <2>1
<1>2. Chains(H, S)
  <2>1. <<>> \in Seq(S) /\ Len(<<>>) = 0  BY EmptySeq
  <2>2. \A x, y \in Seq(S) : x \o y \in Seq(S)  BY ConcatProperties
  <2>3. \A x, y \in Seq(S) :
            Without(x \o y, D) = Without(x, D) \o Without(y, D)
    BY WithoutConcat
  <2>4. Without(<<>>, D) = <<>>
    <3>1. \A i \in 1..Len(<<>>) : <<>>[i] \in D  BY <2>1
    <3>. QED BY <2>1, <3>1, WithoutAll
  <2>5. H[<<>>] = <<>>  BY <2>1, <2>4
  <2>6. \A x, y \in Seq(S) : H[x \o y] = H[x] \o H[y]  BY <2>2, <2>3
  <2>. HIDE DEF H
  <2>. QED BY <2>5, <2>6 DEF Chains
<1>3. \A x \in Seq(S) : H[x] = Without(x, D)  OBVIOUS
<1>4. FlattenSeq(ss) \in Seq(S)  BY FlattenIsSequence
<1>5. \A i \in 1..Len(ss) : ss[i] \in Seq(S)  BY ElementOfSeq
<1>. HIDE DEF H
<1>6. Images(ts, H, ss)  BY <1>3, <1>5 DEF Images, Filtered
<1>7. H[FlattenSeq(ss)] = FlattenSeq(ts)  BY <1>1, <1>2, <1>6, ChainOfImages
<1>. QED BY <1>3, <1>4, <1>7

-----------------------------------------------------------------------------
(* The children of a node.                                                 *)

(* A sequence mapped is a sequence of as many.                             *)
LEMMA MappedIsSeq ==
  ASSUME NEW C, NEW A, NEW K, Yields(K, C, A), NEW s \in Seq(C)
  PROVE  \E f \in Seq(A) : IsMapped(f, K, s)
<1>1. PICK n \in Nat : n = Len(s) /\ DOMAIN s = 1..n  BY LenProperties
<1>2. \A j \in 1..n : s[j] \in C /\ K[s[j]] \in A
  BY <1>1, ElementOfSeq DEF Yields
<1>3. PICK f : f = Mapped(K, s)  OBVIOUS
<1>4. /\ f \in [1..n -> A] /\ \A j \in 1..n : f[j] = K[s[j]]
  BY <1>1, <1>2, <1>3 DEF Mapped
<1>5. f \in Seq(A) /\ Len(f) = n  BY <1>4, IsSequence
<1>6. IsMapped(f, K, s)  BY <1>1, <1>3, <1>4, <1>5 DEF IsMapped
<1>. QED BY <1>5, <1>6

(* Two sequences mapped one after the other.                               *)
LEMMA MappedConcat ==
  ASSUME NEW C, NEW A, NEW K, Yields(K, C, A),
         NEW x \in Seq(C), NEW y \in Seq(C)
  PROVE  Mapped(K, x \o y) = Mapped(K, x) \o Mapped(K, y)
<1>1. PICK n \in Nat : n = Len(x)  BY LenProperties
<1>2. PICK m \in Nat : m = Len(y)  BY LenProperties
<1>3. PICK z \in Seq(C) : z = x \o y  BY ConcatProperties
<1>4. Len(z) = n + m
      /\ \A i \in 1..(n + m) : z[i] = IF i <= n THEN x[i] ELSE y[i - n]
  <2>1. Chained(z, x, y)  BY <1>3, ConcatIsChained
  <2>. QED BY <1>1, <1>2, <2>1 DEF Chained
<1>5. PICK f \in Seq(A) : IsMapped(f, K, x)  BY MappedIsSeq
<1>6. PICK g \in Seq(A) : IsMapped(g, K, y)  BY MappedIsSeq
<1>7. PICK h \in Seq(A) : IsMapped(h, K, z)  BY MappedIsSeq
<1>8. PICK u \in Seq(A) : u = f \o g  BY ConcatProperties
<1>9. /\ Len(f) = n /\ \A j \in 1..n : f[j] = K[x[j]]
      /\ Len(g) = m /\ \A j \in 1..m : g[j] = K[y[j]]
      /\ Len(h) = n + m /\ \A j \in 1..(n + m) : h[j] = K[z[j]]
  BY <1>1, <1>2, <1>4, <1>5, <1>6, <1>7 DEF IsMapped
<1>10. Len(u) = n + m
       /\ \A i \in 1..(n + m) : u[i] = IF i <= n THEN f[i] ELSE g[i - n]
  <2>1. Chained(u, f, g)  BY <1>8, ConcatIsChained
  <2>. QED BY <1>9, <2>1 DEF Chained
<1>11. ASSUME NEW i \in 1..(n + m) PROVE h[i] = u[i]
  <2>1. CASE i <= n
    <3>1. i \in 1..n  BY <2>1
    <3>2. h[i] = K[z[i]] /\ f[i] = K[x[i]]  BY <1>9, <3>1
    <3>3. z[i] = x[i]  BY <1>4, <2>1
    <3>4. u[i] = f[i]  BY <1>10, <2>1
    <3>. QED BY <3>2, <3>3, <3>4
  <2>2. CASE ~(i <= n)
    <3>1. i - n \in 1..m  BY <2>2
    <3>2. PICK j \in 1..m : j = i - n  BY <3>1
    <3>3. h[i] = K[z[i]] /\ g[j] = K[y[j]]  BY <1>9
    <3>4. z[i] = y[j]  BY <1>4, <2>2, <3>2
    <3>5. u[i] = g[j]  BY <1>10, <2>2, <3>2
    <3>. QED BY <3>3, <3>4, <3>5
  <2>. QED BY <2>1, <2>2
<1>12. h = u  BY <1>9, <1>10, <1>11, SeqEqual
<1>. QED BY <1>3, <1>5, <1>6, <1>7, <1>8, <1>12 DEF IsMapped

(* The children of b are picked from the page in order.                    *)
LEMMA ChildrenAreSelected ==
  ASSUME NEW page, NEW b, Len(page) \in Nat, DOMAIN page = 1..Len(page)
  PROVE  \E sel \in Seq(Seq(NodesUnder(page, b))) : Selecting(sel, page, b)
<1>1. PICK n \in Nat : n = Len(page) /\ DOMAIN page = 1..n  OBVIOUS
<1>. DEFINE C == NodesUnder(page, b)
            D == {i \in DOMAIN page : page[i].parent # b}
            sel == [i \in 1..n |-> IF i \in D THEN <<>> ELSE <<i>>]
<1>2. Children(page, b) = FlattenSeq(sel)
  <2>1. DOMAIN Places(page) = 1..n /\ \A i \in 1..n : Places(page)[i] = i
    BY <1>1 DEF Places
  <2>2. Without(Places(page), D)
            = FlattenSeq([i \in 1..n |-> IF Places(page)[i] \in D THEN <<>>
                                         ELSE <<Places(page)[i]>>])
    BY <2>1 DEF Without
  <2>3. [i \in 1..n |-> IF Places(page)[i] \in D THEN <<>>
                        ELSE <<Places(page)[i]>>] = sel
    BY <2>1
  <2>. QED BY <2>2, <2>3 DEF Children
<1>3. \A i \in 1..n : i \in D <=> i \notin C  BY <1>1 DEF NodesUnder
<1>. HIDE DEF C, D
<1>4. ASSUME NEW i \in 1..n
      PROVE  (IF i \in D THEN <<>> ELSE <<i>>) \in Seq(C)
  <2>1. CASE i \in D  BY <2>1, EmptySeq
  <2>2. CASE i \notin D
    <3>1. <<i>> \in Seq(C)  BY <1>3, <2>2
    <3>. QED BY <2>2, <3>1
  <2>. QED BY <2>1, <2>2
<1>5. sel \in Seq(Seq(C)) /\ Len(sel) = n
  <2>1. sel \in [1..n -> Seq(C)]  BY <1>4
  <2>. HIDE DEF sel
  <2>. QED BY <2>1, IsSequence
<1>6. \A i \in 1..n : sel[i] = IF i \in C THEN <<i>> ELSE <<>>  BY <1>3
<1>. HIDE DEF sel
<1>7. Selecting(sel, page, b)  BY <1>1, <1>2, <1>5, <1>6 DEF Selecting, C
<1>. QED BY <1>5, <1>7 DEF C

(* They are nodes that hang on b.                                          *)
LEMMA ChildrenAreNodes ==
  ASSUME NEW page, NEW b, Len(page) \in Nat, DOMAIN page = 1..Len(page)
  PROVE  Children(page, b) \in Seq(NodesUnder(page, b))
<1>1. PICK sel \in Seq(Seq(NodesUnder(page, b))) : Selecting(sel, page, b)
  BY ChildrenAreSelected
<1>2. FlattenSeq(sel) \in Seq(NodesUnder(page, b))  BY FlattenIsSequence
<1>. QED BY <1>1, <1>2 DEF Selecting

(* What is written of the children is what is written of each node of the  *)
(* page that hangs on b.                                                   *)
LEMMA ChildrenAreMapped ==
  ASSUME NEW page, NEW b, Len(page) \in Nat, DOMAIN page = 1..Len(page),
         NEW S, NEW K, Yields(K, NodesUnder(page, b), Seq(S)),
         NEW parts \in Seq(Seq(S)),
         OfChildren(parts, Parents(page), Len(page), b, K)
  PROVE  FlattenSeq(Mapped(K, Children(page, b))) = FlattenSeq(parts)
<1>1. PICK n \in Nat : n = Len(page) /\ DOMAIN page = 1..n  OBVIOUS
<1>. DEFINE C == NodesUnder(page, b)
<1>2. PICK sel \in Seq(Seq(C)) :
          /\ Children(page, b) = FlattenSeq(sel) /\ Len(sel) = n
          /\ \A i \in 1..n : sel[i] = IF i \in C THEN <<i>> ELSE <<>>
  <2>1. PICK s \in Seq(Seq(C)) : Selecting(s, page, b)  BY ChildrenAreSelected
  <2>. QED BY <1>1, <2>1 DEF Selecting
<1>3. \A i \in 1..n : i \in C <=> Parents(page)[i] = b
  BY <1>1 DEF NodesUnder, Parents
<1>4. /\ Len(parts) = n
      /\ \A i \in 1..n : parts[i] = IF i \in C THEN K[i] ELSE <<>>
  <2>. HIDE DEF C
  <2>. QED BY <1>1, <1>3 DEF OfChildren
<1>5. C \subseteq 1..n  BY <1>1 DEF NodesUnder
<1>. DEFINE H == [x \in Seq(C) |-> FlattenSeq(Mapped(K, x))]
<1>6. Yields(K, C, Seq(S))  OBVIOUS
<1>. HIDE DEF C
<1>7. H \in [Seq(C) -> Seq(S)]
  <2>1. ASSUME NEW x \in Seq(C)
        PROVE  FlattenSeq(Mapped(K, x)) \in Seq(S)
    <3>1. PICK s \in Seq(Seq(S)) : IsMapped(s, K, x)  BY <1>6, MappedIsSeq
    <3>2. s = Mapped(K, x)  BY <3>1 DEF IsMapped
    <3>. QED BY <3>2, FlattenIsSequence
  <2>. QED BY <2>1
<1>8. Chains(H, C)
  <2>1. <<>> \in Seq(C)  BY EmptySeq
  <2>2. \A x, y \in Seq(C) : x \o y \in Seq(C)  BY ConcatProperties
  <2>3. ASSUME NEW x \in Seq(C), NEW y \in Seq(C)
        PROVE  FlattenSeq(Mapped(K, x \o y))
                   = FlattenSeq(Mapped(K, x)) \o FlattenSeq(Mapped(K, y))
    <3>1. PICK s \in Seq(Seq(S)) : IsMapped(s, K, x)  BY <1>6, MappedIsSeq
    <3>2. s = Mapped(K, x)  BY <3>1 DEF IsMapped
    <3>3. PICK t \in Seq(Seq(S)) : IsMapped(t, K, y)  BY <1>6, MappedIsSeq
    <3>4. t = Mapped(K, y)  BY <3>3 DEF IsMapped
    <3>5. Mapped(K, x \o y) = Mapped(K, x) \o Mapped(K, y)
      BY <1>6, MappedConcat
    <3>. QED BY <3>2, <3>4, <3>5, FlattenConcat
  <2>4. Mapped(K, <<>>) = <<>>  BY DEF Mapped
  <2>5. H[<<>>] = <<>>  BY <2>1, <2>4, FlattenNone
  <2>6. \A x, y \in Seq(C) : H[x \o y] = H[x] \o H[y]  BY <2>2, <2>3
  <2>. HIDE DEF H
  <2>. QED BY <2>5, <2>6 DEF Chains
<1>9. ASSUME NEW i \in 1..n PROVE parts[i] = H[sel[i]]
  <2>1. CASE i \in C
    <3>1. <<i>> \in Seq(C) /\ Len(<<i>>) = 1 /\ <<i>>[1] = i  BY <2>1
    <3>2. PICK x \in Seq(C) : x = <<i>> /\ Len(x) = 1 /\ x[1] = i
      BY <3>1, Zenon
    <3>3. PICK t \in Seq(Seq(S)) : IsMapped(t, K, x)  BY <1>6, MappedIsSeq
    <3>4. Len(t) = 1 /\ t[1] = K[i] /\ t = Mapped(K, x)
      <4>1. Len(t) = Len(x) /\ t = Mapped(K, x)  BY <3>3 DEF IsMapped
      <4>2. 1 \in 1..Len(x)  BY <3>2
      <4>3. t[1] = K[x[1]]  BY <3>3, <4>2 DEF IsMapped
      <4>. QED BY <3>2, <4>1, <4>3
    <3>5. FlattenSeq(t) = K[i]  BY <3>4, FlattenOfOne
    <3>6. H[x] = K[i]  BY <3>4, <3>5
    <3>. QED BY <1>2, <1>4, <2>1, <3>2, <3>6
  <2>2. CASE i \notin C
    <3>1. <<>> \in Seq(C) /\ Mapped(K, <<>>) = <<>>  BY EmptySeq DEF Mapped
    <3>2. H[<<>>] = <<>>  BY <3>1, FlattenNone
    <3>. QED BY <1>2, <1>4, <2>2, <3>2
  <2>. QED BY <2>1, <2>2
<1>10. \A x \in Seq(C) : H[x] = FlattenSeq(Mapped(K, x))  OBVIOUS
<1>. HIDE DEF H
<1>11. Images(parts, H, sel)  BY <1>2, <1>4, <1>9 DEF Images
<1>12. H[FlattenSeq(sel)] = FlattenSeq(parts)
  BY <1>7, <1>8, <1>11, ChainOfImages
<1>13. Children(page, b) \in Seq(C)  BY <1>1, ChildrenAreNodes DEF C
<1>. QED BY <1>2, <1>10, <1>12, <1>13

-----------------------------------------------------------------------------
(* Recursion on the nodes of a tree.                                       *)

(* Such a recursion has a solution.                                        *)
LEMMA RecursionSolves ==
  ASSUME NEW n \in Nat, NEW A, NEW a \in A,
         NEW F \in [(0..n) \X [0..n -> A] -> A],
         NEW rank \in [0..n -> 0..n], LooksBelow(F, rank, n, A)
  PROVE  \E h \in [0..n -> A] : Solution(h, F, n)
<1>. DEFINE Solves(h, m) ==
                \A b \in 0..n : rank[b] < m => h[b] = F[<<b, h>>]
            P == {m \in 0..(n + 1) : \E h \in [0..n -> A] : Solves(h, m)}
<1>1. 0 \in P
  <2>. DEFINE h == [b \in 0..n |-> a]
  <2>1. h \in [0..n -> A]  OBVIOUS
  <2>2. Solves(h, 0)  OBVIOUS
  <2>. HIDE DEF h, Solves
  <2>. QED BY <2>1, <2>2
<1>2. ASSUME NEW m \in 1..(n + 1), m - 1 \in P PROVE m \in P
  <2>1. PICK f \in [0..n -> A] : Solves(f, m - 1)  BY <1>2
  <2>. DEFINE h == [b \in 0..n |-> F[<<b, f>>]]
  <2>2. h \in [0..n -> A]  OBVIOUS
  <2>3. \A b \in 0..n : h[b] = F[<<b, f>>]  OBVIOUS
  <2>4. \A b \in 0..n : rank[b] < m - 1 => f[b] = F[<<b, f>>]  BY <2>1
  <2>. HIDE DEF h
  <2>5. ASSUME NEW b \in 0..n, rank[b] < m PROVE h[b] = F[<<b, h>>]
    <3>1. ASSUME NEW c \in 0..n, rank[c] < rank[b] PROVE h[c] = f[c]
      <4>1. rank[c] < m - 1  BY <2>5, <3>1
      <4>. QED BY <2>3, <2>4, <4>1
    <3>2. F[<<b, h>>] = F[<<b, f>>]  BY <2>2, <3>1 DEF LooksBelow
    <3>. QED BY <2>3, <3>2
  <2>6. Solves(h, m)  BY <2>5
  <2>. HIDE DEF Solves
  <2>. QED BY <2>2, <2>6
<1>. HIDE DEF P
<1>3. n + 1 \in Nat  OBVIOUS
<1>4. \A m \in 0..(n + 1) : m \in P  BY <1>1, <1>2, <1>3, BoundedInduction
<1>5. n + 1 \in 0..(n + 1)  OBVIOUS
<1>6. n + 1 \in P  BY <1>4, <1>5
<1>7. PICK h \in [0..n -> A] : Solves(h, n + 1)  BY <1>6 DEF P
<1>8. \A b \in 0..n : rank[b] < n + 1  OBVIOUS
<1>9. Solution(h, F, n)  BY <1>7, <1>8 DEF Solution
<1>. QED BY <1>9

(* A tree is numbered in preorder.                                         *)
LEMMA TreeIsPreorder ==
  ASSUME NEW page, IsTree(page)
  PROVE  /\ Len(page) \in Nat /\ DOMAIN page = 1..Len(page)
         /\ Preorder(Parents(page), Len(page))
         /\ \A i \in 1..Len(page) : /\ Parents(page)[i] = page[i].parent
                                    /\ page[i].parent \in 0..(i - 1)
<1>1. PICK n : n = Len(page) /\ n \in Nat /\ DOMAIN page = 1..n  BY DEF IsTree
<1>2. PICK p : p = Parents(page)  OBVIOUS
<1>3. \A i \in 1..n : p[i] = page[i].parent  BY <1>1, <1>2 DEF Parents
<1>4. \A i \in 1..n :
          /\ page[i].parent \in 0..(i - 1)
          /\ \A k \in (page[i].parent + 1)..(i - 1) :
                 page[k].parent >= page[i].parent
  BY <1>1 DEF IsTree
<1>5. ASSUME NEW i \in 1..n
      PROVE  /\ p[i] \in 0..(i - 1)
             /\ \A k \in (p[i] + 1)..(i - 1) : p[k] >= p[i]
  <2>1. \A k \in (p[i] + 1)..(i - 1) : k \in 1..n
    <3>1. PICK q \in 0..(i - 1) : q = p[i]  BY <1>3, <1>4
    <3>2. \A k \in (q + 1)..(i - 1) : k \in 1..n  BY <1>1
    <3>. QED BY <3>1, <3>2
  <2>. QED BY <1>3, <1>4, <2>1
<1>6. Preorder(p, n)  BY <1>5 DEF Preorder
<1>. QED BY <1>1, <1>2, <1>3, <1>4, <1>6

(* Parents come first, so the climb that defines Ancestors ends.           *)
LEMMA AncestorsClimb ==
  ASSUME NEW page, IsTree(page)
  PROVE  AncestorsOf(page, Len(page))
<1>1. PICK n \in Nat : n = Len(page) /\ DOMAIN page = 1..n  BY TreeIsPreorder
<1>2. \A i \in 1..n : page[i].parent \in 0..(i - 1)  BY <1>1, TreeIsPreorder
<1>. DEFINE Solves(up) == up = [m \in 0..n |->
                                   IF m = 0 THEN {}
                                   ELSE {page[m].parent}
                                            \union up[page[m].parent]]
            above == [m \in 0..n |->
                         {a \in 0..(m - 1) :
                              \A i \in (a + 1)..m : page[i].parent >= a}]
<1>3. Solves(above)
  <2>1. above[0] = {}  OBVIOUS
  <2>2. ASSUME NEW m \in 1..n
        PROVE  above[m] = {page[m].parent} \union above[page[m].parent]
    <3>1. PICK q \in 0..(m - 1) :
              /\ q = page[m].parent
              /\ \A k \in (q + 1)..(m - 1) : page[k].parent >= q
      BY <1>1 DEF IsTree
    <3>2. \A i \in 1..n : page[i].parent \in Nat  BY <1>2
    <3>3. ASSUME NEW a \in 0..(m - 1)
          PROVE  a \in above[m] <=> a = q \/ a \in above[q]
      <4>1. CASE a = q
        <5>1. \A i \in (a + 1)..m : i = m \/ i \in (q + 1)..(m - 1)  BY <4>1
        <5>2. \A i \in (a + 1)..m : page[i].parent >= a  BY <3>1, <4>1, <5>1
        <5>. QED BY <4>1, <5>2
      <4>2. CASE a < q
        <5>1. \A i \in (a + 1)..m :
                  \/ i \in (a + 1)..q
                  \/ i = m \/ i \in (q + 1)..(m - 1)
          OBVIOUS
        <5>2. \A i \in (q + 1)..m : page[i].parent >= a
          BY <1>1, <3>1, <3>2, <4>2
        <5>. QED BY <4>2, <5>1, <5>2
      <4>3. CASE q < a
        <5>1. m \in (a + 1)..m /\ ~(page[m].parent >= a)  BY <3>1, <4>3
        <5>2. a \notin above[q]  BY <4>3
        <5>. QED BY <4>3, <5>1, <5>2
      <4>. QED BY <4>1, <4>2, <4>3
    <3>4. above[q] \subseteq 0..(m - 1) /\ above[m] \subseteq 0..(m - 1)
      OBVIOUS
    <3>. QED BY <3>1, <3>3, <3>4
  <2>3. above = [m \in 0..n |-> above[m]]  OBVIOUS
  <2>. HIDE DEF above
  <2>4. \A m \in 0..n : m # 0 => m \in 1..n  OBVIOUS
  <2>. QED BY <2>1, <2>2, <2>3, <2>4
<1>. HIDE DEF above
<1>4. PICK c : c = CHOOSE up : Solves(up)  OBVIOUS
<1>5. \A b : Ancestors(page, b) = c[b] \ {0}  BY <1>1, <1>4 DEF Ancestors
<1>. HIDE DEF Solves
<1>6. Solves(c)  BY <1>3, <1>4
<1>7. /\ c[0] = {}
      /\ \A m \in 1..n : c[m] = {page[m].parent} \union c[page[m].parent]
  <2>1. 0 \in 0..n /\ \A m \in 1..n : m \in 0..n /\ m # 0  OBVIOUS
  <2>. QED BY <1>6, <2>1 DEF Solves
<1>. DEFINE P == {k \in 0..n : \A b \in 1..k : c[b] \subseteq 0..(b - 1)}
<1>8. 0 \in P  OBVIOUS
<1>9. ASSUME NEW k \in 1..n, k - 1 \in P PROVE k \in P
  <2>1. ASSUME NEW b \in 1..k PROVE c[b] \subseteq 0..(b - 1)
    <3>1. CASE b # k
      <4>1. b \in 1..(k - 1)  BY <3>1
      <4>. QED BY <1>9, <4>1
    <3>2. CASE b = k
      <4>1. PICK q \in 0..(k - 1) : q = page[k].parent  BY <1>2
      <4>2. c[k] = {q} \union c[q]  BY <1>7, <4>1
      <4>3. c[q] \subseteq 0..(k - 1)
        <5>1. CASE q = 0  BY <1>7, <5>1
        <5>2. CASE q # 0
          <6>1. q \in 1..(k - 1)  BY <5>2
          <6>2. c[q] \subseteq 0..(q - 1)  BY <1>9, <6>1
          <6>. QED BY <6>2
        <5>. QED BY <5>1, <5>2
      <4>. QED BY <3>2, <4>2, <4>3
    <3>. QED BY <3>1, <3>2
  <2>. QED BY <2>1
<1>. HIDE DEF P
<1>10. \A k \in 0..n : k \in P  BY <1>8, <1>9, BoundedInduction
<1>11. \A b \in 1..n : c[b] \subseteq 0..(b - 1)
  <2>1. n \in P  BY <1>10
  <2>. QED BY <2>1 DEF P
<1>12. ASSUME NEW b \in 1..n
       PROVE  /\ Ancestors(page, b) \subseteq 1..(b - 1)
              /\ page[b].parent = 0 => Ancestors(page, b) = {}
  <2>1. Ancestors(page, b) = c[b] \ {0}  BY <1>5
  <2>2. c[b] \subseteq 0..(b - 1)  BY <1>11
  <2>. QED BY <1>7, <2>1, <2>2
<1>13. ASSUME NEW b \in 1..n, page[b].parent # 0
       PROVE  Ancestors(page, b)
                  = {page[b].parent} \union Ancestors(page, page[b].parent)
  BY <1>5, <1>7, <1>13
<1>. QED BY <1>1, <1>12, <1>13 DEF AncestorsOf

-----------------------------------------------------------------------------
(* Notion: the recursion over blocks.                                      *)

(* A block and what hangs on it give lines of the page.                    *)
LEMMA PartIsText ==
  ASSUME NEW page, NEW c \in 1..Len(page), NEW l \in Nat, NEW q \in Nat,
         NEW inner \in Seq(Seq(LinesOf(page)))
  PROVE  PartOf(page, c, l, q, inner) \in Seq(Seq(LinesOf(page)))
<1>. DEFINE S == LinesOf(page)
            line == FormatNotionBlock(page, c, l, q)
            own == IF line = <<>> THEN <<>> ELSE <<line>>
            below == IF ~Entered(page[c].type) \/ Children(page, c) = <<>>
                     THEN <<>>
                     ELSE IF page[c].type = "table" THEN <<FlattenSeq(inner)>>
                     ELSE inner
<1>1. LineAt(page, c, l, q) \in S
  <2>1. <<c, l, q>> \in (1..Len(page)) \X Nat \X Nat  OBVIOUS
  <2>2. PICK x \in (1..Len(page)) \X Nat \X Nat :
            x[1] = c /\ x[2] = l /\ x[3] = q
    BY <2>1
  <2>. QED BY <2>2 DEF LinesOf
<1>2. line \in {<<>>, <<LineAt(page, c, l, q)>>}
  BY DEF FormatNotionBlock, LineAt
<1>. HIDE DEF line
<1>3. line \in Seq(S)
  <2>1. <<LineAt(page, c, l, q)>> \in Seq(S) /\ <<>> \in Seq(S)
    BY <1>1, EmptySeq
  <2>. QED BY <1>2, <2>1
<1>. HIDE DEF S
<1>4. own \in Seq(Seq(S))
  <2>1. <<line>> \in Seq(Seq(S)) /\ <<>> \in Seq(Seq(S))  BY <1>3, EmptySeq
  <2>. QED BY <2>1
<1>5. below \in Seq(Seq(S))
  <2>1. PICK t \in Seq(S) : t = FlattenSeq(inner)  BY FlattenIsSequence DEF S
  <2>2. <<t>> \in Seq(Seq(S)) /\ <<>> \in Seq(Seq(S))  BY EmptySeq
  <2>3. inner \in Seq(Seq(S))  BY DEF S
  <2>. QED BY <2>1, <2>2, <2>3
<1>6. PartOf(page, c, l, q, inner) = own \o below  BY DEF PartOf, line
<1>. HIDE DEF own, below
<1>7. own \o below \in Seq(Seq(S))  BY <1>4, <1>5, ConcatProperties
<1>. QED BY <1>6, <1>7 DEF S

(* The depths below a block are depths.                                    *)
LEMMA ChildDepths ==
  ASSUME NEW type, NEW l \in Nat
  PROVE  ChildListDepth(type, l) \in Nat /\ ChildQuoteDepth(type, l) \in Nat
BY DEF ChildListDepth, ChildQuoteDepth

(* The children of b are nodes that come after it.                         *)
LEMMA ChildrenFollow ==
  ASSUME NEW page, IsTree(page), NEW b \in 0..Len(page)
  PROVE  /\ Children(page, b) \in Seq(NodesUnder(page, b))
         /\ \A c \in NodesUnder(page, b) : c \in 1..Len(page) /\ b < c
<1>1. PICK n \in Nat : n = Len(page) /\ DOMAIN page = 1..n  BY TreeIsPreorder
<1>2. \A c \in 1..n : page[c].parent \in 0..(c - 1)  BY <1>1, TreeIsPreorder
<1>3. Children(page, b) \in Seq(NodesUnder(page, b))  BY <1>1, ChildrenAreNodes
<1>4. ASSUME NEW c \in NodesUnder(page, b) PROVE c \in 1..n /\ b < c
  <2>1. c \in 1..n /\ page[c].parent = b  BY <1>1 DEF NodesUnder
  <2>2. page[c].parent \in 0..(c - 1)  BY <1>2, <2>1
  <2>. QED BY <2>1, <2>2
<1>. QED BY <1>1, <1>3, <1>4

(* If the nodes below b have texts, so does b.                             *)
LEMMA BodyIsText ==
  ASSUME NEW page, IsTree(page), NEW b \in 0..Len(page),
         NEW l \in Nat, NEW q \in Nat, NEW C, TextsUnder(C, page, b)
  PROVE  /\ Yields(PartsOf(page, l, q, C), NodesUnder(page, b),
                   Seq(Seq(LinesOf(page))))
         /\ FlattenSeq(Mapped(PartsOf(page, l, q, C), Children(page, b)))
                \in Seq(Seq(LinesOf(page)))
<1>. DEFINE A == Seq(Seq(LinesOf(page)))
            N == NodesUnder(page, b)
            K == PartsOf(page, l, q, C)
<1>1. Children(page, b) \in Seq(N) /\ \A c \in N : c \in 1..Len(page)
  BY ChildrenFollow
<1>2. ASSUME NEW c \in N PROVE K[c] \in A
  <2>1. c \in 1..Len(page)  BY <1>1
  <2>2. PICK l2 \in Nat : l2 = ChildListDepth(page[c].type, l)  BY ChildDepths
  <2>3. PICK q2 \in Nat : q2 = ChildQuoteDepth(page[c].type, q)  BY ChildDepths
  <2>4. C[<<c, l2, q2>>] \in A  BY DEF TextsUnder
  <2>5. K[c] = PartOf(page, c, l, q, C[<<c, l2, q2>>])
    BY <2>1, <2>2, <2>3 DEF PartsOf
  <2>. QED BY <2>1, <2>4, <2>5, PartIsText
<1>. HIDE DEF K, N
<1>3. Yields(K, N, A)  BY <1>2 DEF Yields
<1>4. PICK f \in Seq(A) : IsMapped(f, K, Children(page, b))
  BY <1>1, <1>3, MappedIsSeq
<1>5. f = Mapped(K, Children(page, b))  BY <1>4 DEF IsMapped
<1>6. FlattenSeq(f) \in A  BY FlattenIsSequence
<1>. QED BY <1>3, <1>5, <1>6 DEF K, N

(* And only their texts matter to it.                                      *)
LEMMA BodyLooksBelow ==
  ASSUME NEW page, IsTree(page), NEW b \in 0..Len(page),
         NEW l \in Nat, NEW q \in Nat, NEW C, NEW D, AgreeUnder(C, D, page, b)
  PROVE  Mapped(PartsOf(page, l, q, C), Children(page, b))
             = Mapped(PartsOf(page, l, q, D), Children(page, b))
<1>. DEFINE N == NodesUnder(page, b)
            K == PartsOf(page, l, q, C)
            M == PartsOf(page, l, q, D)
<1>1. Children(page, b) \in Seq(N) /\ \A c \in N : c \in 1..Len(page)
  BY ChildrenFollow
<1>2. ASSUME NEW c \in N PROVE K[c] = M[c]
  <2>1. c \in 1..Len(page)  BY <1>1
  <2>2. PICK l2 \in Nat : l2 = ChildListDepth(page[c].type, l)  BY ChildDepths
  <2>3. PICK q2 \in Nat : q2 = ChildQuoteDepth(page[c].type, q)  BY ChildDepths
  <2>4. C[<<c, l2, q2>>] = D[<<c, l2, q2>>]  BY DEF AgreeUnder
  <2>5. K[c] = PartOf(page, c, l, q, C[<<c, l2, q2>>])
    BY <2>1, <2>2, <2>3 DEF PartsOf
  <2>6. M[c] = PartOf(page, c, l, q, D[<<c, l2, q2>>])
    BY <2>1, <2>2, <2>3 DEF PartsOf
  <2>. QED BY <2>4, <2>5, <2>6
<1>. HIDE DEF K, M, N
<1>3. PICK s \in Seq(N) : s = Children(page, b)  BY <1>1
<1>4. \A k \in DOMAIN s : s[k] \in N  BY LenProperties, ElementOfSeq
<1>5. Mapped(K, s) = Mapped(M, s)  BY <1>2, <1>4 DEF Mapped
<1>. QED BY <1>3, <1>5 DEF K, M

(* There is one.                                                           *)
LEMMA NotionHasSolution ==
  ASSUME NEW page, IsTree(page)
  PROVE  \E C : NotionSolution(C, page)
<1>1. PICK n \in Nat : n = Len(page) /\ DOMAIN page = 1..n  BY TreeIsPreorder
<1>. DEFINE T == Seq(Seq(LinesOf(page)))
            D == Nat \X Nat
            A == [D -> T]
            At(f) == [at \in (0..n) \X Nat \X Nat |-> f[at[1]][<<at[2], at[3]>>]]
            Body(b, l, q, f) ==
                FlattenSeq(Mapped(PartsOf(page, l, q, At(f)), Children(page, b)))
            Value(b, f) == [x \in D |-> Body(b, x[1], x[2], f)]
            F == [x \in (0..n) \X [0..n -> A] |-> Value(x[1], x[2])]
            rank == [b \in 0..n |-> n - b]
<1>2. ASSUME NEW f \in [0..n -> A], NEW b \in 0..n, NEW l \in Nat, NEW q \in Nat
      PROVE  At(f)[<<b, l, q>>] = f[b][<<l, q>>] /\ f[b][<<l, q>>] \in T
  <2>1. <<b, l, q>> \in (0..n) \X Nat \X Nat  OBVIOUS
  <2>2. PICK at \in (0..n) \X Nat \X Nat :
            at = <<b, l, q>> /\ at[1] = b /\ at[2] = l /\ at[3] = q
    BY <2>1
  <2>3. At(f)[at] = f[at[1]][<<at[2], at[3]>>]  OBVIOUS
  <2>4. <<l, q>> \in D /\ f[b] \in A  OBVIOUS
  <2>5. f[b][<<l, q>>] \in T  BY <2>4
  <2>. QED BY <2>2, <2>3, <2>5
<1>. HIDE DEF At
<1>3. ASSUME NEW f \in [0..n -> A], NEW b \in 0..n
      PROVE  TextsUnder(At(f), page, b)
  <2>1. \A c \in NodesUnder(page, b) : c \in 0..n  BY <1>1, ChildrenFollow
  <2>2. ASSUME NEW c \in NodesUnder(page, b), NEW l \in Nat, NEW q \in Nat
        PROVE  At(f)[<<c, l, q>>] \in T
    <3>1. c \in 0..n  BY <2>1
    <3>. HIDE DEF A, T
    <3>2. f[c][<<l, q>>] \in T /\ At(f)[<<c, l, q>>] = f[c][<<l, q>>]
      BY <1>2, <3>1
    <3>. QED BY <3>2
  <2>. HIDE DEF A
  <2>. QED BY <2>2 DEF TextsUnder
<1>4. ASSUME NEW f \in [0..n -> A], NEW b \in 0..n, NEW l \in Nat, NEW q \in Nat
      PROVE  Body(b, l, q, f) \in T
  BY <1>1, <1>3, BodyIsText
<1>. HIDE DEF Body, T
<1>5. ASSUME NEW f \in [0..n -> A], NEW b \in 0..n
      PROVE  /\ F[<<b, f>>] = Value(b, f) /\ Value(b, f) \in A
             /\ \A l, q \in Nat : Value(b, f)[<<l, q>>] = Body(b, l, q, f)
  <2>1. \A x \in D : x[1] \in Nat /\ x[2] \in Nat  OBVIOUS
  <2>2. \A x \in D : Body(b, x[1], x[2], f) \in T  BY <1>4, <2>1
  <2>3. Value(b, f) \in A  BY <2>2
  <2>4. <<b, f>> \in (0..n) \X [0..n -> A]  OBVIOUS
  <2>5. F[<<b, f>>] = Value(b, f)
    <3>1. PICK x \in (0..n) \X [0..n -> A] :
              x = <<b, f>> /\ x[1] = b /\ x[2] = f
      BY <2>4
    <3>2. F[x] = Value(x[1], x[2])  OBVIOUS
    <3>. QED BY <3>1, <3>2
  <2>6. ASSUME NEW l \in Nat, NEW q \in Nat
        PROVE  Value(b, f)[<<l, q>>] = Body(b, l, q, f)
    <3>1. <<l, q>> \in D  OBVIOUS
    <3>2. PICK x \in D : x = <<l, q>> /\ x[1] = l /\ x[2] = q  BY <3>1
    <3>3. Value(b, f)[x] = Body(b, x[1], x[2], f)  OBVIOUS
    <3>. QED BY <3>2, <3>3
  <2>. QED BY <2>3, <2>5, <2>6
<1>. HIDE DEF Value, F
<1>6. F \in [(0..n) \X [0..n -> A] -> A]
  <2>1. F = [x \in (0..n) \X [0..n -> A] |-> F[x]]  BY DEF F
  <2>2. ASSUME NEW x \in (0..n) \X [0..n -> A] PROVE F[x] \in A
    <3>. HIDE DEF A
    <3>1. PICK b \in 0..n, f \in [0..n -> A] : x = <<b, f>>  OBVIOUS
    <3>2. F[<<b, f>>] \in A  BY <1>5
    <3>. QED BY <3>1, <3>2
  <2>. HIDE DEF A
  <2>. QED BY <2>1, <2>2
<1>7. rank \in [0..n -> 0..n] /\ \A b \in 0..n : rank[b] = n - b  OBVIOUS
<1>. HIDE DEF rank
<1>8. LooksBelow(F, rank, n, A)
  <2>1. ASSUME NEW b \in 0..n, NEW f \in [0..n -> A],
               NEW g \in [0..n -> A],
               \A c \in 0..n : rank[c] < rank[b] => f[c] = g[c]
        PROVE  F[<<b, f>>] = F[<<b, g>>]
    <3>1. \A c \in NodesUnder(page, b) : c \in 0..n /\ b < c
      BY <1>1, ChildrenFollow
    <3>2. \A c \in NodesUnder(page, b) : f[c] = g[c]
      <4>1. \A c \in NodesUnder(page, b) : rank[c] < rank[b]  BY <1>7, <3>1
      <4>. QED BY <2>1, <3>1, <4>1
    <3>3. AgreeUnder(At(f), At(g), page, b)
      <4>1. ASSUME NEW c \in NodesUnder(page, b), NEW l \in Nat,
                   NEW q \in Nat
            PROVE  At(f)[<<c, l, q>>] = At(g)[<<c, l, q>>]
        <5>1. c \in 0..n /\ f[c] = g[c]  BY <3>1, <3>2
        <5>. HIDE DEF A
        <5>2. At(f)[<<c, l, q>>] = f[c][<<l, q>>]  BY <1>2, <5>1
        <5>3. At(g)[<<c, l, q>>] = g[c][<<l, q>>]  BY <1>2, <5>1
        <5>. QED BY <5>1, <5>2, <5>3
      <4>. QED BY <4>1 DEF AgreeUnder
    <3>4. \A l, q \in Nat : Body(b, l, q, f) = Body(b, l, q, g)
      BY <1>1, <3>3, BodyLooksBelow DEF Body
    <3>5. \A x \in D : Body(b, x[1], x[2], f) = Body(b, x[1], x[2], g)  BY <3>4
    <3>6. Value(b, f) = Value(b, g)  BY <3>5 DEF Value
    <3>. QED BY <1>5, <3>6
  <2>. HIDE DEF A
  <2>. QED BY <2>1 DEF LooksBelow
<1>9. PICK h \in [0..n -> A] : Solution(h, F, n)
  <2>1. PICK a \in A : TRUE
    <3>1. <<>> \in T  BY EmptySeq DEF T
    <3>2. [x \in D |-> <<>>] \in A  BY <3>1
    <3>. QED BY <3>2
  <2>2. rank \in [0..n -> 0..n]  BY <1>7
  <2>. HIDE DEF A
  <2>. QED BY <1>6, <1>8, <2>1, <2>2, RecursionSolves
<1>10. ASSUME NEW b \in 0..n, NEW l \in Nat, NEW q \in Nat
       PROVE  At(h)[<<b, l, q>>]
                  = FlattenSeq(Mapped(PartsOf(page, l, q, At(h)),
                                      Children(page, b)))
  <2>1. h[b] = F[<<b, h>>]  BY <1>9 DEF Solution
  <2>. HIDE DEF A
  <2>2. h[b] = Value(b, h)  BY <1>5, <2>1
  <2>3. h[b][<<l, q>>] = Body(b, l, q, h)  BY <1>5, <2>2
  <2>4. At(h)[<<b, l, q>>] = h[b][<<l, q>>]  BY <1>2
  <2>. QED BY <2>3, <2>4 DEF Body
<1>11. SolvesNotion(At(h), page)  BY <1>1, <1>10 DEF SolvesNotion
<1>12. At(h) = [at \in (0..n) \X Nat \X Nat |-> At(h)[at]]  BY DEF At
<1>. QED BY <1>1, <1>11, <1>12 DEF NotionSolution

(* The recursion of the code gives one.                                    *)
LEMMA NotionSolves ==
  ASSUME NEW page, IsTree(page)
  PROVE  \E C : /\ SolvesNotion(C, page)
                /\ FetchNotionBlockContents(page) = C[<<0, 0, 0>>]
<1>1. PICK n \in Nat : n = Len(page) /\ DOMAIN page = 1..n  BY TreeIsPreorder
<1>. DEFINE D == (0..n) \X Nat \X Nat
            Body(C, at) ==
                FlattenSeq([k \in DOMAIN Children(page, at[1]) |->
                    PartOf(page, Children(page, at[1])[k], at[2], at[3],
                        C[<<Children(page, at[1])[k],
                            ChildListDepth(page[Children(page, at[1])[k]].type,
                                           at[2]),
                            ChildQuoteDepth(page[Children(page, at[1])[k]].type,
                                            at[3])>>])])
            Solves(C) == C = [at \in D |-> Body(C, at)]
<1>2. FetchNotionBlockContents(page) = (CHOOSE C : Solves(C))[<<0, 0, 0>>]
  BY <1>1 DEF FetchNotionBlockContents, PartOf
<1>3. ASSUME NEW C, NEW b \in 0..n, NEW l \in Nat, NEW q \in Nat
      PROVE  Body(C, <<b, l, q>>)
                 = FlattenSeq(Mapped(PartsOf(page, l, q, C), Children(page, b)))
  <2>1. Children(page, b) \in Seq(NodesUnder(page, b))  BY <1>1, ChildrenFollow
  <2>2. PICK s \in Seq(1..n) : s = Children(page, b)
    <3>1. NodesUnder(page, b) \subseteq 1..n  BY <1>1 DEF NodesUnder
    <3>. QED BY <2>1, <3>1, SeqMonotonic
  <2>3. \A k \in DOMAIN s : s[k] \in 1..n  BY LenProperties, ElementOfSeq
  <2>4. \A c \in 1..n :
            PartsOf(page, l, q, C)[c]
                = PartOf(page, c, l, q,
                         C[<<c, ChildListDepth(page[c].type, l),
                             ChildQuoteDepth(page[c].type, q)>>])
    BY <1>1 DEF PartsOf
  <2>5. Mapped(PartsOf(page, l, q, C), s)
            = [k \in DOMAIN s |->
                  PartOf(page, s[k], l, q,
                         C[<<s[k], ChildListDepth(page[s[k]].type, l),
                             ChildQuoteDepth(page[s[k]].type, q)>>])]
    BY <2>3, <2>4 DEF Mapped
  <2>6. Body(C, <<b, l, q>>)
            = FlattenSeq([k \in DOMAIN s |->
                  PartOf(page, s[k], l, q,
                         C[<<s[k], ChildListDepth(page[s[k]].type, l),
                             ChildQuoteDepth(page[s[k]].type, q)>>])])
    BY <2>2
  <2>. QED BY <2>2, <2>5, <2>6
<1>. HIDE DEF Body
<1>4. ASSUME NEW C, Solves(C) PROVE SolvesNotion(C, page)
  <2>1. ASSUME NEW b \in 0..n, NEW l \in Nat, NEW q \in Nat
        PROVE  C[<<b, l, q>>]
                   = FlattenSeq(Mapped(PartsOf(page, l, q, C),
                                       Children(page, b)))
    <3>1. <<b, l, q>> \in D  OBVIOUS
    <3>2. C[<<b, l, q>>] = Body(C, <<b, l, q>>)  BY <1>4, <3>1
    <3>. QED BY <1>3, <3>2
  <2>. QED BY <1>1, <2>1 DEF SolvesNotion
<1>5. \E C : Solves(C)
  <2>1. PICK C : NotionSolution(C, page)  BY NotionHasSolution
  <2>2. /\ C = [at \in D |-> C[at]]
        /\ SolvesNotion(C, page)
    BY <1>1, <2>1 DEF NotionSolution
  <2>3. ASSUME NEW at \in D PROVE C[at] = Body(C, at)
    <3>1. PICK b \in 0..n, l \in Nat, q \in Nat : at = <<b, l, q>>  OBVIOUS
    <3>2. C[<<b, l, q>>]
              = FlattenSeq(Mapped(PartsOf(page, l, q, C),
                                  Children(page, b)))
      BY <1>1, <2>2 DEF SolvesNotion
    <3>. QED BY <1>3, <3>1, <3>2
  <2>4. C = [at \in D |-> Body(C, at)]
    <3>. HIDE DEF D
    <3>. QED BY <2>2, <2>3
  <2>. QED BY <2>4
<1>. HIDE DEF Solves
<1>6. PICK C : C = CHOOSE X : Solves(X)  OBVIOUS
<1>7. Solves(C)  BY <1>5, <1>6
<1>. QED BY <1>2, <1>4, <1>6, <1>7

-----------------------------------------------------------------------------
(* Notion: what the recursion gives.                                       *)

(* Induction from the last node to the page itself.                        *)
LEMMA DownwardInduction ==
  ASSUME NEW n \in Nat, NEW S,
         \A b \in 0..n : (\A c \in 0..n : b < c => c \in S) => b \in S
  PROVE  \A b \in 0..n : b \in S
<1>. DEFINE P == {k \in 0..n : \A b \in (n - k)..n : b \in S}
<1>1. 0 \in P
  <2>1. n \in S  OBVIOUS
  <2>2. (n - 0)..n = {n}  OBVIOUS
  <2>. QED BY <2>1, <2>2
<1>2. ASSUME NEW k \in 1..n, k - 1 \in P PROVE k \in P
  <2>1. \A b \in (n - (k - 1))..n : b \in S  BY <1>2
  <2>2. PICK b \in 0..n : b = n - k
    <3>1. n - k \in 0..n  OBVIOUS
    <3>. QED BY <3>1
  <2>3. \A c \in 0..n : b < c => c \in (n - (k - 1))..n  BY <2>2
  <2>4. b \in S  BY <2>1, <2>3
  <2>5. \A c \in (n - k)..n : c = b \/ c \in (n - (k - 1))..n  BY <2>2
  <2>. QED BY <2>1, <2>4, <2>5
<1>. HIDE DEF P
<1>3. \A k \in 0..n : k \in P  BY <1>1, <1>2, BoundedInduction
<1>4. n \in P  BY <1>3
<1>5. \A b \in (n - n)..n : b \in S  BY <1>4 DEF P
<1>. QED BY <1>5

(* Nothing but empty parts.                                                *)
LEMMA FlattenOfEmpties ==
  ASSUME NEW S, NEW ss \in Seq(Seq(S)), \A i \in 1..Len(ss) : ss[i] = <<>>
  PROVE  FlattenSeq(ss) = <<>>
<1>1. PICK n \in Nat : n = Len(ss)  BY LenProperties
<1>2. PICK g : FlattenRun(g, ss, S)  BY FlattenRuns
<1>3. /\ g \in [0..n -> Seq(S)] /\ g[0] = <<>>
      /\ \A k \in 1..n : g[k] = g[k - 1] \o ss[k]
      /\ FlattenSeq(ss) = g[n]
  BY <1>1, <1>2 DEF FlattenRun
<1>. DEFINE P == {k \in 0..n : g[k] = <<>>}
<1>4. 0 \in P  BY <1>3
<1>5. ASSUME NEW k \in 1..n, k - 1 \in P PROVE k \in P
  <2>1. g[k] = <<>> \o <<>>  BY <1>1, <1>3, <1>5
  <2>2. <<>> \in Seq(S)  BY EmptySeq
  <2>3. <<>> \o <<>> = <<>>  BY <2>2, ConcatEmptySeq
  <2>. QED BY <2>1, <2>3
<1>. HIDE DEF P
<1>6. \A k \in 0..n : k \in P  BY <1>4, <1>5, BoundedInduction
<1>7. n \in P  BY <1>6
<1>. QED BY <1>3, <1>7 DEF P

(* All the page lies below the page itself.                                *)
LEMMA EndOfPage ==
  ASSUME NEW n \in Nat, NEW p, Preorder(p, n)
  PROVE  EndOf(p, n, 0) = n
<1>1. PICK e : e = EndOf(p, n, 0) /\ IsEnd(e, p, n, 0)  BY EndIsEnd
<1>2. e \in 0..n /\ (e < n => p[e + 1] < 0)  BY <1>1 DEF IsEnd
<1>3. ASSUME e < n PROVE FALSE
  <2>1. PICK g \in 1..n : g = e + 1
    <3>1. e + 1 \in 1..n  BY <1>2, <1>3
    <3>. QED BY <3>1
  <2>2. p[g] \in 0..(g - 1)  BY DEF Preorder
  <2>. QED BY <1>2, <1>3, <2>1, <2>2
<1>. QED BY <1>1, <1>2, <1>3

(* A solution gives texts, from the last node up.                          *)
LEMMA SolutionIsText ==
  ASSUME NEW page, IsTree(page), NEW C, SolvesNotion(C, page)
  PROVE  \A b \in 0..Len(page), l, q \in Nat :
             C[<<b, l, q>>] \in Seq(Seq(LinesOf(page)))
<1>. DEFINE n == Len(page)
            T == Seq(Seq(LinesOf(page)))
            P == {b \in 0..n : \A l, q \in Nat : C[<<b, l, q>>] \in T}
<1>1. n \in Nat  BY TreeIsPreorder
<1>2. ASSUME NEW b \in 0..n, \A c \in 0..n : b < c => c \in P
      PROVE  b \in P
  <2>1. \A c \in NodesUnder(page, b) : c \in 0..n /\ b < c  BY ChildrenFollow
  <2>2. \A c \in NodesUnder(page, b) : c \in P  BY <1>2, <2>1
  <2>3. TextsUnder(C, page, b)  BY <2>2 DEF TextsUnder
  <2>4. ASSUME NEW l \in Nat, NEW q \in Nat PROVE C[<<b, l, q>>] \in T
    <3>1. C[<<b, l, q>>] = FlattenSeq(Mapped(PartsOf(page, l, q, C),
                                             Children(page, b)))
      BY DEF SolvesNotion
    <3>. QED BY <2>3, <3>1, BodyIsText
  <2>. QED BY <2>4
<1>. HIDE DEF P
<1>3. \A b \in 0..n : b \in P  BY <1>1, <1>2, DownwardInduction
<1>. QED BY <1>3 DEF P

(* A block lies in the lists (quotes) its parent does, and in its parent.  *)
LEMMA DepthOfChild ==
  ASSUME NEW page, IsTree(page), NEW types,
         NEW c \in 1..Len(page)
  PROVE  /\ Depth(page, c, types) \in Nat
         /\ Depth(page, c, types) = DepthUnder(page, page[c].parent, types)
<1>1. PICK n \in Nat : n = Len(page) /\ DOMAIN page = 1..n  BY TreeIsPreorder
<1>2. \A i \in 1..n : page[i].parent \in 0..(i - 1)  BY <1>1, TreeIsPreorder
<1>3. AncestorsOf(page, n)  BY <1>1, AncestorsClimb
<1>4. ASSUME NEW b \in 1..n
      PROVE  IsFiniteSet({a \in Ancestors(page, b) : page[a].type \in types})
  <2>1. IsFiniteSet(1..(b - 1))  BY FS_Interval
  <2>2. {a \in Ancestors(page, b) : page[a].type \in types}
            \subseteq 1..(b - 1)
    BY <1>3 DEF AncestorsOf
  <2>. QED BY <2>1, <2>2, FS_Subset
<1>5. \A b \in 1..n : Depth(page, b, types) \in Nat
  BY <1>4, FS_CardinalityType DEF Depth
<1>6. CASE page[c].parent = 0
  <2>1. {a \in Ancestors(page, c) : page[a].type \in types} = {}
    BY <1>1, <1>3, <1>6 DEF AncestorsOf
  <2>2. Depth(page, c, types) = 0  BY <2>1, FS_EmptySet DEF Depth
  <2>. QED BY <1>6, <2>2 DEF DepthUnder
<1>7. CASE page[c].parent # 0
  <2>1. PICK b \in 1..n : b = page[c].parent
    <3>1. page[c].parent \in 0..(c - 1)  BY <1>1, <1>2
    <3>2. page[c].parent \in 1..n  BY <1>1, <1>7, <3>1
    <3>. QED BY <3>2
  <2>2. Ancestors(page, c) = {b} \union Ancestors(page, b)
    BY <1>1, <1>3, <1>7, <2>1 DEF AncestorsOf
  <2>. DEFINE U == {a \in Ancestors(page, b) : page[a].type \in types}
              V == {a \in Ancestors(page, c) : page[a].type \in types}
  <2>3. b \notin U
    <3>1. Ancestors(page, b) \subseteq 1..(b - 1)  BY <1>3 DEF AncestorsOf
    <3>. QED BY <3>1
  <2>4. IsFiniteSet(U)  BY <1>4
  <2>5. V = IF page[b].type \in types THEN U \union {b} ELSE U  BY <2>2
  <2>. HIDE DEF U, V
  <2>6. Cardinality(V) = IF page[b].type \in types THEN Cardinality(U) + 1
                         ELSE Cardinality(U)
    BY <2>3, <2>4, <2>5, FS_AddElement
  <2>7. Depth(page, c, types) = Cardinality(V)  BY DEF Depth, V
  <2>8. Depth(page, b, types) = Cardinality(U)  BY DEF Depth, U
  <2>9. b # 0  OBVIOUS
  <2>. QED BY <1>1, <1>5, <2>1, <2>6, <2>7, <2>8, <2>9 DEF DepthUnder
<1>. QED BY <1>1, <1>5, <1>6, <1>7

(* The row that the recursion ends with a delimiter is the first one of    *)
(* its table.                                                              *)
LEMMA HeaderRowIsFirst ==
  ASSUME NEW page, IsTree(page), RowsLieInTables(page, "table_row"),
         NEW b \in 1..Len(page)
  PROVE  IsTableHeaderRow(page, b) <=> FirstRowOf(page, b)
<1>1. PICK n \in Nat : n = Len(page) /\ DOMAIN page = 1..n  BY TreeIsPreorder
<1>2. \A i \in 1..n : page[i].parent \in 0..(i - 1)  BY <1>1, TreeIsPreorder
<1>3. \A i \in 1..n : page[i].type = "table_row"
                         <=> /\ page[i].parent # 0
                             /\ page[page[i].parent].type = "table"
  BY <1>1 DEF RowsLieInTables
<1>4. TableRowIndex(page, b) = 0 <=> RowsBefore(page, b) = {}
  <2>1. IsFiniteSet(1..(b - 1))  BY FS_Interval
  <2>2. RowsBefore(page, b) \subseteq 1..(b - 1)  BY DEF RowsBefore
  <2>3. IsFiniteSet(RowsBefore(page, b))  BY <2>1, <2>2, FS_Subset
  <2>. QED BY <2>3, FS_EmptySet DEF TableRowIndex
<1>5. ASSUME IsTableHeaderRow(page, b) PROVE FirstRowOf(page, b)
  <2>1. /\ page[b].type = "table_row" /\ page[b].parent # 0
        /\ page[page[b].parent].header /\ RowsBefore(page, b) = {}
    BY <1>4, <1>5 DEF IsTableHeaderRow
  <2>2. PICK t \in 1..n : t = page[b].parent
    <3>1. page[b].parent \in 0..(b - 1)  BY <1>1, <1>2
    <3>2. page[b].parent \in 1..n  BY <1>1, <2>1, <3>1
    <3>. QED BY <3>2
  <2>3. page[t].type = "table"  BY <1>1, <1>3, <2>1, <2>2
  <2>4. ASSUME NEW s \in 1..n, page[s].parent = t PROVE b <= s
    <3>1. page[s].type = "table_row"  BY <1>3, <2>2, <2>3, <2>4
    <3>2. s \in 1..(b - 1) => s \in RowsBefore(page, b)
      BY <2>2, <2>4, <3>1 DEF RowsBefore
    <3>3. s \notin 1..(b - 1)  BY <2>1, <3>2
    <3>. QED BY <1>1, <3>3
  <2>. QED BY <1>1, <2>1, <2>2, <2>3, <2>4 DEF FirstRowOf
<1>6. ASSUME FirstRowOf(page, b) PROVE IsTableHeaderRow(page, b)
  <2>1. PICK t \in 1..n :
            /\ page[t].type = "table" /\ page[t].header
            /\ \A s \in 1..n : page[s].parent = t => b <= s
            /\ page[b].parent = t
    BY <1>1, <1>6 DEF FirstRowOf
  <2>2. t # 0  OBVIOUS
  <2>3. page[b].type = "table_row"  BY <1>1, <1>3, <2>1, <2>2
  <2>4. RowsBefore(page, b) = {}
    <3>. SUFFICES ASSUME NEW s \in RowsBefore(page, b) PROVE FALSE  OBVIOUS
    <3>1. s \in 1..(b - 1) /\ page[s].parent = t  BY <2>1 DEF RowsBefore
    <3>2. s \in 1..n /\ s < b  BY <1>1, <3>1
    <3>3. b <= s  BY <2>1, <3>1, <3>2
    <3>. QED BY <1>1, <3>2, <3>3
  <2>. QED BY <1>4, <2>1, <2>2, <2>3, <2>4 DEF IsTableHeaderRow
<1>. QED BY <1>5, <1>6

(* A block can be seen when its parent is open.                            *)
LEMMA OpenAbove ==
  ASSUME NEW page, IsTree(page), NEW c \in 1..Len(page)
  PROVE  Visible(page, c) <=> Open(page, page[c].parent)
<1>1. PICK n \in Nat : n = Len(page) /\ DOMAIN page = 1..n  BY TreeIsPreorder
<1>2. page[c].parent \in 0..(c - 1)  BY <1>1, TreeIsPreorder
<1>3. AncestorsOf(page, n)  BY <1>1, AncestorsClimb
<1>4. CASE page[c].parent = 0
  <2>1. Ancestors(page, c) = {}  BY <1>1, <1>3, <1>4 DEF AncestorsOf
  <2>. QED BY <1>4, <2>1 DEF Visible, Open
<1>5. CASE page[c].parent # 0
  <2>1. PICK b \in 1..n : b = page[c].parent
    <3>1. page[c].parent \in 1..n  BY <1>1, <1>2, <1>5
    <3>. QED BY <3>1
  <2>2. Ancestors(page, c) = {b} \union Ancestors(page, b)
    BY <1>1, <1>3, <1>5, <2>1 DEF AncestorsOf
  <2>3. b # 0  OBVIOUS
  <2>. QED BY <2>1, <2>2, <2>3 DEF Visible, Open
<1>. QED BY <1>4, <1>5

(* The expected line of a block is one of the page.                        *)
LEMMA LineIsExpected ==
  ASSUME NEW page, IsTree(page), RowsLieInTables(page, "table_row"),
         NEW b \in 1..Len(page)
  PROVE  /\ LineOfBlock(page, b)
                = LineAt(page, b, Depth(page, b, ListItems),
                         Depth(page, b, Quotes))
         /\ LineOfBlock(page, b) \in LinesOf(page)
<1>1. IsTableHeaderRow(page, b) = FirstRowOf(page, b)
  <2>1. IsTableHeaderRow(page, b) <=> FirstRowOf(page, b)  BY HeaderRowIsFirst
  <2>2. IsTableHeaderRow(page, b) \in BOOLEAN  BY DEF IsTableHeaderRow
  <2>3. FirstRowOf(page, b) \in BOOLEAN  BY DEF FirstRowOf
  <2>. QED BY <2>1, <2>2, <2>3
<1>2. LineOfBlock(page, b)
          = LineAt(page, b, Depth(page, b, ListItems), Depth(page, b, Quotes))
  BY <1>1, Zenon DEF LineOfBlock, LineAt
<1>3. PICK l \in Nat : l = Depth(page, b, ListItems)  BY DepthOfChild
<1>4. PICK q \in Nat : q = Depth(page, b, Quotes)  BY DepthOfChild
<1>5. LineAt(page, b, l, q) \in LinesOf(page)
  <2>1. <<b, l, q>> \in (1..Len(page)) \X Nat \X Nat  OBVIOUS
  <2>2. PICK x \in (1..Len(page)) \X Nat \X Nat :
            x[1] = b /\ x[2] = l /\ x[3] = q
    BY <2>1
  <2>. QED BY <2>2 DEF LinesOf
<1>. QED BY <1>2, <1>3, <1>4, <1>5

(* What hangs on b has a depth.                                            *)
LEMMA DepthUnderIsNat ==
  ASSUME NEW page, IsTree(page), NEW types, NEW b \in 0..Len(page)
  PROVE  DepthUnder(page, b, types) \in Nat
<1>1. b # 0 => b \in 1..Len(page)  BY TreeIsPreorder
<1>2. b # 0 => Depth(page, b, types) \in Nat  BY <1>1, DepthOfChild
<1>. QED BY <1>2 DEF DepthUnder

(* What the recursion writes below b are lines.                            *)
LEMMA InnerIsText ==
  ASSUME NEW page, IsTree(page), NEW C, SolvesNotion(C, page),
         NEW b \in 0..Len(page)
  PROVE  InnerOf(C, page, b) \in Seq(LinesOf(page))
<1>1. PICK l \in Nat : l = DepthUnder(page, b, ListItems)  BY DepthUnderIsNat
<1>2. PICK q \in Nat : q = DepthUnder(page, b, Quotes)  BY DepthUnderIsNat
<1>3. C[<<b, l, q>>] \in Seq(Seq(LinesOf(page)))  BY SolutionIsText
<1>4. FlattenSeq(C[<<b, l, q>>]) \in Seq(LinesOf(page))
  BY <1>3, FlattenIsSequence
<1>5. <<>> \in Seq(LinesOf(page))  BY EmptySeq
<1>. QED BY <1>1, <1>2, <1>4, <1>5 DEF InnerOf

(* A block's line comes first, then what hangs on it.                      *)
LEMMA PartIsExpected ==
  ASSUME NEW page, IsTree(page), RowsLieInTables(page, "table_row"),
         NEW C, SolvesNotion(C, page), NEW c \in 1..Len(page),
         Visible(page, c), NEW l, l = Depth(page, c, ListItems),
         NEW q, q = Depth(page, c, Quotes)
  PROVE  FlattenSeq(PartsOf(page, l, q, C)[c])
             = ExpectedPart(page, c) \o InnerOf(C, page, c)
<1>1. PICK n \in Nat : n = Len(page) /\ c \in 0..n /\ c # 0  BY TreeIsPreorder
<1>2. PICK line : line = LineOfBlock(page, c)  OBVIOUS
<1>3. line \in LinesOf(page) /\ line = LineAt(page, c, l, q)
  BY <1>2, LineIsExpected
<1>4. PICK l2 \in Nat : l2 = DepthUnder(page, c, ListItems)
  BY <1>1, DepthUnderIsNat
<1>5. PICK q2 \in Nat : q2 = DepthUnder(page, c, Quotes)
  BY <1>1, DepthUnderIsNat
<1>6. ChildListDepth(page[c].type, l) = l2
  BY <1>1, <1>4 DEF ChildListDepth, DepthUnder
<1>7. ChildQuoteDepth(page[c].type, q) = q2
  BY <1>1, <1>5 DEF ChildQuoteDepth, DepthUnder
<1>8. PICK inner \in Seq(Seq(LinesOf(page))) : inner = C[<<c, l2, q2>>]
  BY <1>1, SolutionIsText
<1>. DEFINE S == LinesOf(page)
            fmt == FormatNotionBlock(page, c, l, q)
            own == IF fmt = <<>> THEN <<>> ELSE <<fmt>>
            below == IF ~Entered(page[c].type) \/ Children(page, c) = <<>>
                     THEN <<>>
                     ELSE IF page[c].type = "table" THEN <<FlattenSeq(inner)>>
                     ELSE inner
<1>9. PartsOf(page, l, q, C)[c] = own \o below
  BY <1>6, <1>7, <1>8 DEF PartsOf, PartOf
<1>10. fmt = IF HasText(page[c].type) THEN <<line>> ELSE <<>>
  BY <1>3 DEF FormatNotionBlock, LineAt
<1>. HIDE DEF fmt, S
<1>11. own \in Seq(Seq(S)) /\ FlattenSeq(own) = ExpectedPart(page, c)
  <2>1. <<line>> \in Seq(S) /\ <<line>> # <<>>  BY <1>3 DEF S
  <2>2. CASE HasText(page[c].type)
    <3>1. PICK x \in Seq(S) : x = <<line>>  BY <2>1
    <3>2. own = <<x>>  BY <1>10, <2>1, <2>2, <3>1
    <3>3. <<x>> \in Seq(Seq(S)) /\ Len(<<x>>) = 1 /\ <<x>>[1] = x  OBVIOUS
    <3>4. FlattenSeq(<<x>>) = x  BY <3>3, FlattenOfOne
    <3>5. ExpectedPart(page, c) = x  BY <1>2, <2>2, <3>1 DEF ExpectedPart
    <3>. QED BY <3>2, <3>3, <3>4, <3>5
  <2>3. CASE ~HasText(page[c].type)
    <3>1. own = <<>>  BY <1>10, <2>3
    <3>2. <<>> \in Seq(Seq(S))  BY EmptySeq
    <3>3. ExpectedPart(page, c) = <<>>  BY <2>3 DEF ExpectedPart
    <3>. QED BY <3>1, <3>2, <3>3, FlattenNone
  <2>. QED BY <2>2, <2>3
<1>. HIDE DEF own
<1>12. below \in Seq(Seq(S)) /\ FlattenSeq(below) = InnerOf(C, page, c)
  <2>1. PICK x \in Seq(S) : x = FlattenSeq(inner)
    BY <1>8, FlattenIsSequence DEF S
  <2>2. <<x>> \in Seq(Seq(S)) /\ Len(<<x>>) = 1 /\ <<x>>[1] = x  OBVIOUS
  <2>3. FlattenSeq(<<x>>) = x  BY <2>2, FlattenOfOne
  <2>4. <<>> \in Seq(Seq(S))  BY EmptySeq
  <2>5. inner \in Seq(Seq(S))  BY <1>8 DEF S
  <2>6. Open(page, c) <=> Entered(page[c].type)  BY <1>1 DEF Open
  <2>7. InnerOf(C, page, c) = IF Entered(page[c].type) THEN x ELSE <<>>
    BY <1>4, <1>5, <1>8, <2>1, <2>6 DEF InnerOf
  <2>8. CASE ~Entered(page[c].type)  BY <2>4, <2>7, <2>8, FlattenNone
  <2>9. CASE Entered(page[c].type) /\ Children(page, c) = <<>>
    <3>1. inner = FlattenSeq(Mapped(PartsOf(page, l2, q2, C), <<>>))
      BY <1>1, <1>8, <2>9 DEF SolvesNotion
    <3>2. Mapped(PartsOf(page, l2, q2, C), <<>>) = <<>>  BY DEF Mapped
    <3>3. x = <<>>  BY <2>1, <3>1, <3>2, FlattenNone
    <3>. QED BY <2>4, <2>7, <2>9, <3>3, FlattenNone
  <2>10. CASE Entered(page[c].type) /\ Children(page, c) # <<>>
    BY <2>1, <2>2, <2>3, <2>5, <2>7, <2>10
  <2>. QED BY <2>8, <2>9, <2>10
<1>. HIDE DEF below
<1>13. FlattenSeq(own \o below) = FlattenSeq(own) \o FlattenSeq(below)
  BY <1>11, <1>12, FlattenConcat
<1>. QED BY <1>9, <1>11, <1>12, <1>13

(* So is what is expected of a block.                                      *)
LEMMA ExpectedIsText ==
  ASSUME NEW page, IsTree(page), RowsLieInTables(page, "table_row"),
         NEW b \in 1..Len(page)
  PROVE  ExpectedPart(page, b) \in Seq(LinesOf(page))
<1>1. PICK x \in LinesOf(page) : x = LineOfBlock(page, b)  BY LineIsExpected
<1>2. <<x>> \in Seq(LinesOf(page)) /\ <<>> \in Seq(LinesOf(page))  BY EmptySeq
<1>. QED BY <1>1, <1>2 DEF ExpectedPart

(* And what a child adds.                                                  *)
LEMMA AddsAreTexts ==
  ASSUME NEW page, IsTree(page), RowsLieInTables(page, "table_row"),
         NEW C, SolvesNotion(C, page)
  PROVE  /\ Adds(C, page) \in [1..Len(page) -> Seq(LinesOf(page))]
         /\ \A c \in 1..Len(page) :
                Adds(C, page)[c]
                    = ExpectedPart(page, c) \o InnerOf(C, page, c)
<1>1. ASSUME NEW c \in 1..Len(page)
      PROVE  ExpectedPart(page, c) \o InnerOf(C, page, c) \in Seq(LinesOf(page))
  <2>1. PICK x \in Seq(LinesOf(page)) : x = ExpectedPart(page, c)
    BY ExpectedIsText
  <2>2. c \in 0..Len(page)  BY TreeIsPreorder
  <2>3. PICK y \in Seq(LinesOf(page)) : y = InnerOf(C, page, c)
    BY <2>2, InnerIsText
  <2>4. x \o y \in Seq(LinesOf(page))  BY ConcatProperties
  <2>. QED BY <2>1, <2>3, <2>4
<1>. QED BY <1>1 DEF Adds

(* What is written below b is what its children add.                       *)
LEMMA InnerAdds ==
  ASSUME NEW page, IsTree(page), RowsLieInTables(page, "table_row"),
         NEW C, SolvesNotion(C, page), NEW b \in 0..Len(page),
         NEW parts \in Seq(Seq(LinesOf(page))),
         OfChildren(parts, Parents(page), Len(page), b, Adds(C, page))
  PROVE  InnerOf(C, page, b) = FlattenSeq(parts)
<1>1. PICK n \in Nat : n = Len(page) /\ DOMAIN page = 1..n  BY TreeIsPreorder
<1>2. \A c \in NodesUnder(page, b) : c \in 1..n /\ page[c].parent = b
  BY <1>1 DEF NodesUnder
<1>. DEFINE S == LinesOf(page)
            K == Adds(C, page)
            N == NodesUnder(page, b)
<1>3. K \in [1..n -> Seq(S)]
      /\ \A c \in 1..n : K[c] = ExpectedPart(page, c) \o InnerOf(C, page, c)
  BY <1>1, AddsAreTexts
<1>. HIDE DEF K, S
<1>4. CASE Open(page, b)
  <2>1. PICK l \in Nat : l = DepthUnder(page, b, ListItems)  BY DepthUnderIsNat
  <2>2. PICK q \in Nat : q = DepthUnder(page, b, Quotes)  BY DepthUnderIsNat
  <2>. DEFINE M == PartsOf(page, l, q, C)
  <2>3. \A c \in N : c \in 0..n  BY <1>2
  <2>4. TextsUnder(C, page, b)  BY <1>1, <2>3, SolutionIsText DEF TextsUnder
  <2>5. Yields(M, N, Seq(Seq(S)))  BY <2>4, BodyIsText DEF S
  <2>6. Yields(K, N, Seq(S))  BY <1>2, <1>3 DEF Yields
  <2>7. ASSUME NEW c \in N PROVE K[c] = FlattenSeq(M[c])
    <3>1. c \in 1..n /\ page[c].parent = b  BY <1>2
    <3>2. Visible(page, c)  BY <1>1, <1>4, <3>1, OpenAbove
    <3>3. l = Depth(page, c, ListItems)  BY <1>1, <2>1, <3>1, DepthOfChild
    <3>4. q = Depth(page, c, Quotes)  BY <1>1, <2>2, <3>1, DepthOfChild
    <3>5. FlattenSeq(M[c]) = ExpectedPart(page, c) \o InnerOf(C, page, c)
      BY <1>1, <3>1, <3>2, <3>3, <3>4, PartIsExpected
    <3>. QED BY <1>3, <3>1, <3>5
  <2>8. PICK s \in Seq(N) : s = Children(page, b)  BY ChildrenFollow
  <2>. HIDE DEF M, N
  <2>9. PICK ss \in Seq(Seq(Seq(S))) : IsMapped(ss, M, s)  BY <2>5, MappedIsSeq
  <2>10. PICK ts \in Seq(Seq(S)) : IsMapped(ts, K, s)  BY <2>6, MappedIsSeq
  <2>11. /\ Len(ss) = Len(s) /\ Len(ts) = Len(s)
         /\ \A j \in 1..Len(s) : ss[j] = M[s[j]] /\ ts[j] = K[s[j]]
    BY <2>9, <2>10 DEF IsMapped
  <2>12. \A j \in 1..Len(s) : s[j] \in N  BY ElementOfSeq
  <2>13. \A j \in 1..Len(ss) : ts[j] = FlattenSeq(ss[j])  BY <2>7, <2>11, <2>12
  <2>14. FlattenSeq(FlattenSeq(ss)) = FlattenSeq(ts)
    BY <2>11, <2>13, FlattenTwice
  <2>15. C[<<b, l, q>>] = FlattenSeq(ss)
    BY <2>8, <2>9 DEF SolvesNotion, IsMapped, M
  <2>16. FlattenSeq(ts) = FlattenSeq(parts)
    <3>1. FlattenSeq(Mapped(K, Children(page, b))) = FlattenSeq(parts)
      BY <1>1, <2>6, ChildrenAreMapped DEF S, K, N
    <3>. QED BY <2>8, <2>10, <3>1 DEF IsMapped
  <2>. QED BY <1>4, <2>1, <2>2, <2>14, <2>15, <2>16 DEF InnerOf
<1>5. CASE ~Open(page, b)
  <2>1. ASSUME NEW c \in N PROVE K[c] = <<>>
    <3>1. c \in 1..n /\ page[c].parent = b  BY <1>2
    <3>2. ~Visible(page, c)  BY <1>1, <1>5, <3>1, OpenAbove
    <3>3. ~Open(page, c)  BY <3>1, <3>2 DEF Open
    <3>4. ExpectedPart(page, c) = <<>>  BY <3>2 DEF ExpectedPart
    <3>5. InnerOf(C, page, c) = <<>>  BY <3>3 DEF InnerOf
    <3>6. K[c] = <<>> \o <<>>  BY <1>3, <3>1, <3>4, <3>5
    <3>7. <<>> \in Seq({})  BY EmptySeq
    <3>. QED BY <3>6, <3>7, ConcatEmptySeq
  <2>2. \A i \in 1..n : Parents(page)[i] = b <=> i \in N
    BY <1>1 DEF Parents, NodesUnder
  <2>3. Len(parts) = n
        /\ \A i \in 1..n : parts[i] = IF Parents(page)[i] = b THEN K[i]
                                      ELSE <<>>
    BY <1>1 DEF OfChildren, K
  <2>4. \A i \in 1..n : parts[i] = <<>>  BY <2>1, <2>2, <2>3
  <2>5. FlattenSeq(parts) = <<>>  BY <2>3, <2>4, FlattenOfEmpties
  <2>. QED BY <1>5, <2>5 DEF InnerOf
<1>. QED BY <1>4, <1>5

(* From the last node up, the recursion writes below each block the lines  *)
(* that are expected of the blocks below it.                               *)
LEMMA NotionBelow ==
  ASSUME NEW page, IsTree(page), RowsLieInTables(page, "table_row"),
         NEW C, SolvesNotion(C, page), NEW X, ExpectedRun(X, page)
  PROVE  \A b \in 0..Len(page) : WritesBelow(X, C, page, b)
<1>. DEFINE n == Len(page)
            S == LinesOf(page)
            p == Parents(page)
            K == Adds(C, page)
            P == {b \in 0..n : WritesBelow(X, C, page, b)}
<1>1. n \in Nat /\ Preorder(p, n)  BY TreeIsPreorder
<1>2. /\ X \in [0..n -> Seq(S)]
      /\ \A k \in 1..n : X[k] = X[k - 1] \o ExpectedPart(page, k)
  BY DEF ExpectedRun
<1>3. /\ K \in [1..n -> Seq(S)]
      /\ \A c \in 1..n : K[c] = ExpectedPart(page, c) \o InnerOf(C, page, c)
  BY AddsAreTexts
<1>4. \A c \in 1..n : p[c] \in 0..(c - 1)  BY <1>1 DEF Preorder
<1>. HIDE DEF K, p, S, n
<1>5. ASSUME NEW b \in 0..n, \A c \in 0..n : b < c => c \in P
      PROVE  b \in P
  <2>1. ASSUME NEW c \in 1..n, p[c] = b
        PROVE  X[EndOf(p, n, c)] = X[c - 1] \o K[c]
    <3>1. c \in 0..n /\ b < c  BY <1>1, <1>4, <2>1
    <3>2. WritesBelow(X, C, page, c)  BY <1>5, <3>1
    <3>3. X[EndOf(p, n, c)] = X[c] \o InnerOf(C, page, c)
      BY <3>2 DEF WritesBelow, p, n
    <3>4. PICK x \in Seq(S) : x = X[c - 1]
      <4>1. c - 1 \in 0..n  BY <1>1
      <4>. QED BY <1>2, <4>1
    <3>5. PICK y \in Seq(S) : y = ExpectedPart(page, c)
      BY ExpectedIsText DEF n, S
    <3>6. PICK z \in Seq(S) : z = InnerOf(C, page, c)
      BY <3>1, InnerIsText DEF n, S
    <3>7. X[c] = x \o y  BY <1>2, <3>4, <3>5
    <3>8. K[c] = y \o z  BY <1>3, <3>5, <3>6
    <3>9. (x \o y) \o z = x \o (y \o z)  BY ConcatAssociative, SMTT(30)
    <3>. QED BY <3>3, <3>4, <3>6, <3>7, <3>8, <3>9
  <2>2. PICK parts \in Seq(Seq(S)) : OfChildren(parts, p, n, b, K)
    <3>. DEFINE f == [i \in 1..n |-> IF p[i] = b THEN K[i] ELSE <<>>]
    <3>1. <<>> \in Seq(S)  BY EmptySeq
    <3>2. f \in [1..n -> Seq(S)]  BY <1>3, <3>1
    <3>3. \A i \in 1..n : f[i] = IF p[i] = b THEN K[i] ELSE <<>>  OBVIOUS
    <3>. HIDE DEF f
    <3>4. f \in Seq(Seq(S)) /\ Len(f) = n  BY <1>1, <3>2, IsSequence
    <3>5. OfChildren(f, p, n, b, K)  BY <3>3, <3>4 DEF OfChildren
    <3>. QED BY <3>4, <3>5
  <2>3. AllGive(X, p, n, b, parts)
    <3>1. ChildrenGive(X, K, p, n, b)  BY <2>1 DEF ChildrenGive
    <3>2. X \in [0..n -> Seq(S)]  BY <1>2
    <3>3. K \in [1..n -> Seq(S)]  BY <1>3
    <3>. QED BY <1>1, <2>2, <3>1, <3>2, <3>3, ChildrenAdd
  <2>4. InnerOf(C, page, b) = FlattenSeq(parts)
    BY <2>2, InnerAdds DEF n, S, p, K
  <2>5. WritesBelow(X, C, page, b)
    BY <2>3, <2>4 DEF AllGive, WritesBelow, p, n
  <2>. QED BY <2>5
<1>. HIDE DEF P
<1>6. \A b \in 0..n : b \in P  BY <1>1, <1>5, DownwardInduction
<1>. QED BY <1>6 DEF P, n

(* Every page whose rows lie in tables is rendered completely.             *)
LEMMA NotionRenderingIsComplete ==
  ASSUME NEW page, IsTree(page), RowsLieInTables(page, "table_row")
  PROVE  NotionTextIsComplete(page, FetchNotionBlockContents(page))
<1>1. PICK n \in Nat : n = Len(page) /\ DOMAIN page = 1..n  BY TreeIsPreorder
<1>2. PICK C : /\ SolvesNotion(C, page)
               /\ FetchNotionBlockContents(page) = C[<<0, 0, 0>>]
  BY NotionSolves
<1>. DEFINE S == LinesOf(page)
            want == [b \in 1..n |-> ExpectedPart(page, b)]
<1>3. want \in Seq(Seq(S)) /\ Len(want) = n
      /\ \A b \in 1..n : want[b] = ExpectedPart(page, b)
  <2>1. want \in [1..n -> Seq(S)]  BY <1>1, ExpectedIsText
  <2>2. \A b \in 1..n : want[b] = ExpectedPart(page, b)  OBVIOUS
  <2>. HIDE DEF want
  <2>. QED BY <2>1, <2>2, IsSequence
<1>4. NotionTextIsComplete(page, FetchNotionBlockContents(page))
          <=> FlattenSeq(FetchNotionBlockContents(page)) = FlattenSeq(want)
  BY <1>1 DEF NotionTextIsComplete, ExpectedPart, LineOfBlock, FirstRowOf,
              Visible
<1>. HIDE DEF want, S
<1>5. PICK X : FlattenRun(X, want, S)  BY <1>3, FlattenRuns
<1>6. /\ X \in [0..n -> Seq(S)] /\ X[0] = <<>>
      /\ \A k \in 1..n : X[k] = X[k - 1] \o want[k]
      /\ FlattenSeq(want) = X[n]
  BY <1>3, <1>5 DEF FlattenRun
<1>7. ExpectedRun(X, page)  BY <1>1, <1>3, <1>6 DEF ExpectedRun, S
<1>8. WritesBelow(X, C, page, 0)  BY <1>1, <1>2, <1>7, NotionBelow
<1>9. EndOf(Parents(page), n, 0) = n  BY <1>1, TreeIsPreorder, EndOfPage
<1>10. PICK z \in Seq(S) : z = InnerOf(C, page, 0)
  <2>1. 0 \in 0..n  OBVIOUS
  <2>. QED BY <1>1, <1>2, <2>1, InnerIsText DEF S
<1>11. z = FlattenSeq(C[<<0, 0, 0>>])  BY <1>10 DEF InnerOf, Open, DepthUnder
<1>12. X[n] = z
  <2>1. X[n] = X[0] \o z  BY <1>1, <1>8, <1>9, <1>10 DEF WritesBelow
  <2>2. <<>> \o z = z  BY ConcatEmptySeq
  <2>. QED BY <1>6, <2>1, <2>2
<1>. QED BY <1>2, <1>4, <1>6, <1>11, <1>12

-----------------------------------------------------------------------------
(* Confluence: texts, and what is left of them without their marks.        *)

(* A mark is no node but is a token.                                       *)
LEMMA MarksAreInts == Marks \subseteq Int /\ NewLine \in Marks
  /\ Indented \in Marks /\ CellEnd \in Marks /\ Delimiter \in Marks
BY DEF Marks, NewLine, Indented, CellEnd, Delimiter

(* Texts that agree but for dropped tokens, place by place.                *)
LEMMA WithoutPlaces ==
  ASSUME NEW S, NEW s \in Seq(S), NEW t \in Seq(S), NEW D,
         Len(s) = Len(t),
         \A i \in 1..Len(s) : /\ s[i] \in D <=> t[i] \in D
                              /\ s[i] \notin D => s[i] = t[i]
  PROVE  Without(s, D) = Without(t, D)
<1>1. PICK n \in Nat : n = Len(s) /\ DOMAIN s = 1..n  BY LenProperties
<1>2. n = Len(t) /\ DOMAIN t = 1..n  BY <1>1, LenProperties
<1>3. \A i \in 1..n : (IF s[i] \in D THEN <<>> ELSE <<s[i]>>)
                          = (IF t[i] \in D THEN <<>> ELSE <<t[i]>>)
  BY <1>1
<1>4. [i \in 1..n |-> IF s[i] \in D THEN <<>> ELSE <<s[i]>>]
          = [i \in 1..n |-> IF t[i] \in D THEN <<>> ELSE <<t[i]>>]
  BY <1>3
<1>. QED BY <1>1, <1>2, <1>4 DEF Without

(* A quote is indented, and keeps its tokens.                              *)
LEMMA IndentKeeps ==
  ASSUME NEW t \in Seq(Int)
  PROVE  Indent(t) \in Seq(Int) /\ Without(Indent(t), Marks) = Without(t, Marks)
<1>1. PICK n \in Nat : n = Len(t) /\ DOMAIN t = 1..n  BY LenProperties
<1>2. \A i \in 1..n : t[i] \in Int  BY <1>1, ElementOfSeq
<1>3. PICK u : u = Indent(t)  OBVIOUS
<1>4. /\ u \in [1..n -> Int]
      /\ \A i \in 1..n : u[i] = IF t[i] = NewLine THEN Indented ELSE t[i]
  BY <1>1, <1>2, <1>3, MarksAreInts DEF Indent
<1>5. u \in Seq(Int) /\ Len(u) = n  BY <1>4, IsSequence
<1>6. \A i \in 1..n : /\ u[i] \in Marks <=> t[i] \in Marks
                      /\ u[i] \notin Marks => u[i] = t[i]
  BY <1>4, MarksAreInts
<1>7. Without(u, Marks) = Without(t, Marks)  BY <1>1, <1>5, <1>6, WithoutPlaces
<1>. QED BY <1>3, <1>5, <1>7

(* One token, filtered.                                                    *)
LEMMA WithoutOne ==
  ASSUME NEW S, NEW s \in Seq(S), NEW D, Len(s) = 1
  PROVE  Without(s, D) = IF s[1] \in D THEN <<>> ELSE <<s[1]>>
<1>1. PICK parts \in Seq(Seq(S)) : Filtering(parts, s, D)  BY WithoutParts
<1>2. /\ Without(s, D) = FlattenSeq(parts) /\ Len(parts) = 1
      /\ parts[1] = IF s[1] \in D THEN <<>> ELSE <<s[1]>>
  BY <1>1 DEF Filtering
<1>3. FlattenSeq(parts) = parts[1]  BY <1>2, FlattenOfOne
<1>. QED BY <1>2, <1>3

(* No token, filtered.                                                     *)
LEMMA WithoutNone ==
  ASSUME NEW D
  PROVE  Without(<<>>, D) = <<>>
<1>1. <<>> \in Seq({}) /\ Len(<<>>) = 0  BY EmptySeq
<1>2. \A i \in 1..Len(<<>>) : <<>>[i] \in D  BY <1>1
<1>. QED BY <1>1, <1>2, WithoutAll

(* What is dropped first need not be dropped again.                        *)
LEMMA WithoutTwice ==
  ASSUME NEW S, NEW s \in Seq(S), NEW E, NEW D \in SUBSET E
  PROVE  Without(Without(s, D), E) = Without(s, E)
<1>1. PICK n \in Nat : n = Len(s)  BY LenProperties
<1>2. PICK ss \in Seq(Seq(S)) : Filtering(ss, s, D)  BY WithoutParts
<1>3. PICK ts \in Seq(Seq(S)) : Filtering(ts, s, E)  BY WithoutParts
<1>4. /\ Len(ss) = n /\ Len(ts) = n
      /\ \A i \in 1..n : /\ ss[i] = IF s[i] \in D THEN <<>> ELSE <<s[i]>>
                         /\ ts[i] = IF s[i] \in E THEN <<>> ELSE <<s[i]>>
  BY <1>1, <1>2, <1>3 DEF Filtering
<1>5. ASSUME NEW i \in 1..n PROVE ts[i] = Without(ss[i], E)
  <2>1. CASE s[i] \in D
    <3>1. ss[i] = <<>> /\ ts[i] = <<>>  BY <1>4, <2>1
    <3>. QED BY <3>1, WithoutNone
  <2>2. CASE s[i] \notin D
    <3>1. s[i] \in S  BY <1>1, ElementOfSeq
    <3>2. <<s[i]>> \in Seq(S) /\ Len(<<s[i]>>) = 1 /\ <<s[i]>>[1] = s[i]
      BY <3>1
    <3>3. Without(<<s[i]>>, E) = IF s[i] \in E THEN <<>> ELSE <<s[i]>>
      BY <3>2, WithoutOne
    <3>. QED BY <1>4, <2>2, <3>3
  <2>. QED BY <2>1, <2>2
<1>6. Filtered(ts, ss, E)  BY <1>4, <1>5 DEF Filtered
<1>7. Without(FlattenSeq(ss), E) = FlattenSeq(ts)  BY <1>6, WithoutChain
<1>. QED BY <1>2, <1>3, <1>7 DEF Filtering

(* A cell is put on one line, and keeps its tokens.                        *)
LEMMA OnOneLineKeeps ==
  ASSUME NEW t \in Seq(Int)
  PROVE  /\ OnOneLine(t) \in Seq(Int)
         /\ Without(OnOneLine(t), Marks) = Without(t, Marks)
<1>1. {NewLine, Indented} \in SUBSET Marks  BY MarksAreInts
<1>2. Without(Without(t, {NewLine, Indented}), Marks) = Without(t, Marks)
  BY <1>1, WithoutTwice
<1>. QED BY <1>2, WithoutIsSeq DEF OnOneLine

(* Trimming cuts line ends off, and nothing else.                          *)
LEMMA TrimIsPiece ==
  ASSUME NEW t \in Seq(Int)
  PROVE  \E lo \in 1..(Len(t) + 1), hi \in 0..Len(t) :
             lo <= hi + 1 /\ PieceOf(TrimText(t), t, lo, hi)
<1>1. PICK n \in Nat : n = Len(t) /\ DOMAIN t = 1..n  BY LenProperties
<1>. DEFINE kept == {i \in 1..n : t[i] # NewLine}
            low == {n - i : i \in kept}
<1>2. CASE kept = {}
  <2>1. TrimText(t) = <<>>  BY <1>1, <1>2 DEF TrimText
  <2>2. SubSeq(t, 1, 0) = <<>>  OBVIOUS
  <2>3. \A i \in 1..n : t[i] = NewLine  BY <1>2
  <2>4. PieceOf(TrimText(t), t, 1, 0)  BY <1>1, <2>1, <2>2, <2>3 DEF PieceOf
  <2>5. 1 \in 1..(n + 1) /\ 0 \in 0..n /\ 1 <= 0 + 1  OBVIOUS
  <2>. QED BY <1>1, <2>4, <2>5
<1>3. CASE kept # {}
  <2>1. \E h \in kept : \A j \in kept : h >= j
    <3>1. kept \in SUBSET (0..n)  OBVIOUS
    <3>. HIDE DEF kept
    <3>2. Max(kept) \in kept /\ \A x \in kept : x <= Max(kept)
      BY <1>1, <1>3, <3>1, GreatestUpTo
    <3>. QED BY <3>1, <3>2
  <2>2. \E l \in kept : \A j \in kept : l <= j
    <3>1. low \in SUBSET (0..n) /\ low # {}  BY <1>3
    <3>2. PICK m \in low : \A x \in low : x <= m
      <4>. HIDE DEF low
      <4>. QED BY <1>1, <3>1, GreatestUpTo
    <3>3. PICK l \in kept : m = n - l  OBVIOUS
    <3>4. \A j \in kept : n - j \in low  OBVIOUS
    <3>5. \A j \in kept : n - j <= n - l  BY <3>2, <3>3, <3>4
    <3>6. \A j \in kept : j \in Int  OBVIOUS
    <3>. QED BY <3>5, <3>6
  <2>3. PICK lo : lo = CHOOSE i \in kept : \A j \in kept : i <= j  OBVIOUS
  <2>4. PICK hi : hi = CHOOSE i \in kept : \A j \in kept : i >= j  OBVIOUS
  <2>5. TrimText(t) = SubSeq(t, lo, hi)  BY <1>1, <1>3, <2>3, <2>4 DEF TrimText
  <2>. HIDE DEF kept
  <2>6. lo \in kept /\ \A j \in kept : lo <= j  BY <2>2, <2>3
  <2>7. hi \in kept /\ \A j \in kept : hi >= j  BY <2>1, <2>4
  <2>8. lo \in 1..n /\ hi \in 1..n /\ lo <= hi  BY <2>6, <2>7 DEF kept
  <2>9. \A i \in 1..(lo - 1) : t[i] = NewLine
    <3>. SUFFICES ASSUME NEW i \in 1..(lo - 1), t[i] # NewLine PROVE FALSE
      OBVIOUS
    <3>1. i \in kept  BY <2>8 DEF kept
    <3>. QED BY <2>6, <2>8, <3>1
  <2>10. \A i \in (hi + 1)..n : t[i] = NewLine
    <3>. SUFFICES ASSUME NEW i \in (hi + 1)..n, t[i] # NewLine PROVE FALSE
      OBVIOUS
    <3>1. i \in kept  BY <2>8 DEF kept
    <3>. QED BY <2>7, <2>8, <3>1
  <2>11. PieceOf(TrimText(t), t, lo, hi)
    BY <1>1, <2>5, <2>9, <2>10 DEF PieceOf
  <2>12. lo \in 1..(n + 1) /\ hi \in 0..n /\ lo <= hi + 1  BY <2>8
  <2>. QED BY <1>1, <2>11, <2>12
<1>. QED BY <1>2, <1>3

(* The chain of two texts, without marks.                                  *)
LEMMA WithoutMarks ==
  ASSUME NEW x \in Seq(Int), NEW y \in Seq(Int)
  PROVE  /\ x \o y \in Seq(Int)
         /\ Without(x \o y, Marks) = Without(x, Marks) \o Without(y, Marks)
<1>1. PICK T : T = Int  OBVIOUS
<1>2. \A u, v \in Seq(T) :
          Without(u \o v, Marks) = Without(u, Marks) \o Without(v, Marks)
  BY WithoutConcat
<1>3. \A u, v \in Seq(T) : u \o v \in Seq(T)  BY ConcatProperties
<1>. QED BY <1>1, <1>2, <1>3, Zenon

(* So it keeps the tokens.                                                 *)
LEMMA TrimKeeps ==
  ASSUME NEW t \in Seq(Int)
  PROVE  /\ TrimText(t) \in Seq(Int)
         /\ Without(TrimText(t), Marks) = Without(t, Marks)
<1>1. PICK n \in Nat : n = Len(t) /\ DOMAIN t = 1..n  BY LenProperties
<1>2. PICK lo \in 1..(n + 1), hi \in 0..n :
          lo <= hi + 1 /\ PieceOf(TrimText(t), t, lo, hi)
  BY <1>1, TrimIsPiece
<1>3. /\ \A i \in 1..(lo - 1) : t[i] = NewLine
      /\ \A i \in (hi + 1)..n : t[i] = NewLine
      /\ TrimText(t) = SubSeq(t, lo, hi)
  BY <1>1, <1>2 DEF PieceOf
<1>4. PICK a : a = SubSeq(t, 1, lo - 1)  OBVIOUS
<1>5. PICK b : b = SubSeq(t, lo, hi)  OBVIOUS
<1>6. PICK c : c = SubSeq(t, hi + 1, n)  OBVIOUS
<1>7. /\ a \in Seq(Int) /\ Len(a) = lo - 1
      /\ \A i \in 1..(lo - 1) : a[i] = t[i]
  <2>1. 1 \in Nat \ {0} /\ lo - 1 \in Int /\ lo - 1 <= Len(t)  BY <1>1
  <2>2. a \in Seq(Int) /\ Len(a) = IF 1 <= lo - 1 THEN lo - 1 - 1 + 1 ELSE 0
    BY <1>4, <2>1, SubSeqIsSequence
  <2>. QED BY <1>4, <2>2
<1>8. /\ b \in Seq(Int) /\ Len(b) = hi - lo + 1
      /\ \A i \in 1..(hi - lo + 1) : b[i] = t[i + lo - 1]
  <2>1. lo \in Nat \ {0} /\ hi \in Int /\ hi <= Len(t)  BY <1>1
  <2>2. b \in Seq(Int) /\ Len(b) = IF lo <= hi THEN hi - lo + 1 ELSE 0
    BY <1>5, <2>1, SubSeqIsSequence
  <2>. QED BY <1>2, <1>5, <2>2
<1>9. /\ c \in Seq(Int) /\ Len(c) = n - hi
      /\ \A i \in 1..(n - hi) : c[i] = t[i + hi]
  <2>1. hi + 1 \in Nat \ {0} /\ n \in Int /\ n <= Len(t)  BY <1>1
  <2>2. c \in Seq(Int)
        /\ Len(c) = IF hi + 1 <= n THEN n - (hi + 1) + 1 ELSE 0
    BY <1>6, <2>1, SubSeqIsSequence
  <2>. QED BY <1>2, <1>6, <2>2
<1>10. Without(a, Marks) = <<>>  BY <1>3, <1>7, MarksAreInts, WithoutAll
<1>11. Without(c, Marks) = <<>>
  <2>1. ASSUME NEW i \in 1..(n - hi) PROVE c[i] = NewLine
    <3>1. i + hi \in (hi + 1)..n  OBVIOUS
    <3>. QED BY <1>3, <1>9, <3>1
  <2>. QED BY <1>9, <2>1, MarksAreInts, WithoutAll
<1>12. PICK ab \in Seq(Int) : ab = a \o b  BY <1>7, <1>8, ConcatProperties
<1>13. PICK abc \in Seq(Int) : abc = ab \o c  BY <1>9, ConcatProperties
<1>14. /\ Len(ab) = hi
       /\ \A i \in 1..hi : ab[i] = IF i <= lo - 1 THEN a[i]
                                   ELSE b[i - (lo - 1)]
  <2>1. Chained(ab, a, b)  BY <1>7, <1>8, <1>12, ConcatIsChained
  <2>2. (lo - 1) + (hi - lo + 1) = hi  OBVIOUS
  <2>. QED BY <1>7, <1>8, <2>1, <2>2 DEF Chained
<1>15. ASSUME NEW i \in 1..hi PROVE ab[i] = t[i]
  <2>1. CASE i <= lo - 1
    <3>1. i \in 1..(lo - 1)  BY <2>1
    <3>. QED BY <1>7, <1>14, <2>1, <3>1
  <2>2. CASE ~(i <= lo - 1)
    <3>1. i - (lo - 1) \in 1..(hi - lo + 1)  BY <2>2
    <3>2. PICK k \in 1..(hi - lo + 1) : k = i - (lo - 1)  BY <3>1
    <3>3. b[k] = t[k + lo - 1]  BY <1>8
    <3>4. k + lo - 1 = i  BY <3>2
    <3>. QED BY <1>14, <2>2, <3>2, <3>3, <3>4
  <2>. QED BY <2>1, <2>2
<1>16. /\ Len(abc) = n
       /\ \A i \in 1..n : abc[i] = IF i <= hi THEN ab[i] ELSE c[i - hi]
  <2>1. Chained(abc, ab, c)  BY <1>9, <1>13, ConcatIsChained
  <2>2. hi + (n - hi) = n  OBVIOUS
  <2>. QED BY <1>9, <1>14, <2>1, <2>2 DEF Chained
<1>17. \A i \in 1..n : abc[i] = t[i]
  <2>1. ASSUME NEW i \in 1..n PROVE abc[i] = t[i]
    <3>1. CASE i <= hi  BY <1>15, <1>16, <3>1
    <3>2. CASE ~(i <= hi)
      <4>1. i - hi \in 1..(n - hi)  BY <3>2
      <4>2. c[i - hi] = t[(i - hi) + hi]  BY <1>9, <4>1
      <4>3. (i - hi) + hi = i  OBVIOUS
      <4>. QED BY <1>16, <3>2, <4>2, <4>3
    <3>. QED BY <3>1, <3>2
  <2>. QED BY <2>1
<1>18. abc = t  BY <1>1, <1>16, <1>17, SeqEqual
<1>19. Without(ab, Marks) = <<>> \o Without(b, Marks)
  <2>1. Without(a \o b, Marks) = Without(a, Marks) \o Without(b, Marks)
    BY <1>7, <1>8, WithoutMarks, Zenon
  <2>. QED BY <1>10, <1>12, <2>1
<1>20. PICK w \in Seq(Int) : w = Without(b, Marks)  BY <1>8, WithoutIsSeq
<1>21. Without(abc, Marks) = (<<>> \o w) \o <<>>
  <2>1. Without(ab \o c, Marks) = Without(ab, Marks) \o Without(c, Marks)
    BY <1>9, WithoutMarks, Zenon
  <2>. QED BY <1>11, <1>13, <1>19, <1>20, <2>1
<1>22. (<<>> \o w) \o <<>> = w  BY ConcatEmptySeq
<1>. QED BY <1>3, <1>5, <1>8, <1>18, <1>20, <1>21, <1>22

(* What a text adds that holds marks only.                                 *)
LEMMA MarksAdd ==
  ASSUME NEW x \in Seq(Int), NEW y \in Seq(Marks)
  PROVE  /\ x \o y \in Seq(Int) /\ y \in Seq(Int)
         /\ Without(x \o y, Marks) = Without(x, Marks)
         /\ Without(y \o x, Marks) = Without(x, Marks)
         /\ y \o x \in Seq(Int)
<1>1. y \in Seq(Int)  BY MarksAreInts, SeqMonotonic
<1>2. \A i \in 1..Len(y) : y[i] \in Marks  BY ElementOfSeq
<1>3. Without(y, Marks) = <<>>  BY <1>1, <1>2, WithoutAll
<1>4. PICK w \in Seq(Int) : w = Without(x, Marks)  BY WithoutIsSeq
<1>5. w \o <<>> = w /\ <<>> \o w = w  BY ConcatEmptySeq
<1>6. x \o y \in Seq(Int) /\ Without(x \o y, Marks) = w \o <<>>
  <2>1. /\ x \o y \in Seq(Int)
        /\ Without(x \o y, Marks) = Without(x, Marks) \o Without(y, Marks)
    BY <1>1, WithoutMarks, Zenon
  <2>. QED BY <1>3, <1>4, <2>1
<1>7. y \o x \in Seq(Int) /\ Without(y \o x, Marks) = <<>> \o w
  <2>1. /\ y \o x \in Seq(Int)
        /\ Without(y \o x, Marks) = Without(y, Marks) \o Without(x, Marks)
    BY <1>1, WithoutMarks, Zenon
  <2>. QED BY <1>3, <1>4, <2>1
<1>. QED BY <1>1, <1>4, <1>5, <1>6, <1>7

(* The texts of the children one after the other keep their tokens.        *)
LEMMA ChainKeeps ==
  ASSUME NEW texts \in Seq(Seq(Int)), NEW ws \in Seq(Seq(Int)),
         Filtered(ws, texts, Marks)
  PROVE  /\ FlattenSeq(texts) \in Seq(Int)
         /\ Without(FlattenSeq(texts), Marks) = FlattenSeq(ws)
BY FlattenIsSequence, WithoutChain

(* So they do with a mark between each two.                                *)
LEMMA JoinKeeps ==
  ASSUME NEW texts \in Seq(Seq(Int)), NEW mark \in Marks,
         NEW ws \in Seq(Seq(Int)), Filtered(ws, texts, Marks)
  PROVE  /\ JoinTexts(texts, mark) \in Seq(Int)
         /\ Without(JoinTexts(texts, mark), Marks) = FlattenSeq(ws)
<1>1. PICK n \in Nat : n = Len(texts) /\ DOMAIN texts = 1..n  BY LenProperties
<1>2. <<mark>> \in Seq(Marks)  OBVIOUS
<1>3. PICK m \in Seq(Marks) : m = <<mark>>  BY <1>2
<1>4. ASSUME NEW i \in 1..n
      PROVE  /\ texts[i] \in Seq(Int) /\ m \o texts[i] \in Seq(Int)
             /\ Without(m \o texts[i], Marks) = Without(texts[i], Marks)
  <2>1. texts[i] \in Seq(Int)  BY <1>1, ElementOfSeq
  <2>. QED BY <2>1, MarksAdd
<1>5. PICK f : f = [i \in 1..n |-> IF i = 1 THEN texts[i] ELSE m \o texts[i]]
  OBVIOUS
<1>6. f \in [1..n -> Seq(Int)]  BY <1>4, <1>5
<1>7. f \in Seq(Seq(Int)) /\ Len(f) = n  BY <1>6, IsSequence
<1>8. Len(ws) = n /\ \A i \in 1..n : ws[i] = Without(texts[i], Marks)
  BY <1>1 DEF Filtered
<1>9. \A i \in 1..n : ws[i] = Without(f[i], Marks)
  <2>1. \A i \in 1..n : f[i] = IF i = 1 THEN texts[i] ELSE m \o texts[i]
    BY <1>5
  <2>. QED BY <1>4, <1>8, <2>1
<1>10. Filtered(ws, f, Marks)  BY <1>7, <1>8, <1>9 DEF Filtered
<1>11. JoinTexts(texts, mark) = FlattenSeq(f)
  BY <1>1, <1>3, <1>5 DEF JoinTexts
<1>12. FlattenSeq(f) \in Seq(Int) /\ Without(FlattenSeq(f), Marks) = FlattenSeq(ws)
  BY <1>7, <1>10, ChainKeeps
<1>. QED BY <1>11, <1>12

(* Trimmed and indented, a text keeps its tokens; so on one line.          *)
LEMMA ItemsKeep ==
  ASSUME NEW texts \in Seq(Seq(Int)), NEW ws \in Seq(Seq(Int)),
         Filtered(ws, texts, Marks)
  PROVE  /\ RenderAtlassianList(texts) \in Seq(Int)
         /\ Without(RenderAtlassianList(texts), Marks) = FlattenSeq(ws)
<1>1. PICK n \in Nat : n = Len(texts) /\ DOMAIN texts = 1..n  BY LenProperties
<1>2. ASSUME NEW i \in 1..n
      PROVE  /\ Indent(TrimText(texts[i])) \in Seq(Int)
             /\ Without(Indent(TrimText(texts[i])), Marks)
                    = Without(texts[i], Marks)
  <2>1. texts[i] \in Seq(Int)  BY <1>1, ElementOfSeq
  <2>2. PICK t \in Seq(Int) :
            t = TrimText(texts[i])
            /\ Without(t, Marks) = Without(texts[i], Marks)
    BY <2>1, TrimKeeps
  <2>3. Indent(t) \in Seq(Int) /\ Without(Indent(t), Marks) = Without(t, Marks)
    BY IndentKeeps
  <2>. QED BY <2>2, <2>3
<1>3. PICK f : f = [i \in 1..n |-> Indent(TrimText(texts[i]))]  OBVIOUS
<1>4. f \in [1..n -> Seq(Int)]  BY <1>2, <1>3
<1>5. f \in Seq(Seq(Int)) /\ Len(f) = n  BY <1>4, IsSequence
<1>6. Len(ws) = n /\ \A i \in 1..n : ws[i] = Without(texts[i], Marks)
  BY <1>1 DEF Filtered
<1>7. \A i \in 1..n : f[i] = Indent(TrimText(texts[i]))  BY <1>3
<1>8. Filtered(ws, f, Marks)  BY <1>2, <1>5, <1>6, <1>7 DEF Filtered
<1>9. RenderAtlassianList(texts) = JoinTexts(f, NewLine)
  BY <1>1, <1>3 DEF RenderAtlassianList
<1>. QED BY <1>5, <1>8, <1>9, MarksAreInts, JoinKeeps

(* A chain ends a line when its last part does.                            *)
LEMMA MarksEndLine ==
  ASSUME NEW x \in Seq(Int), NEW y \in Seq(Int), EndsLine(y)
  PROVE  EndsLine(x \o y)
<1>1. PICK n \in Nat : n = Len(x)  BY LenProperties
<1>2. PICK m \in Nat : m = Len(y)  BY LenProperties
<1>3. PICK z \in Seq(Int) : z = x \o y  BY ConcatProperties
<1>4. Len(z) = n + m
      /\ \A i \in 1..(n + m) : z[i] = IF i <= n THEN x[i] ELSE y[i - n]
  <2>1. Chained(z, x, y)  BY <1>3, ConcatIsChained
  <2>. QED BY <1>1, <1>2, <2>1 DEF Chained
<1>5. m # 0 /\ y[m] = NewLine  BY <1>2 DEF EndsLine
<1>6. n + m \in 1..(n + m) /\ ~(n + m <= n) /\ (n + m) - n = m  BY <1>5
<1>7. z[n + m] = NewLine  BY <1>4, <1>5, <1>6
<1>8. Len(z) # 0  BY <1>4, <1>5
<1>. QED BY <1>3, <1>4, <1>7, <1>8 DEF EndsLine

(* A row keeps the tokens of its cells and ends its line, header or not.   *)
LEMMA RowKeeps ==
  ASSUME NEW page, NEW row, NEW texts \in Seq(Seq(Int)),
         NEW ws \in Seq(Seq(Int)), Filtered(ws, texts, Marks)
  PROVE  /\ RenderAtlassianTableRow(page, row, texts) \in Seq(Int)
         /\ EndsLine(RenderAtlassianTableRow(page, row, texts))
         /\ Without(RenderAtlassianTableRow(page, row, texts), Marks)
                = FlattenSeq(ws)
<1>1. PICK n \in Nat : n = Len(texts) /\ DOMAIN texts = 1..n  BY LenProperties
<1>2. ASSUME NEW i \in 1..n
      PROVE  /\ OnOneLine(TrimText(texts[i])) \in Seq(Int)
             /\ Without(OnOneLine(TrimText(texts[i])), Marks)
                    = Without(texts[i], Marks)
  <2>1. texts[i] \in Seq(Int)  BY <1>1, ElementOfSeq
  <2>2. PICK t \in Seq(Int) :
            t = TrimText(texts[i])
            /\ Without(t, Marks) = Without(texts[i], Marks)
    BY <2>1, TrimKeeps
  <2>3. OnOneLine(t) \in Seq(Int)
        /\ Without(OnOneLine(t), Marks) = Without(t, Marks)
    BY OnOneLineKeeps
  <2>. QED BY <2>2, <2>3
<1>3. PICK f : f = [i \in 1..n |-> OnOneLine(TrimText(texts[i]))]  OBVIOUS
<1>4. f \in [1..n -> Seq(Int)]  BY <1>2, <1>3
<1>5. f \in Seq(Seq(Int)) /\ Len(f) = n  BY <1>4, IsSequence
<1>6. Len(ws) = n /\ \A i \in 1..n : ws[i] = Without(texts[i], Marks)
  BY <1>1 DEF Filtered
<1>7. \A i \in 1..n : f[i] = OnOneLine(TrimText(texts[i]))  BY <1>3
<1>8. Filtered(ws, f, Marks)  BY <1>2, <1>5, <1>6, <1>7 DEF Filtered
<1>9. PICK cells \in Seq(Int) : /\ cells = JoinTexts(f, CellEnd)
                                /\ Without(cells, Marks) = FlattenSeq(ws)
  BY <1>5, <1>8, MarksAreInts, JoinKeeps
<1>. DEFINE header == \A c \in DOMAIN page :
                          page[c].parent = row => page[c].type = "tableHeader"
<1>10. PICK delims \in Seq(Marks) :
           /\ delims = IF header THEN <<Delimiter, NewLine>> ELSE <<>>
           /\ delims = <<>> \/ EndsLine(delims)
  <2>1. <<Delimiter, NewLine>> \in Seq(Marks) /\ <<>> \in Seq(Marks)
    BY MarksAreInts, EmptySeq
  <2>2. EndsLine(<<Delimiter, NewLine>>)  BY DEF EndsLine
  <2>. QED BY <2>1, <2>2
<1>11. PICK nl \in Seq(Marks) : nl = <<NewLine>>
  <2>1. NewLine \in Marks  BY MarksAreInts
  <2>2. <<NewLine>> \in Seq(Marks)  BY <2>1
  <2>. QED BY <2>2
<1>12. EndsLine(nl)  BY <1>11 DEF EndsLine
<1>13. PICK line \in Seq(Int) : /\ line = cells \o nl
                                /\ Without(line, Marks) = FlattenSeq(ws)
                                /\ EndsLine(line)
  BY <1>9, <1>12, MarksAdd, MarksEndLine
<1>14. PICK all \in Seq(Int) : /\ all = line \o delims
                               /\ Without(all, Marks) = FlattenSeq(ws)
  <2>1. /\ line \o delims \in Seq(Int)
        /\ Without(line \o delims, Marks) = Without(line, Marks)
    BY MarksAdd, Zenon
  <2>. QED BY <1>13, <2>1
<1>15. EndsLine(all)
  <2>1. CASE delims = <<>>
    <3>1. line \o <<>> = line  BY ConcatEmptySeq
    <3>. QED BY <1>13, <1>14, <2>1, <3>1
  <2>2. CASE EndsLine(delims)
    <3>1. delims \in Seq(Int)  BY <1>13, MarksAdd
    <3>. QED BY <1>14, <2>2, <3>1, MarksEndLine
  <2>. QED BY <1>10, <2>1, <2>2
<1>16. RenderAtlassianTableRow(page, row, texts) = all
  <2>1. RenderAtlassianTableRow(page, row, texts)
            = JoinTexts(f, CellEnd) \o <<NewLine>>
                  \o (IF header THEN <<Delimiter, NewLine>> ELSE <<>>)
    BY <1>1, <1>3 DEF RenderAtlassianTableRow
  <2>. HIDE DEF header
  <2>. QED BY <1>9, <1>10, <1>11, <1>13, <1>14, <2>1
<1>. QED BY <1>14, <1>15, <1>16

(* What is written after a node of each type.                              *)
LEMMA BlockEndIs ==
  ASSUME NEW type
  PROVE  /\ BlockEnd(type) \in Seq(Marks)
         /\ BlockEnd(type)
              = IF type \in Blocks \ {"table"} THEN <<NewLine, NewLine>>
                ELSE IF type = "table" THEN <<NewLine>> ELSE <<>>
<1>1. BlockEnd(type)
          = IF type \in Blocks \ {"table"} THEN <<NewLine, NewLine>>
            ELSE IF type = "table" THEN <<NewLine>> ELSE <<>>
  BY DEF BlockEnd, Blocks, Paragraphs, Lists
<1>2. NewLine \in Marks  BY MarksAreInts
<1>3. /\ <<NewLine, NewLine>> \in Seq(Marks) /\ <<NewLine>> \in Seq(Marks)
      /\ <<>> \in Seq(Marks)
  BY <1>2, EmptySeq
<1>. QED BY <1>1, <1>3

(* The cases of renderAtlassianNode.                                       *)
LEMMA OwnTextIs ==
  ASSUME NEW page, NEW n, NEW texts
  PROVE  OwnText(page, n, texts)
             = IF TypeOf(page, n) \in Leaves THEN <<n>>
               ELSE IF TypeOf(page, n) = "hardBreak" THEN <<NewLine>>
               ELSE IF TypeOf(page, n) \in Lists THEN RenderAtlassianList(texts)
               ELSE IF TypeOf(page, n) = "blockquote"
               THEN Indent(TrimText(FlattenSeq(texts)))
               ELSE IF TypeOf(page, n) = "tableRow"
               THEN RenderAtlassianTableRow(page, n, texts)
               ELSE FlattenSeq(texts)
BY DEF OwnText, Leaves, Lists

(* In each of them a node keeps the tokens of its children, or its own.    *)
LEMMA OwnKeeps ==
  ASSUME NEW page, NEW n \in Nat, NEW texts \in Seq(Seq(Int)),
         NEW ws \in Seq(Seq(Int)), Filtered(ws, texts, Marks)
  PROVE  /\ OwnText(page, n, texts) \in Seq(Int)
         /\ Without(OwnText(page, n, texts), Marks) = NodeTokens(page, n, ws)
<1>1. PICK type : type = TypeOf(page, n)  OBVIOUS
<1>2. PICK own : own = OwnText(page, n, texts)  OBVIOUS
<1>3. PICK x \in Seq(Int) : /\ x = FlattenSeq(texts)
                            /\ Without(x, Marks) = FlattenSeq(ws)
  BY ChainKeeps
<1>4. CASE type \in Leaves
  <2>1. own = <<n>>  BY <1>1, <1>2, <1>4, OwnTextIs
  <2>2. n \notin Marks /\ n \in Int
    BY DEF Marks, NewLine, Indented, CellEnd, Delimiter
  <2>3. <<n>> \in Seq(Int) /\ Len(<<n>>) = 1 /\ <<n>>[1] = n  BY <2>2
  <2>4. Without(<<n>>, Marks) = <<n>>  BY <2>2, <2>3, WithoutOne
  <2>. QED BY <1>1, <1>2, <1>4, <2>1, <2>3, <2>4 DEF NodeTokens
<1>5. CASE type = "hardBreak"
  <2>1. "hardBreak" \notin Leaves  BY DEF Leaves
  <2>2. own = <<NewLine>>  BY <1>1, <1>2, <1>5, <2>1, OwnTextIs
  <2>3. NewLine \in Marks /\ NewLine \in Int  BY MarksAreInts
  <2>4. <<NewLine>> \in Seq(Int) /\ Len(<<NewLine>>) = 1
        /\ <<NewLine>>[1] = NewLine
    BY <2>3
  <2>5. Without(<<NewLine>>, Marks) = <<>>  BY <2>3, <2>4, WithoutOne
  <2>. QED BY <1>1, <1>2, <1>5, <2>1, <2>2, <2>4, <2>5 DEF NodeTokens
<1>6. CASE type \notin Leaves /\ type # "hardBreak"
  <2>1. NodeTokens(page, n, ws) = FlattenSeq(ws)  BY <1>1, <1>6 DEF NodeTokens
  <2>2. CASE type \in Lists
    <3>1. own = RenderAtlassianList(texts)
      BY <1>1, <1>2, <1>6, <2>2, OwnTextIs
    <3>. QED BY <1>2, <2>1, <3>1, ItemsKeep
  <2>3. CASE type \notin Lists /\ type = "blockquote"
    <3>1. own = Indent(TrimText(x))  BY <1>1, <1>2, <1>3, <1>6, <2>3, OwnTextIs
    <3>2. PICK t \in Seq(Int) :
              t = TrimText(x) /\ Without(t, Marks) = Without(x, Marks)
      BY TrimKeeps
    <3>3. Indent(t) \in Seq(Int)
          /\ Without(Indent(t), Marks) = Without(t, Marks)
      BY IndentKeeps
    <3>. QED BY <1>2, <1>3, <2>1, <3>1, <3>2, <3>3
  <2>4. CASE type \notin Lists /\ type = "tableRow"
    <3>1. own = RenderAtlassianTableRow(page, n, texts)
      BY <1>1, <1>2, <1>6, <2>4, OwnTextIs
    <3>. QED BY <1>2, <2>1, <3>1, RowKeeps
  <2>5. CASE type \notin Lists /\ type # "blockquote" /\ type # "tableRow"
    <3>1. own = x  BY <1>1, <1>2, <1>3, <1>6, <2>5, OwnTextIs
    <3>. QED BY <1>2, <1>3, <2>1, <3>1
  <2>. QED BY <2>2, <2>3, <2>4, <2>5
<1>. QED BY <1>4, <1>5, <1>6

(* The lines after it add none.                                            *)
LEMMA RenderedKeeps ==
  ASSUME NEW page, NEW n \in Nat, NEW texts \in Seq(Seq(Int)),
         NEW ws \in Seq(Seq(Int)), Filtered(ws, texts, Marks)
  PROVE  /\ RenderedText(page, n, texts) \in Seq(Int)
         /\ Without(RenderedText(page, n, texts), Marks) = NodeTokens(page, n, ws)
<1>1. PICK own \in Seq(Int) :
          /\ own = OwnText(page, n, texts)
          /\ Without(own, Marks) = NodeTokens(page, n, ws)
  <2>1. /\ OwnText(page, n, texts) \in Seq(Int)
        /\ Without(OwnText(page, n, texts), Marks) = NodeTokens(page, n, ws)
    BY OwnKeeps, Zenon
  <2>2. PICK u : u = OwnText(page, n, texts)  OBVIOUS
  <2>3. u \in Seq(Int) /\ Without(u, Marks) = NodeTokens(page, n, ws)
    BY <2>1, <2>2
  <2>. QED BY <2>2, <2>3
<1>2. PICK end \in Seq(Marks) : end = BlockEnd(TypeOf(page, n))  BY BlockEndIs
<1>3. /\ own \o end \in Seq(Int)
      /\ Without(own \o end, Marks) = Without(own, Marks)
  BY MarksAdd, Zenon
<1>4. PICK u \in Seq(Int) : u = own \o end  BY <1>3
<1>5. RenderedText(page, n, texts) = u  BY <1>1, <1>2, <1>4 DEF RenderedText
<1>6. Without(u, Marks) = NodeTokens(page, n, ws)  BY <1>1, <1>3, <1>4
<1>. QED BY <1>5, <1>6, Zenon

(* The texts of the children, without marks.                               *)
LEMMA FilteredExists ==
  ASSUME NEW texts \in Seq(Seq(Int))
  PROVE  \E ws \in Seq(Seq(Int)) : Filtered(ws, texts, Marks)
<1>1. PICK n \in Nat : n = Len(texts)  BY LenProperties
<1>2. PICK f : f = [i \in 1..n |-> Without(texts[i], Marks)]  OBVIOUS
<1>3. ASSUME NEW i \in 1..n PROVE Without(texts[i], Marks) \in Seq(Int)
  <2>1. texts[i] \in Seq(Int)  BY <1>1, ElementOfSeq
  <2>. QED BY <2>1, WithoutIsSeq
<1>4. f \in [1..n -> Seq(Int)]  BY <1>2, <1>3
<1>5. f \in Seq(Seq(Int)) /\ Len(f) = n  BY <1>4, IsSequence
<1>6. Filtered(f, texts, Marks)  BY <1>1, <1>2, <1>5 DEF Filtered
<1>. QED BY <1>5, <1>6

(* The recursion has a solution, and the code's is one.                    *)
LEMMA ConfluenceSolves ==
  ASSUME NEW page, IsTree(page)
  PROVE  \E T : /\ SolvesConfluence(T, page)
                /\ RenderAtlassianNode(page) = T[0]
<1>1. PICK n \in Nat : n = Len(page) /\ DOMAIN page = 1..n  BY TreeIsPreorder
<1>. DEFINE A == Seq(Int)
            Value(b, f) == RenderedText(page, b, Mapped(f, Children(page, b)))
            F == [x \in (0..n) \X [0..n -> A] |-> Value(x[1], x[2])]
            rank == [b \in 0..n |-> n - b]
            Solves(T) == T = [b \in 0..n |-> Value(b, T)]
<1>2. RenderAtlassianNode(page) = (CHOOSE T : Solves(T))[0]
  BY <1>1 DEF RenderAtlassianNode, RenderedText, Mapped
<1>3. ASSUME NEW b \in 0..n, NEW f \in [0..n -> A] PROVE Value(b, f) \in A
  <2>1. Children(page, b) \in Seq(NodesUnder(page, b))
        /\ \A c \in NodesUnder(page, b) : c \in 1..n
    BY <1>1, ChildrenFollow
  <2>2. Yields(f, NodesUnder(page, b), A)
    <3>1. \A c \in 1..n : c \in 0..n  OBVIOUS
    <3>. QED BY <2>1, <3>1 DEF Yields
  <2>3. PICK s \in Seq(A) : IsMapped(s, f, Children(page, b))
    BY <2>1, <2>2, MappedIsSeq
  <2>4. s = Mapped(f, Children(page, b))  BY <2>3 DEF IsMapped
  <2>5. PICK ws \in Seq(A) : Filtered(ws, s, Marks)  BY FilteredExists
  <2>6. b \in Nat /\ s \in Seq(Seq(Int)) /\ ws \in Seq(Seq(Int))  OBVIOUS
  <2>. HIDE DEF A
  <2>7. RenderedText(page, b, s) \in Seq(Int)  BY <2>5, <2>6, RenderedKeeps, Zenon
  <2>. QED BY <2>4, <2>7 DEF A
<1>. HIDE DEF A
<1>4. ASSUME NEW b \in 0..n, NEW f \in [0..n -> A], NEW g \in [0..n -> A],
             \A c \in 0..n : b < c => f[c] = g[c]
      PROVE  Value(b, f) = Value(b, g)
  <2>1. Children(page, b) \in Seq(NodesUnder(page, b))
        /\ \A c \in NodesUnder(page, b) : c \in 1..n /\ b < c
    BY <1>1, ChildrenFollow
  <2>2. \A c \in NodesUnder(page, b) : f[c] = g[c]
    <3>1. \A c \in 1..n : c \in 0..n  OBVIOUS
    <3>. QED BY <1>4, <2>1, <3>1
  <2>3. PICK s \in Seq(NodesUnder(page, b)) : s = Children(page, b)  BY <2>1
  <2>4. \A k \in DOMAIN s : s[k] \in NodesUnder(page, b)
    BY LenProperties, ElementOfSeq
  <2>5. Mapped(f, s) = Mapped(g, s)  BY <2>2, <2>4 DEF Mapped
  <2>. QED BY <2>3, <2>5
<1>. HIDE DEF Value
<1>5. \A b \in 0..n, f \in [0..n -> A] : F[<<b, f>>] = Value(b, f)  OBVIOUS
<1>6. F \in [(0..n) \X [0..n -> A] -> A]
  <2>1. \A x \in (0..n) \X [0..n -> A] : Value(x[1], x[2]) \in A  BY <1>3
  <2>. QED BY <2>1
<1>7. rank \in [0..n -> 0..n] /\ \A b \in 0..n : rank[b] = n - b  OBVIOUS
<1>. HIDE DEF F, rank
<1>8. LooksBelow(F, rank, n, A)
  <2>1. ASSUME NEW b \in 0..n, NEW f \in [0..n -> A],
               NEW g \in [0..n -> A],
               \A c \in 0..n : rank[c] < rank[b] => f[c] = g[c]
        PROVE  F[<<b, f>>] = F[<<b, g>>]
    <3>1. \A c \in 0..n : b < c => rank[c] < rank[b]  BY <1>7
    <3>2. \A c \in 0..n : b < c => f[c] = g[c]  BY <2>1, <3>1
    <3>3. Value(b, f) = Value(b, g)  BY <1>4, <3>2
    <3>. QED BY <1>5, <3>3
  <2>. QED BY <2>1 DEF LooksBelow
<1>9. PICK h \in [0..n -> A] : Solution(h, F, n)
  <2>1. PICK a \in A : TRUE
    <3>1. <<>> \in A  BY EmptySeq DEF A
    <3>. QED BY <3>1
  <2>2. rank \in [0..n -> 0..n]  BY <1>7
  <2>. QED BY <1>6, <1>8, <2>1, <2>2, RecursionSolves
<1>10. Solves(h)
  <2>1. \A b \in 0..n : h[b] = Value(b, h)  BY <1>5, <1>9 DEF Solution
  <2>. QED BY <2>1
<1>11. PICK T : T = CHOOSE X : Solves(X)  OBVIOUS
<1>12. Solves(T)
  <2>. HIDE DEF Solves
  <2>. QED BY <1>10, <1>11
<1>13. \A b \in 0..n : T[b] = Value(b, T)  BY <1>12
<1>14. T \in [0..n -> A]
  <2>. DEFINE P == {b \in 0..n : T[b] \in A}
  <2>1. ASSUME NEW b \in 0..n, \A c \in 0..n : b < c => c \in P
        PROVE  b \in P
    <3>. DEFINE f == [c \in 0..n |-> IF b < c THEN T[c] ELSE <<>>]
    <3>1. <<>> \in A  BY EmptySeq DEF A
    <3>2. f \in [0..n -> A]  BY <2>1, <3>1
    <3>3. \A c \in 0..n : b < c => f[c] = T[c]  OBVIOUS
    <3>. HIDE DEF f
    <3>4. Children(page, b) \in Seq(NodesUnder(page, b))
          /\ \A c \in NodesUnder(page, b) : c \in 1..n /\ b < c
      BY <1>1, ChildrenFollow
    <3>5. \A c \in NodesUnder(page, b) : f[c] = T[c]
      <4>1. \A c \in 1..n : c \in 0..n  OBVIOUS
      <4>. QED BY <3>3, <3>4, <4>1
    <3>6. PICK s \in Seq(NodesUnder(page, b)) : s = Children(page, b)  BY <3>4
    <3>7. \A k \in DOMAIN s : s[k] \in NodesUnder(page, b)
      BY LenProperties, ElementOfSeq
    <3>8. Mapped(f, s) = Mapped(T, s)  BY <3>5, <3>7 DEF Mapped
    <3>9. Value(b, T) = Value(b, f)  BY <3>6, <3>8 DEF Value
    <3>10. Value(b, f) \in A  BY <1>3, <3>2
    <3>. QED BY <1>13, <3>9, <3>10
  <2>. HIDE DEF P
  <2>2. \A b \in 0..n : b \in P  BY <2>1, DownwardInduction
  <2>3. \A b \in 0..n : T[b] \in A  BY <2>2 DEF P
  <2>4. T = [b \in 0..n |-> T[b]]  BY <1>12
  <2>. QED BY <2>3, <2>4
<1>15. SolvesConfluence(T, page)
  BY <1>1, <1>13, <1>14 DEF SolvesConfluence, Value, A
<1>. QED BY <1>2, <1>11, <1>15

-----------------------------------------------------------------------------
(* Confluence: the tokens of a document, in order.                         *)

(* They are those of its children, or its own.                             *)
LEMMA TokensSolve ==
  ASSUME NEW page, IsTree(page), NEW T, SolvesConfluence(T, page)
  PROVE  /\ TreeTokens(T, page) \in [0..Len(page) -> Seq(Int)]
         /\ \A b \in 0..Len(page) :
                TreeTokens(T, page)[b]
                    = NodeTokens(page, b, Mapped(TreeTokens(T, page),
                                                 Children(page, b)))
<1>1. PICK n \in Nat : n = Len(page) /\ DOMAIN page = 1..n  BY TreeIsPreorder
<1>2. PICK W : W = TreeTokens(T, page)  OBVIOUS
<1>3. \A b \in 0..n : T[b] \in Seq(Int)  BY <1>1 DEF SolvesConfluence
<1>4. W \in [0..n -> Seq(Int)] /\ \A b \in 0..n : W[b] = Without(T[b], Marks)
  BY <1>1, <1>2, <1>3, WithoutIsSeq DEF TreeTokens
<1>5. ASSUME NEW b \in 0..n
      PROVE  W[b] = NodeTokens(page, b, Mapped(W, Children(page, b)))
  <2>1. PICK N : N = NodesUnder(page, b)  OBVIOUS
  <2>2. Children(page, b) \in Seq(N) /\ \A c \in N : c \in 1..n
    BY <1>1, <2>1, ChildrenFollow
  <2>3. \A c \in N : c \in 0..n  BY <2>2
  <2>4. PICK s \in Seq(N) : s = Children(page, b)  BY <2>2
  <2>5. PICK A : A = Seq(Int)  OBVIOUS
  <2>6. Yields(T, N, A) /\ Yields(W, N, A)
    BY <1>3, <1>4, <2>3, <2>5 DEF Yields
  <2>7. PICK texts \in Seq(A) : IsMapped(texts, T, s)  BY <2>6, MappedIsSeq
  <2>8. PICK ws \in Seq(A) : IsMapped(ws, W, s)  BY <2>6, MappedIsSeq
  <2>9. Filtered(ws, texts, Marks)
    <3>1. \A j \in 1..Len(s) : s[j] \in 0..n  BY <2>3, ElementOfSeq
    <3>2. /\ Len(texts) = Len(s) /\ Len(ws) = Len(s)
          /\ \A j \in 1..Len(s) : texts[j] = T[s[j]] /\ ws[j] = W[s[j]]
      BY <2>7, <2>8 DEF IsMapped
    <3>3. \A j \in 1..Len(s) : ws[j] = Without(texts[j], Marks)
      BY <1>4, <3>1, <3>2
    <3>. QED BY <3>2, <3>3 DEF Filtered
  <2>10. T[b] = RenderedText(page, b, texts)
    BY <1>1, <2>4, <2>7 DEF SolvesConfluence, IsMapped
  <2>11. b \in Nat  OBVIOUS
  <2>12. Without(RenderedText(page, b, texts), Marks)
             = NodeTokens(page, b, ws)
    BY <2>5, <2>9, <2>11, RenderedKeeps
  <2>13. ws = Mapped(W, Children(page, b))  BY <2>4, <2>8 DEF IsMapped
  <2>. QED BY <1>4, <2>10, <2>12, <2>13
<1>. QED BY <1>1, <1>2, <1>4, <1>5

(* The parts of the children of b, and nothing for any other node.         *)
LEMMA PartsOfChildren ==
  ASSUME NEW n \in Nat, NEW p, NEW b, NEW S, NEW K \in [1..n -> Seq(S)]
  PROVE  \E parts \in Seq(Seq(S)) : OfChildren(parts, p, n, b, K)
<1>. DEFINE f == [i \in 1..n |-> IF p[i] = b THEN K[i] ELSE <<>>]
<1>1. <<>> \in Seq(S)  BY EmptySeq
<1>2. f \in [1..n -> Seq(S)]  BY <1>1
<1>3. \A i \in 1..n : f[i] = IF p[i] = b THEN K[i] ELSE <<>>  OBVIOUS
<1>. HIDE DEF f
<1>4. f \in Seq(Seq(S)) /\ Len(f) = n  BY <1>2, IsSequence
<1>5. OfChildren(f, p, n, b, K)  BY <1>3, <1>4 DEF OfChildren
<1>. QED BY <1>4, <1>5

(* The tokens below b are those of its children one after the other.       *)
LEMMA TokensAdd ==
  ASSUME NEW page, IsTree(page), LeavesHoldNothing(page),
         NEW W, SolvesTokens(W, page), NEW b \in 0..Len(page),
         NEW parts \in Seq(Seq(Int)),
         OfChildren(parts, Parents(page), Len(page), b,
                    [c \in 1..Len(page) |-> W[c]])
  PROVE  TokensBelow(W, page, b) = FlattenSeq(parts)
<1>1. PICK n \in Nat : n = Len(page) /\ DOMAIN page = 1..n  BY TreeIsPreorder
<1>2. PICK K : K = [c \in 1..n |-> W[c]]  OBVIOUS
<1>3. PICK N : N = NodesUnder(page, b)  OBVIOUS
<1>4. PICK s \in Seq(N) : s = Children(page, b)  BY <1>1, <1>3, ChildrenFollow
<1>5. \A c \in N : c \in 1..n /\ c \in 0..n /\ page[c].parent = b
  BY <1>1, <1>3 DEF NodesUnder
<1>6. \A c \in 0..n : W[c] \in Seq(Int)  BY <1>1 DEF SolvesTokens
<1>7. OfChildren(parts, Parents(page), n, b, K)  BY <1>1, <1>2
<1>8. \A c \in N : K[c] = W[c] /\ K[c] \in Seq(Int)  BY <1>2, <1>5, <1>6
<1>9. CASE TypeOf(page, b) \in Leaves \union {"hardBreak"}
  <2>1. b # 0
    <3>1. "doc" \notin Leaves \union {"hardBreak"}  BY DEF Leaves
    <3>. QED BY <1>9, <3>1 DEF TypeOf
  <2>2. page[b].type \in Leaves \union {"hardBreak"}  BY <1>9, <2>1 DEF TypeOf
  <2>3. \A i \in 1..n : Parents(page)[i] # b
    BY <1>1, <2>1, <2>2 DEF LeavesHoldNothing, Parents
  <2>4. \A i \in 1..Len(parts) : parts[i] = <<>>  BY <1>7, <2>3 DEF OfChildren
  <2>5. FlattenSeq(parts) = <<>>  BY <2>4, FlattenOfEmpties
  <2>6. W[b] = NodeTokens(page, b, Mapped(W, Children(page, b)))
    BY <1>1 DEF SolvesTokens
  <2>7. TypeOf(page, b) \notin Leaves => W[b] = <<>>
    BY <1>9, <2>6 DEF NodeTokens
  <2>. QED BY <2>5, <2>7 DEF TokensBelow
<1>10. CASE TypeOf(page, b) \notin Leaves \union {"hardBreak"}
  <2>1. TokensBelow(W, page, b) = FlattenSeq(Mapped(W, s))
    BY <1>1, <1>4, <1>10 DEF SolvesTokens, NodeTokens, TokensBelow
  <2>2. \A k \in DOMAIN s : s[k] \in N  BY LenProperties, ElementOfSeq
  <2>3. Mapped(W, s) = Mapped(K, s)  BY <1>8, <2>2 DEF Mapped
  <2>4. PICK S : S = Int  OBVIOUS
  <2>5. Yields(K, NodesUnder(page, b), Seq(S))  BY <1>3, <1>8, <2>4 DEF Yields
  <2>6. parts \in Seq(Seq(S))  BY <2>4
  <2>7. OfChildren(parts, Parents(page), Len(page), b, K)  BY <1>1, <1>7
  <2>8. FlattenSeq(Mapped(K, Children(page, b))) = FlattenSeq(parts)
    BY <1>1, <2>5, <2>6, <2>7, ChildrenAreMapped
  <2>. QED BY <1>4, <2>1, <2>3, <2>8
<1>. QED BY <1>9, <1>10

(* From the last node up, the tokens below a node are the leaves below it. *)
LEMMA ConfluenceBelow ==
  ASSUME NEW page, IsTree(page), LeavesHoldNothing(page),
         NEW W, SolvesTokens(W, page), NEW X, LeafRun(X, page)
  PROVE  \A b \in 0..Len(page) : CountsBelow(X, W, page, b)
<1>1. PICK n \in Nat : n = Len(page) /\ DOMAIN page = 1..n  BY TreeIsPreorder
<1>2. PICK S : S = Int  OBVIOUS
<1>3. PICK p : p = Parents(page)  OBVIOUS
<1>4. PICK K : K = [c \in 1..n |-> W[c]]  OBVIOUS
<1>5. Preorder(p, n)  BY <1>1, <1>3, TreeIsPreorder
<1>6. \A c \in 1..n : p[c] \in 0..(c - 1)  BY <1>5 DEF Preorder
<1>7. /\ X \in [0..n -> Seq(S)]
      /\ \A k \in 1..n : X[k] = X[k - 1] \o LeafPart(page, k)
  BY <1>1, <1>2 DEF LeafRun
<1>8. \A c \in 0..n : W[c] \in Seq(S)  BY <1>1, <1>2 DEF SolvesTokens
<1>9. K \in [1..n -> Seq(S)] /\ \A c \in 1..n : K[c] = W[c]  BY <1>4, <1>8
<1>. DEFINE P == {b \in 0..n : CountsBelow(X, W, page, b)}
<1>10. ASSUME NEW b \in 0..n, \A c \in 0..n : b < c => c \in P
       PROVE  b \in P
  <2>1. ASSUME NEW c \in 1..n, p[c] = b
        PROVE  X[EndOf(p, n, c)] = X[c - 1] \o K[c]
    <3>1. c \in 0..n /\ b < c /\ c # 0  BY <1>6, <2>1
    <3>2. CountsBelow(X, W, page, c)  BY <1>10, <3>1
    <3>3. X[EndOf(p, n, c)] = X[c] \o TokensBelow(W, page, c)
      BY <1>1, <1>3, <3>2 DEF CountsBelow
    <3>4. PICK x \in Seq(S) : x = X[c - 1]
      <4>1. c - 1 \in 0..n  OBVIOUS
      <4>. QED BY <1>7, <4>1
    <3>5. PICK w \in Seq(S) : w = W[c]  BY <1>8, <3>1
    <3>6. TypeOf(page, c) = page[c].type  BY <3>1 DEF TypeOf
    <3>7. CASE page[c].type \in Leaves
      <4>1. w = <<c>>
        BY <1>1, <3>1, <3>5, <3>6, <3>7 DEF SolvesTokens, NodeTokens
      <4>2. X[c] = x \o w  BY <1>7, <3>4, <3>7, <4>1 DEF LeafPart
      <4>3. PICK xw \in Seq(S) : xw = x \o w  BY ConcatProperties
      <4>4. xw \o <<>> = xw  BY ConcatEmptySeq
      <4>5. TokensBelow(W, page, c) = <<>>  BY <3>6, <3>7 DEF TokensBelow
      <4>6. X[EndOf(p, n, c)] = x \o w  BY <3>3, <4>2, <4>3, <4>4, <4>5
      <4>. QED BY <1>9, <3>4, <3>5, <4>6
    <3>8. CASE page[c].type \notin Leaves
      <4>1. x \o <<>> = x  BY ConcatEmptySeq
      <4>2. X[c] = x  BY <1>7, <3>4, <3>8, <4>1 DEF LeafPart
      <4>3. TokensBelow(W, page, c) = w  BY <3>5, <3>6, <3>8 DEF TokensBelow
      <4>. QED BY <1>9, <3>3, <3>4, <3>5, <4>2, <4>3
    <3>. QED BY <3>7, <3>8
  <2>2. ChildrenGive(X, K, p, n, b)  BY <2>1 DEF ChildrenGive
  <2>3. PICK parts \in Seq(Seq(S)) : OfChildren(parts, p, n, b, K)
    BY <1>9, PartsOfChildren
  <2>4. X \in [0..n -> Seq(S)] /\ K \in [1..n -> Seq(S)]  BY <1>7, <1>9
  <2>5. AllGive(X, p, n, b, parts)  BY <1>5, <2>2, <2>3, <2>4, ChildrenAdd
  <2>6. TokensBelow(W, page, b) = FlattenSeq(parts)
    <3>1. OfChildren(parts, Parents(page), Len(page), b,
                     [c \in 1..Len(page) |-> W[c]])
      BY <1>1, <1>3, <1>4, <2>3
    <3>2. parts \in Seq(Seq(Int))  BY <1>2
    <3>. QED BY <1>1, <3>1, <3>2, TokensAdd
  <2>7. CountsBelow(X, W, page, b)
    BY <1>1, <1>3, <2>5, <2>6 DEF AllGive, CountsBelow
  <2>. QED BY <2>7
<1>. HIDE DEF P
<1>11. \A b \in 0..n : b \in P  BY <1>10, DownwardInduction
<1>. QED BY <1>1, <1>11 DEF P

(* The text of a document holds the leaves, in order.                      *)
LEMMA DocumentTokens ==
  ASSUME NEW page, IsTree(page), LeavesHoldNothing(page),
         NEW T, SolvesConfluence(T, page)
  PROVE  EveryTextInOrder(page, T[0])
<1>1. PICK n \in Nat : n = Len(page) /\ DOMAIN page = 1..n  BY TreeIsPreorder
<1>2. PICK W : W = TreeTokens(T, page)  OBVIOUS
<1>3. SolvesTokens(W, page)  BY <1>2, TokensSolve DEF SolvesTokens
<1>4. W[0] = Without(T[0], Marks)  BY <1>1, <1>2 DEF TreeTokens
<1>. DEFINE want == [i \in 1..n |-> LeafPart(page, i)]
<1>5. ASSUME NEW i \in 1..n PROVE LeafPart(page, i) \in Seq(Int)
  <2>1. <<i>> \in Seq(Int) /\ <<>> \in Seq(Int)  BY EmptySeq
  <2>. QED BY <2>1 DEF LeafPart
<1>6. want \in [1..n -> Seq(Int)]  BY <1>5
<1>7. \A i \in 1..n : want[i] = LeafPart(page, i)  OBVIOUS
<1>8. Without(Places(page), {i \in DOMAIN page : page[i].type \notin Leaves})
          = FlattenSeq(want)
  <2>1. DOMAIN Places(page) = 1..n /\ \A i \in 1..n : Places(page)[i] = i
    BY <1>1 DEF Places
  <2>2. PICK D : D = {i \in 1..n : page[i].type \notin Leaves}  OBVIOUS
  <2>3. Without(Places(page), D)
            = FlattenSeq([i \in 1..n |-> IF Places(page)[i] \in D THEN <<>>
                                         ELSE <<Places(page)[i]>>])
    BY <2>1 DEF Without
  <2>4. \A i \in 1..n : (IF Places(page)[i] \in D THEN <<>>
                         ELSE <<Places(page)[i]>>) = LeafPart(page, i)
    BY <2>1, <2>2 DEF LeafPart
  <2>5. [i \in 1..n |-> IF Places(page)[i] \in D THEN <<>>
                        ELSE <<Places(page)[i]>>] = want
    BY <2>4
  <2>. QED BY <1>1, <2>2, <2>3, <2>5
<1>. HIDE DEF want
<1>9. want \in Seq(Seq(Int)) /\ Len(want) = n  BY <1>6, IsSequence
<1>10. PICK X : FlattenRun(X, want, Int)  BY <1>9, FlattenRuns
<1>11. /\ X \in [0..n -> Seq(Int)] /\ X[0] = <<>>
       /\ \A k \in 1..n : X[k] = X[k - 1] \o want[k]
       /\ FlattenSeq(want) = X[n]
  BY <1>9, <1>10 DEF FlattenRun
<1>12. LeafRun(X, page)  BY <1>1, <1>7, <1>11 DEF LeafRun
<1>13. CountsBelow(X, W, page, 0)  BY <1>1, <1>3, <1>12, ConfluenceBelow
<1>14. EndOf(Parents(page), n, 0) = n  BY <1>1, TreeIsPreorder, EndOfPage
<1>15. PICK w \in Seq(Int) : w = W[0]
  <2>1. 0 \in 0..n  OBVIOUS
  <2>. QED BY <1>1, <1>3, <2>1 DEF SolvesTokens
<1>16. TokensBelow(W, page, 0) = w
  <2>1. "doc" \notin Leaves  BY DEF Leaves
  <2>. QED BY <1>15, <2>1 DEF TokensBelow, TypeOf
<1>17. X[n] = <<>> \o w  BY <1>1, <1>11, <1>13, <1>14, <1>16 DEF CountsBelow
<1>18. <<>> \o w = w  BY ConcatEmptySeq
<1>. QED BY <1>4, <1>8, <1>11, <1>15, <1>17, <1>18 DEF EveryTextInOrder

-----------------------------------------------------------------------------
(* Confluence: blank lines.                                                *)

(* Appending a token.                                                      *)
LEMMA AppendIs ==
  ASSUME NEW t \in Seq(Int), NEW x \in Int
  PROVE  Append(t, x) \in Seq(Int) /\ Appended(Append(t, x), t, x)
BY AppendProperties DEF Appended

(* A second line end closes every token; any other token leaves those      *)
(* before it open and is open itself if it is no mark.                     *)
LEMMA OpenAppend ==
  ASSUME NEW t \in Seq(Int), NEW x \in Int, NEW u \in Seq(Int),
         Appended(u, t, x)
  PROVE  /\ (x = NewLine /\ EndsLine(t)) => OpenTokens(u) = {}
         /\ ~(x = NewLine /\ EndsLine(t)) =>
                OpenTokens(u) = OpenTokens(t)
                                    \union (IF x \in Marks THEN {} ELSE {x})
         /\ EndsLine(u) <=> x = NewLine
<1>1. PICK n \in Nat : n = Len(t)  BY LenProperties
<1>2. /\ Len(u) = n + 1 /\ u[n + 1] = x
      /\ \A i \in 1..n : u[i] = t[i]
  BY <1>1 DEF Appended
<1>3. NewLine \in Marks  BY MarksAreInts
<1>4. EndsLine(t) <=> n # 0 /\ t[n] = NewLine  BY <1>1 DEF EndsLine
<1>5. EndsLine(u) <=> x = NewLine
  <2>1. n + 1 # 0  OBVIOUS
  <2>. QED BY <1>2, <2>1 DEF EndsLine
<1>6. ASSUME NEW i \in 1..n PROVE BlankAfter(t, i) => BlankAfter(u, i)
  <2>1. ASSUME NEW k \in (i + 1)..(n - 1),
               t[k] = NewLine, t[k + 1] = NewLine
        PROVE  BlankAfter(u, i)
    <3>1. k \in 1..n /\ k + 1 \in 1..n  OBVIOUS
    <3>2. u[k] = NewLine /\ u[k + 1] = NewLine  BY <1>2, <2>1, <3>1
    <3>3. k \in (i + 1)..(Len(u) - 1)  BY <1>2
    <3>. QED BY <3>2, <3>3 DEF BlankAfter
  <2>. QED BY <1>1, <2>1 DEF BlankAfter
<1>7. ASSUME x = NewLine, EndsLine(t) PROVE OpenTokens(u) = {}
  <2>1. ASSUME NEW i \in 1..(n + 1), u[i] \notin Marks
        PROVE  BlankAfter(u, i)
    <3>1. i # n + 1  BY <1>2, <1>3, <1>7, <2>1
    <3>2. i \in 1..n  BY <3>1
    <3>3. i # n  BY <1>2, <1>3, <1>4, <1>7, <2>1, <3>2
    <3>4. n \in (i + 1)..(Len(u) - 1) /\ n \in 1..n  BY <1>2, <3>2, <3>3
    <3>5. u[n] = NewLine /\ u[n + 1] = NewLine  BY <1>2, <1>4, <1>7, <3>4
    <3>. QED BY <3>4, <3>5 DEF BlankAfter
  <2>2. OpenPlaces(u) = {}  BY <1>2, <2>1 DEF OpenPlaces
  <2>. QED BY <2>2 DEF OpenTokens
<1>8. ASSUME ~(x = NewLine /\ EndsLine(t))
      PROVE  OpenTokens(u) = OpenTokens(t)
                                 \union (IF x \in Marks THEN {} ELSE {x})
  <2>1. ASSUME NEW i \in 1..n PROVE BlankAfter(u, i) => BlankAfter(t, i)
    <3>1. ASSUME NEW k \in (i + 1)..n,
                 u[k] = NewLine, u[k + 1] = NewLine
          PROVE  BlankAfter(t, i)
      <4>1. k \in 1..n  OBVIOUS
      <4>2. k # n
        <5>1. ASSUME k = n PROVE FALSE
          <6>1. t[n] = NewLine /\ x = NewLine /\ n # 0
            BY <1>2, <3>1, <4>1, <5>1
          <6>. QED BY <1>4, <1>8, <6>1
        <5>. QED BY <5>1
      <4>3. k \in (i + 1)..(Len(t) - 1) /\ k + 1 \in 1..n  BY <1>1, <4>2
      <4>4. t[k] = NewLine /\ t[k + 1] = NewLine  BY <1>2, <3>1, <4>1, <4>3
      <4>. QED BY <4>3, <4>4 DEF BlankAfter
    <3>2. Len(u) - 1 = n  BY <1>2
    <3>. QED BY <3>1, <3>2 DEF BlankAfter
  <2>2. ~BlankAfter(u, n + 1)
    <3>1. ((n + 1) + 1)..(Len(u) - 1) = {}  BY <1>2
    <3>. QED BY <3>1 DEF BlankAfter
  <2>3. \A i \in 1..n : i \in OpenPlaces(u) <=> i \in OpenPlaces(t)
    <3>1. \A i \in 1..n : i \in 1..(n + 1)  OBVIOUS
    <3>. QED BY <1>1, <1>2, <1>6, <2>1, <3>1 DEF OpenPlaces
  <2>4. n + 1 \in OpenPlaces(u) <=> x \notin Marks
    <3>1. n + 1 \in 1..(n + 1)  OBVIOUS
    <3>. QED BY <1>2, <2>2, <3>1 DEF OpenPlaces
  <2>5. OpenPlaces(u) \subseteq 1..(n + 1)  BY <1>2 DEF OpenPlaces
  <2>6. OpenPlaces(t) \subseteq 1..n  BY <1>1 DEF OpenPlaces
  <2>7. OpenPlaces(u) = OpenPlaces(t)
                            \union (IF x \in Marks THEN {} ELSE {n + 1})
    <3>1. \A i \in 1..(n + 1) : i \in 1..n \/ i = n + 1  OBVIOUS
    <3>2. n + 1 \notin 1..n  OBVIOUS
    <3>. QED BY <2>3, <2>4, <2>5, <2>6, <3>1, <3>2
  <2>8. \A i \in OpenPlaces(t) : u[i] = t[i]  BY <1>2, <2>6
  <2>. QED BY <1>2, <2>7, <2>8 DEF OpenTokens
<1>. QED BY <1>5, <1>7, <1>8

(* BlocksAreApart, with the blank line named by its place.                 *)
LEMMA ApartIs ==
  ASSUME NEW page, NEW t \in Seq(Int)
  PROVE  BlocksAreApart(page, t) <=> Apart(page, t)
<1>1. PICK n \in Nat : n = Len(t) /\ DOMAIN t = 1..n  BY LenProperties
<1>. QED BY <1>1 DEF BlocksAreApart, Apart, ApartAt

(* Appending a token keeps the blocks apart unless it is of another block  *)
(* than a token still open.                                                *)
LEMMA ApartAppend ==
  ASSUME NEW page, NEW t \in Seq(Int), NEW x \in Int, NEW u \in Seq(Int),
         Appended(u, t, x)
  PROVE  Apart(page, u) <=>
             /\ Apart(page, t)
             /\ x \notin Marks =>
                    \A y \in OpenTokens(t) : TopBlock(page, y) = TopBlock(page, x)
<1>1. PICK n \in Nat : n = Len(t)  BY LenProperties
<1>2. /\ Len(u) = n + 1 /\ u[n + 1] = x
      /\ \A i \in 1..n : u[i] = t[i]
  BY <1>1 DEF Appended
<1>3. ASSUME NEW i \in 1..n, NEW j \in 1..n
      PROVE  ApartAt(page, u, i, j) <=> ApartAt(page, t, i, j)
  <2>1. u[i] = t[i] /\ u[j] = t[j]  BY <1>2
  <2>2. \A k \in (i + 1)..(j - 2) : k \in 1..n /\ k + 1 \in 1..n  OBVIOUS
  <2>3. \A k \in (i + 1)..(j - 2) : u[k] = t[k] /\ u[k + 1] = t[k + 1]
    BY <1>2, <2>2
  <2>. QED BY <2>1, <2>3 DEF ApartAt
<1>4. ASSUME NEW i \in 1..n
      PROVE  ApartAt(page, u, i, n + 1)
                 <=> (TopBlock(page, t[i]) # TopBlock(page, x) => BlankAfter(t, i))
  <2>1. u[i] = t[i]  BY <1>2
  <2>2. (n + 1) - 2 = n - 1  OBVIOUS
  <2>3. \A k \in (i + 1)..(n - 1) : k \in 1..n /\ k + 1 \in 1..n  OBVIOUS
  <2>4. \A k \in (i + 1)..(n - 1) : u[k] = t[k] /\ u[k + 1] = t[k + 1]
    BY <1>2, <2>3
  <2>. QED BY <1>1, <1>2, <2>1, <2>2, <2>4 DEF ApartAt, BlankAfter
<1>5. ASSUME Apart(page, u)
      PROVE  /\ Apart(page, t)
             /\ x \notin Marks =>
                    \A y \in OpenTokens(t) : TopBlock(page, y) = TopBlock(page, x)
  <2>1. \A i \in 1..n : i \in 1..(n + 1) /\ i < n + 1  OBVIOUS
  <2>2. Apart(page, t)  BY <1>1, <1>2, <1>3, <1>5, <2>1 DEF Apart
  <2>3. ASSUME x \notin Marks, NEW i \in OpenPlaces(t)
        PROVE  TopBlock(page, t[i]) = TopBlock(page, x)
    <3>1. i \in 1..n /\ t[i] \notin Marks /\ ~BlankAfter(t, i)
      BY <1>1, <2>3 DEF OpenPlaces
    <3>2. n + 1 \in 1..(n + 1)  OBVIOUS
    <3>3. ApartAt(page, u, i, n + 1)
      BY <1>2, <1>5, <2>1, <2>3, <3>1, <3>2 DEF Apart
    <3>. QED BY <1>4, <3>1, <3>3
  <2>. QED BY <2>2, <2>3 DEF OpenTokens
<1>6. ASSUME Apart(page, t),
             x \notin Marks =>
                 \A y \in OpenTokens(t) : TopBlock(page, y) = TopBlock(page, x)
      PROVE  Apart(page, u)
  <2>. SUFFICES ASSUME NEW i \in 1..(n + 1), NEW j \in 1..(n + 1),
                       u[i] \notin Marks, u[j] \notin Marks, i < j
                PROVE  ApartAt(page, u, i, j)
    BY <1>2 DEF Apart
  <2>1. i \in 1..n  OBVIOUS
  <2>2. u[i] = t[i]  BY <1>2, <2>1
  <2>3. CASE j # n + 1
    <3>1. j \in 1..n  BY <2>3
    <3>2. u[j] = t[j]  BY <1>2, <3>1
    <3>3. ApartAt(page, t, i, j)
      BY <1>1, <1>6, <2>1, <2>2, <3>1, <3>2 DEF Apart
    <3>. QED BY <1>3, <2>1, <3>1, <3>3
  <2>4. CASE j = n + 1
    <3>1. x \notin Marks  BY <1>2, <2>4
    <3>2. ~BlankAfter(t, i) => t[i] \in OpenTokens(t)
      BY <1>1, <2>1, <2>2 DEF OpenTokens, OpenPlaces
    <3>. QED BY <1>4, <1>6, <2>1, <2>4, <3>1, <3>2
  <2>. QED BY <2>3, <2>4
<1>. QED BY <1>5, <1>6

(* A blank line closes every token.                                        *)
LEMMA BlankSeals ==
  ASSUME NEW t \in Seq(Int), EndsBlank(t)
  PROVE  OpenTokens(t) = {}
<1>1. PICK n \in Nat : n = Len(t)  BY LenProperties
<1>2. n >= 2 /\ t[n - 1] = NewLine /\ t[n] = NewLine  BY <1>1 DEF EndsBlank
<1>3. NewLine \in Marks  BY MarksAreInts
<1>4. ASSUME NEW i \in 1..n, t[i] \notin Marks PROVE BlankAfter(t, i)
  <2>1. i # n /\ i # n - 1  BY <1>2, <1>3, <1>4
  <2>2. n - 1 \in (i + 1)..(Len(t) - 1) /\ (n - 1) + 1 = n  BY <1>1, <2>1
  <2>. QED BY <1>2, <2>2 DEF BlankAfter
<1>5. OpenPlaces(t) = {}  BY <1>1, <1>4 DEF OpenPlaces
<1>. QED BY <1>5 DEF OpenTokens

(* A turn makes a text.                                                    *)
LEMMA SqueezeIsText ==
  ASSUME NEW out \in Seq(Int), NEW x \in Int
  PROVE  Squeeze(out, x) \in Seq(Int)
BY AppendIs DEF Squeeze

(* The turns of the replacement of three line ends or more by two.         *)
LEMMA SqueezeRuns ==
  ASSUME NEW t \in Seq(Int)
  PROVE  \E g : SqueezeRun(g, t)
<1>. DEFINE A == Seq(Int)
            B == Int
            n == Len(t)
            F == [p \in A \X B |-> Squeeze(p[1], p[2])]
            Solves(it) == it = [s \in SUBSET DOMAIN t |->
                                   IF s = {} THEN <<>>
                                   ELSE Squeeze(it[s \ {Max(s)}], t[Max(s)])]
<1>1. n \in Nat /\ t \in [1..n -> B] /\ DOMAIN t = 1..n  BY LenProperties
<1>2. Normalized(t) = TrimText((CHOOSE it : Solves(it))[DOMAIN t])
  BY DEF Normalized, Squeeze, FoldLeft, MapThenFoldSet
<1>3. <<>> \in A  BY EmptySeq
<1>4. ASSUME NEW a \in A, NEW b \in B PROVE Squeeze(a, b) \in A
  BY SqueezeIsText
<1>. HIDE DEF n, A, B
<1>5. /\ F \in [A \X B -> A]
      /\ \A a \in A, b \in B : F[<<a, b>>] = Squeeze(a, b)
  BY <1>4
<1>. HIDE DEF F
<1>6. PICK h : FoldOf(h, A, B, F, <<>>, n, t)
  <2>. HIDE DEF Solves
  <2>1. \A G \in [A \X B -> A], a \in A, k \in Nat :
            \A s \in [1..k -> B] : \E h : FoldOf(h, A, B, G, a, k, s)
    BY FoldExists, Zenon
  <2>. QED BY <1>1, <1>3, <1>5, <2>1
<1>7. Solves(h)  BY <1>1, <1>5, <1>6 DEF FoldOf
<1>. HIDE DEF Solves
<1>8. PICK it : Solves(it) /\ Normalized(t) = TrimText(it[1..n])
  BY <1>1, <1>2, <1>7
<1>9. it[{}] = <<>>  BY <1>1, <1>8 DEF Solves
<1>10. ASSUME NEW k \in 1..n
       PROVE  it[1..k] = Squeeze(it[1..(k - 1)], t[k])
  <2>1. k \in Nat /\ k # 0 /\ 1..k \in SUBSET (1..n)  BY <1>1
  <2>2. /\ 1..k # {}
        /\ Max(1..k) = k /\ (1..k) \ {Max(1..k)} = 1..(k - 1)
    BY <2>1, FirstIndices
  <2>. QED BY <1>1, <1>8, <2>1, <2>2 DEF Solves
<1>11. ASSUME NEW k \in 1..n, it[1..(k - 1)] \in A PROVE it[1..k] \in A
  <2>1. t[k] \in B  BY <1>1
  <2>. QED BY <1>4, <1>10, <1>11, <2>1
<1>12. \A k \in 0..n : it[1..k] \in A
  <2>1. it[{}] \in A  BY <1>3, <1>9
  <2>. QED BY <1>1, <1>11, <2>1, FoldStays
<1>. DEFINE g == [k \in 0..n |-> it[1..k]]
<1>13. g \in [0..n -> A] /\ g[0] = <<>>
  <2>1. 1..0 = {}  OBVIOUS
  <2>. QED BY <1>1, <1>9, <1>12, <2>1
<1>14. \A k \in 1..n : g[k] = Squeeze(g[k - 1], t[k])  BY <1>1, <1>10
<1>15. Normalized(t) = TrimText(g[n])  BY <1>1, <1>8
<1>. HIDE DEF g
<1>16. SqueezeRun(g, t)  BY <1>13, <1>14, <1>15 DEF A, n, SqueezeRun
<1>. QED BY <1>16

(* The prefixes of a text, one token after the other.                      *)
LEMMA PrefixRuns ==
  ASSUME NEW t \in Seq(Int)
  PROVE  \E h : PrefixRun(h, t)
<1>1. PICK n \in Nat : n = Len(t) /\ DOMAIN t = 1..n  BY LenProperties
<1>. DEFINE h == [k \in 0..n |-> SubSeq(t, 1, k)]
<1>2. ASSUME NEW k \in 0..n
      PROVE  /\ h[k] \in Seq(Int) /\ Len(h[k]) = k
             /\ \A i \in 1..k : h[k][i] = t[i]
  <2>1. 1 \in Nat \ {0} /\ k \in Int /\ k <= Len(t)  BY <1>1
  <2>2. PICK s : s = SubSeq(t, 1, k)  OBVIOUS
  <2>3. s \in Seq(Int) /\ Len(s) = IF 1 <= k THEN k - 1 + 1 ELSE 0
    BY <2>1, <2>2, SubSeqIsSequence
  <2>4. \A i \in 1..k : s[i] = t[i]  BY <2>2
  <2>5. h[k] = s  BY <2>2
  <2>6. Len(s) = k  BY <2>3
  <2>. QED BY <2>3, <2>4, <2>5, <2>6
<1>3. h \in [0..n -> Seq(Int)]
  <2>1. \A k \in 0..n : SubSeq(t, 1, k) \in Seq(Int)  BY <1>2
  <2>. QED BY <2>1
<1>. HIDE DEF h
<1>4. h[0] = <<>>
  <2>1. 0 \in 0..n  OBVIOUS
  <2>2. h[0] \in Seq(Int) /\ Len(h[0]) = 0  BY <1>2, <2>1
  <2>. QED BY <2>2, EmptySeq
<1>5. h[n] = t
  <2>1. n \in 0..n  OBVIOUS
  <2>2. PICK u \in Seq(Int) : u = h[n]  BY <1>2, <2>1
  <2>3. Len(u) = n /\ \A i \in 1..n : u[i] = t[i]  BY <1>2, <2>1, <2>2
  <2>4. u = t  BY <1>1, <2>3, SeqEqual
  <2>. QED BY <2>2, <2>4
<1>6. ASSUME NEW k \in 1..n PROVE Appended(h[k], h[k - 1], t[k])
  <2>1. k \in 0..n /\ k - 1 \in 0..n /\ (k - 1) + 1 = k /\ k \in 1..k  OBVIOUS
  <2>2. \A i \in 1..(k - 1) : i \in 1..k  OBVIOUS
  <2>3. Len(h[k]) = k /\ Len(h[k - 1]) = k - 1  BY <1>2, <2>1
  <2>4. h[k][k] = t[k]  BY <1>2, <2>1
  <2>5. \A i \in 1..(k - 1) : h[k][i] = h[k - 1][i]  BY <1>2, <2>1, <2>2
  <2>. QED BY <2>1, <2>3, <2>4, <2>5 DEF Appended
<1>7. PrefixRun(h, t)  BY <1>1, <1>3, <1>4, <1>5, <1>6 DEF PrefixRun
<1>. QED BY <1>7

(* What is left of a text with one more token.                             *)
LEMMA AppendKeeps ==
  ASSUME NEW t \in Seq(Int), NEW x \in Int, NEW u \in Seq(Int),
         Appended(u, t, x)
  PROVE  /\ x \in Marks => Without(u, Marks) = Without(t, Marks)
         /\ x \notin Marks => Without(u, Marks) = Append(Without(t, Marks), x)
<1>1. PICK n \in Nat : n = Len(t)  BY LenProperties
<1>2. <<x>> \in Seq(Int) /\ Len(<<x>>) = 1 /\ <<x>>[1] = x  OBVIOUS
<1>3. PICK y \in Seq(Int) : y = <<x>> /\ Len(y) = 1 /\ y[1] = x  BY <1>2, Zenon
<1>4. PICK v \in Seq(Int) : v = t \o y  BY WithoutMarks
<1>5. Len(v) = n + 1
      /\ \A i \in 1..(n + 1) : v[i] = IF i <= n THEN t[i] ELSE y[i - n]
  <2>1. Chained(v, t, y)  BY <1>4, ConcatIsChained
  <2>. QED BY <1>1, <1>3, <2>1 DEF Chained
<1>6. Len(u) = n + 1 /\ u[n + 1] = x /\ \A i \in 1..n : u[i] = t[i]
  BY <1>1 DEF Appended
<1>7. v[n + 1] = x
  <2>1. n + 1 \in 1..(n + 1) /\ ~(n + 1 <= n) /\ (n + 1) - n = 1  OBVIOUS
  <2>. QED BY <1>3, <1>5, <2>1
<1>8. \A i \in 1..n : v[i] = t[i]
  <2>1. \A i \in 1..n : i \in 1..(n + 1) /\ i <= n  OBVIOUS
  <2>. QED BY <1>5, <2>1
<1>9. \A i \in 1..(n + 1) : v[i] = u[i]
  <2>1. \A i \in 1..(n + 1) : i = n + 1 \/ i \in 1..n  OBVIOUS
  <2>. QED BY <1>6, <1>7, <1>8, <2>1
<1>10. v = u  BY <1>5, <1>6, <1>9, SeqEqual
<1>11. PICK w \in Seq(Int) : w = Without(t, Marks)  BY WithoutIsSeq
<1>12. PICK m \in Seq(Int) : m = Without(y, Marks)  BY WithoutIsSeq
<1>13. m = IF x \in Marks THEN <<>> ELSE <<x>>  BY <1>3, <1>12, WithoutOne
<1>14. Without(t \o y, Marks) = Without(t, Marks) \o Without(y, Marks)
  BY WithoutMarks, Zenon
<1>15. Without(u, Marks) = w \o m  BY <1>4, <1>10, <1>11, <1>12, <1>14
<1>16. w \o <<>> = w  BY ConcatEmptySeq
<1>17. Append(w, x) = w \o <<x>>  BY AppendIsConcat
<1>. QED BY <1>11, <1>13, <1>15, <1>16, <1>17

(* Each turn keeps the tokens, and the blank lines between blocks.         *)
LEMMA SqueezeKeeps ==
  ASSUME NEW page, NEW g \in Seq(Int), NEW h \in Seq(Int), NEW x \in Int,
         Squeezed(page, g, h), NEW u \in Seq(Int), Appended(u, h, x)
  PROVE  Squeezed(page, Squeeze(g, x), u)
<1>1. /\ (x = NewLine /\ EndsLine(h)) => OpenTokens(u) = {}
      /\ ~(x = NewLine /\ EndsLine(h)) =>
             OpenTokens(u) = OpenTokens(h)
                                 \union (IF x \in Marks THEN {} ELSE {x})
      /\ EndsLine(u) <=> x = NewLine
  BY OpenAppend
<1>2. /\ Without(g, Marks) = Without(h, Marks)
      /\ OpenTokens(g) \subseteq OpenTokens(h)
      /\ EndsLine(h) => EndsLine(g)
      /\ Apart(page, h) => Apart(page, g)
  BY DEF Squeezed
<1>3. Apart(page, u) <=>
          /\ Apart(page, h)
          /\ x \notin Marks =>
                 \A y \in OpenTokens(h) : TopBlock(page, y) = TopBlock(page, x)
  BY ApartAppend
<1>4. /\ x \in Marks => Without(u, Marks) = Without(h, Marks)
      /\ x \notin Marks => Without(u, Marks) = Append(Without(h, Marks), x)
  BY AppendKeeps
<1>5. NewLine \in Marks  BY MarksAreInts
<1>6. CASE Squeeze(g, x) = Append(g, x)
  <2>1. PICK v \in Seq(Int) : v = Append(g, x) /\ Appended(v, g, x)
    BY AppendIs
  <2>2. /\ (x = NewLine /\ EndsLine(g)) => OpenTokens(v) = {}
        /\ ~(x = NewLine /\ EndsLine(g)) =>
               OpenTokens(v) = OpenTokens(g)
                                   \union (IF x \in Marks THEN {} ELSE {x})
        /\ EndsLine(v) <=> x = NewLine
    BY <2>1, OpenAppend
  <2>3. Apart(page, v) <=>
            /\ Apart(page, g)
            /\ x \notin Marks =>
                 \A y \in OpenTokens(g) : TopBlock(page, y) = TopBlock(page, x)
    BY <2>1, ApartAppend
  <2>4. /\ x \in Marks => Without(v, Marks) = Without(g, Marks)
        /\ x \notin Marks => Without(v, Marks) = Append(Without(g, Marks), x)
    BY <2>1, AppendKeeps
  <2>5. OpenTokens(v) \subseteq OpenTokens(u)  BY <1>1, <1>2, <2>2
  <2>6. Apart(page, u) => Apart(page, v)  BY <1>2, <1>3, <2>3
  <2>7. Without(v, Marks) = Without(u, Marks)  BY <1>2, <1>4, <2>4
  <2>8. EndsLine(u) => EndsLine(v)  BY <1>1, <2>2
  <2>. QED BY <1>6, <2>1, <2>5, <2>6, <2>7, <2>8 DEF Squeezed
<1>7. CASE Squeeze(g, x) # Append(g, x)
  <2>1. /\ x = NewLine /\ Len(g) >= 2
        /\ SubSeq(g, Len(g) - 1, Len(g)) = <<NewLine, NewLine>>
        /\ Squeeze(g, x) = g
    BY <1>7 DEF Squeeze
  <2>2. PICK m \in Nat : m = Len(g)  BY LenProperties
  <2>3. g[m - 1] = NewLine /\ g[m] = NewLine /\ m >= 2
    <3>1. PICK s : s = SubSeq(g, m - 1, m)  OBVIOUS
    <3>2. s[1] = g[m - 1] /\ s[2] = g[m]  BY <2>1, <2>2, <3>1
    <3>3. s = <<NewLine, NewLine>>  BY <2>1, <2>2, <3>1
    <3>4. s[1] = NewLine /\ s[2] = NewLine  BY <3>3
    <3>. QED BY <2>1, <2>2, <3>2, <3>4
  <2>4. EndsLine(g)  BY <2>2, <2>3 DEF EndsLine
  <2>5. OpenTokens(g) = {}  BY <2>2, <2>3, BlankSeals DEF EndsBlank
  <2>6. Apart(page, u) => Apart(page, g)  BY <1>2, <1>3
  <2>7. Without(g, Marks) = Without(u, Marks)  BY <1>2, <1>4, <1>5, <2>1
  <2>. QED BY <2>1, <2>4, <2>5, <2>6, <2>7 DEF Squeezed
<1>. QED BY <1>6, <1>7

(* A text without the line ends around it is as far apart.                 *)
LEMMA TrimIsApart ==
  ASSUME NEW page, NEW t \in Seq(Int), Apart(page, t)
  PROVE  Apart(page, TrimText(t))
<1>1. PICK n \in Nat : n = Len(t)  BY LenProperties
<1>2. PICK lo \in 1..(n + 1), hi \in 0..n :
          lo <= hi + 1 /\ PieceOf(TrimText(t), t, lo, hi)
  BY <1>1, TrimIsPiece
<1>3. PICK b : b = TrimText(t)  OBVIOUS
<1>4. b = SubSeq(t, lo, hi)  BY <1>2, <1>3 DEF PieceOf
<1>5. PICK m \in Nat : m = hi - lo + 1  BY <1>2
<1>6. Len(b) = m /\ \A i \in 1..m : b[i] = t[i + (lo - 1)]
  <2>1. lo \in Nat \ {0} /\ hi \in Int /\ hi <= Len(t)  BY <1>1
  <2>2. Len(b) = IF lo <= hi THEN hi - lo + 1 ELSE 0
    BY <1>4, <2>1, SubSeqIsSequence
  <2>3. Len(b) = m  BY <1>2, <1>5, <2>2
  <2>4. ASSUME NEW i \in 1..m PROVE b[i] = t[i + (lo - 1)]
    <3>1. lo + i - 1 = i + (lo - 1)  OBVIOUS
    <3>2. b[i] = t[lo + i - 1]  BY <1>4, <1>5
    <3>. QED BY <3>1, <3>2
  <2>. QED BY <2>3, <2>4
<1>7. PICK d \in Nat : d = lo - 1  OBVIOUS
<1>8. m + d <= n  BY <1>2, <1>5, <1>7
<1>9. \A i \in 1..m : b[i] = t[i + d]  BY <1>6, <1>7
<1>10. ASSUME NEW i \in 1..m, NEW j \in 1..m,
              b[i] \notin Marks, b[j] \notin Marks, i < j
       PROVE  ApartAt(page, b, i, j)
  <2>1. i + d \in 1..n /\ j + d \in 1..n /\ i + d < j + d  BY <1>8, <1>10
  <2>2. ApartAt(page, t, i + d, j + d)  BY <1>1, <1>9, <1>10, <2>1 DEF Apart
  <2>. SUFFICES ASSUME TopBlock(page, b[i]) # TopBlock(page, b[j])
                PROVE  \E k \in (i + 1)..(j - 2) :
                           b[k] = NewLine /\ b[k + 1] = NewLine
    BY DEF ApartAt
  <2>3. PICK k \in ((i + d) + 1)..((j + d) - 2) :
            t[k] = NewLine /\ t[k + 1] = NewLine
    BY <1>9, <2>2 DEF ApartAt
  <2>4. PICK l \in (i + 1)..(j - 2) : l = k - d /\ l + d = k
    <3>1. k - d \in (i + 1)..(j - 2) /\ (k - d) + d = k  OBVIOUS
    <3>. QED BY <3>1
  <2>5. l \in 1..m /\ l + 1 \in 1..m /\ (l + 1) + d = k + 1  BY <2>4
  <2>6. b[l] = t[l + d] /\ b[l + 1] = t[(l + 1) + d]  BY <1>9, <2>5
  <2>. QED BY <2>3, <2>4, <2>5, <2>6
<1>11. Apart(page, b)  BY <1>6, <1>10 DEF Apart
<1>. QED BY <1>3, <1>11

(* Squeezed and trimmed, a text keeps its tokens, apart as they were.      *)
LEMMA NormalizedKeeps ==
  ASSUME NEW page, NEW t \in Seq(Int)
  PROVE  /\ Normalized(t) \in Seq(Int)
         /\ Without(Normalized(t), Marks) = Without(t, Marks)
         /\ Apart(page, t) => Apart(page, Normalized(t))
<1>1. PICK n \in Nat : n = Len(t)  BY LenProperties
<1>2. PICK g : SqueezeRun(g, t)  BY SqueezeRuns
<1>3. PICK h : PrefixRun(h, t)  BY PrefixRuns
<1>4. /\ g \in [0..n -> Seq(Int)] /\ g[0] = <<>>
      /\ \A k \in 1..n : g[k] = Squeeze(g[k - 1], t[k])
      /\ Normalized(t) = TrimText(g[n])
  BY <1>1, <1>2 DEF SqueezeRun
<1>5. /\ h \in [0..n -> Seq(Int)] /\ h[0] = <<>> /\ h[n] = t
      /\ \A k \in 1..n : Appended(h[k], h[k - 1], t[k])
  BY <1>1, <1>3 DEF PrefixRun
<1>. DEFINE P == {k \in 0..n : Squeezed(page, g[k], h[k])}
<1>6. 0 \in P
  <2>1. Squeezed(page, <<>>, <<>>)  BY DEF Squeezed
  <2>2. 0 \in 0..n  OBVIOUS
  <2>. QED BY <1>4, <1>5, <2>1, <2>2
<1>7. ASSUME NEW k \in 1..n, k - 1 \in P PROVE k \in P
  <2>1. k - 1 \in 0..n /\ k \in 0..n  OBVIOUS
  <2>2. PICK a \in Seq(Int) : a = g[k - 1]  BY <1>4, <2>1
  <2>3. PICK b \in Seq(Int) : b = h[k - 1]  BY <1>5, <2>1
  <2>4. PICK u \in Seq(Int) : u = h[k]  BY <1>5, <2>1
  <2>5. t[k] \in Int  BY <1>1, ElementOfSeq
  <2>6. Squeezed(page, a, b)  BY <1>7, <2>2, <2>3
  <2>7. Appended(u, b, t[k])  BY <1>5, <2>3, <2>4
  <2>8. Squeezed(page, Squeeze(a, t[k]), u)  BY <2>5, <2>6, <2>7, SqueezeKeeps
  <2>. QED BY <1>4, <2>1, <2>2, <2>4, <2>8
<1>. HIDE DEF P
<1>8. \A k \in 0..n : k \in P  BY <1>6, <1>7, BoundedInduction
<1>9. n \in 0..n  OBVIOUS
<1>10. Squeezed(page, g[n], t)  BY <1>5, <1>8, <1>9 DEF P
<1>11. PICK out \in Seq(Int) : out = g[n]  BY <1>4, <1>9
<1>12. Without(out, Marks) = Without(t, Marks)
       /\ (Apart(page, t) => Apart(page, out))
  BY <1>10, <1>11 DEF Squeezed
<1>13. TrimText(out) \in Seq(Int)
       /\ Without(TrimText(out), Marks) = Without(out, Marks)
  BY TrimKeeps
<1>14. Apart(page, out) => Apart(page, TrimText(out))  BY TrimIsApart
<1>. QED BY <1>4, <1>11, <1>12, <1>13, <1>14

-----------------------------------------------------------------------------
(* Confluence: every text of the top level ends with a blank line.         *)

(* A text of marks holds no token.                                         *)
LEMMA MarksAreSealed ==
  ASSUME NEW t \in Seq(Marks)
  PROVE  OpenTokens(t) = {}
<1>1. \A i \in 1..Len(t) : t[i] \in Marks  BY ElementOfSeq
<1>2. OpenPlaces(t) = {}  BY <1>1 DEF OpenPlaces
<1>. QED BY <1>2 DEF OpenTokens

(* Closed texts make a closed text.                                        *)
LEMMA SealedChain ==
  ASSUME NEW x \in Seq(Int), NEW y \in Seq(Int),
         OpenTokens(x) = {}, OpenTokens(y) = {}
  PROVE  OpenTokens(x \o y) = {}
<1>1. PICK n \in Nat : n = Len(x)  BY LenProperties
<1>2. PICK m \in Nat : m = Len(y)  BY LenProperties
<1>3. PICK z \in Seq(Int) : z = x \o y  BY ConcatProperties
<1>4. Len(z) = n + m
      /\ \A i \in 1..(n + m) : z[i] = IF i <= n THEN x[i] ELSE y[i - n]
  <2>1. Chained(z, x, y)  BY <1>3, ConcatIsChained
  <2>. QED BY <1>1, <1>2, <2>1 DEF Chained
<1>5. \A i \in 1..n : x[i] \notin Marks => BlankAfter(x, i)
  BY <1>1 DEF OpenTokens, OpenPlaces
<1>6. \A i \in 1..m : y[i] \notin Marks => BlankAfter(y, i)
  BY <1>2 DEF OpenTokens, OpenPlaces
<1>7. ASSUME NEW i \in 1..(n + m), z[i] \notin Marks
      PROVE  BlankAfter(z, i)
  <2>1. CASE i <= n
    <3>1. i \in 1..n /\ z[i] = x[i]  BY <1>4, <2>1
    <3>2. PICK k \in (i + 1)..(n - 1) :
              x[k] = NewLine /\ x[k + 1] = NewLine
      BY <1>1, <1>5, <1>7, <3>1 DEF BlankAfter
    <3>3. /\ k \in 1..(n + m) /\ k <= n
          /\ k + 1 \in 1..(n + m) /\ k + 1 <= n
          /\ k \in (i + 1)..(Len(z) - 1)
      BY <1>4
    <3>4. z[k] = NewLine /\ z[k + 1] = NewLine  BY <1>4, <3>2, <3>3
    <3>. QED BY <3>3, <3>4 DEF BlankAfter
  <2>2. CASE ~(i <= n)
    <3>1. PICK j \in 1..m : j = i - n
      <4>1. i - n \in 1..m  BY <2>2
      <4>. QED BY <4>1
    <3>2. z[i] = y[j]  BY <1>4, <2>2, <3>1
    <3>3. PICK k \in (j + 1)..(m - 1) :
              y[k] = NewLine /\ y[k + 1] = NewLine
      BY <1>2, <1>6, <1>7, <3>2 DEF BlankAfter
    <3>4. PICK l \in (i + 1)..(n + m - 1) : l = k + n
      <4>1. k + n \in (i + 1)..(n + m - 1)  BY <3>1
      <4>. QED BY <4>1
    <3>5. /\ l \in 1..(n + m) /\ ~(l <= n) /\ l - n = k
          /\ l + 1 \in 1..(n + m) /\ ~(l + 1 <= n) /\ (l + 1) - n = k + 1
      BY <3>4
    <3>6. z[l] = y[k] /\ z[l + 1] = y[k + 1]  BY <1>4, <3>5
    <3>7. l \in (i + 1)..(Len(z) - 1)  BY <1>4
    <3>. QED BY <3>3, <3>6, <3>7 DEF BlankAfter
  <2>. QED BY <2>1, <2>2
<1>8. OpenPlaces(z) = {}  BY <1>4, <1>7 DEF OpenPlaces
<1>. QED BY <1>3, <1>8 DEF OpenTokens

(* However many they are.                                                  *)
LEMMA FlattenSealed ==
  ASSUME NEW ss \in Seq(Seq(Int)),
         \A i \in 1..Len(ss) : OpenTokens(ss[i]) = {}
  PROVE  OpenTokens(FlattenSeq(ss)) = {}
<1>1. PICK n \in Nat : n = Len(ss)  BY LenProperties
<1>2. PICK g : FlattenRun(g, ss, Int)  BY FlattenRuns
<1>3. /\ g \in [0..n -> Seq(Int)] /\ g[0] = <<>>
      /\ \A k \in 1..n : g[k] = g[k - 1] \o ss[k]
      /\ FlattenSeq(ss) = g[n]
  BY <1>1, <1>2 DEF FlattenRun
<1>. DEFINE P == {k \in 0..n : OpenTokens(g[k]) = {}}
<1>4. 0 \in P
  <2>1. <<>> \in Seq(Marks)  BY EmptySeq
  <2>2. OpenTokens(<<>>) = {}  BY <2>1, MarksAreSealed
  <2>. QED BY <1>3, <2>2
<1>5. ASSUME NEW k \in 1..n, k - 1 \in P PROVE k \in P
  <2>1. k - 1 \in 0..n /\ k \in 0..n  OBVIOUS
  <2>2. PICK x \in Seq(Int) : x = g[k - 1]  BY <1>3, <2>1
  <2>3. PICK y \in Seq(Int) : y = ss[k]  BY <1>1, ElementOfSeq
  <2>4. OpenTokens(x) = {} /\ OpenTokens(y) = {}  BY <1>1, <1>5, <2>2, <2>3
  <2>5. OpenTokens(x \o y) = {}  BY <2>4, SealedChain
  <2>6. g[k] = x \o y  BY <1>3, <2>2, <2>3
  <2>. QED BY <2>1, <2>5, <2>6
<1>. HIDE DEF P
<1>6. \A k \in 0..n : k \in P  BY <1>4, <1>5, BoundedInduction
<1>7. n \in 0..n  OBVIOUS
<1>. QED BY <1>3, <1>6, <1>7 DEF P

(* Lines one after another end a line.                                     *)
LEMMA FlattenEndsLine ==
  ASSUME NEW ss \in Seq(Seq(Int)), \A i \in 1..Len(ss) : EndsLine(ss[i])
  PROVE  FlattenSeq(ss) = <<>> \/ EndsLine(FlattenSeq(ss))
<1>1. PICK n \in Nat : n = Len(ss)  BY LenProperties
<1>2. PICK g : FlattenRun(g, ss, Int)  BY FlattenRuns
<1>3. /\ g \in [0..n -> Seq(Int)] /\ g[0] = <<>>
      /\ \A k \in 1..n : g[k] = g[k - 1] \o ss[k]
      /\ FlattenSeq(ss) = g[n]
  BY <1>1, <1>2 DEF FlattenRun
<1>4. CASE n = 0  BY <1>3, <1>4
<1>5. CASE n # 0
  <2>1. n \in 1..n /\ n - 1 \in 0..n  BY <1>5
  <2>2. PICK x \in Seq(Int) : x = g[n - 1]  BY <1>3, <2>1
  <2>3. PICK y \in Seq(Int) : y = ss[n]  BY <1>1, <2>1, ElementOfSeq
  <2>4. EndsLine(y)  BY <1>1, <2>1, <2>3
  <2>5. EndsLine(x \o y)  BY <2>4, MarksEndLine
  <2>6. g[n] = x \o y  BY <1>3, <2>1, <2>2, <2>3
  <2>. QED BY <1>3, <2>5, <2>6
<1>. QED BY <1>4, <1>5

(* The line ends after a block make a blank line.                          *)
LEMMA LineEndsSeal ==
  ASSUME NEW x \in Seq(Int), NEW end \in Seq(Int),
         \/ end = <<NewLine, NewLine>>
         \/ end = <<NewLine>> /\ EndsLine(x)
  PROVE  OpenTokens(x \o end) = {}
<1>1. PICK n \in Nat : n = Len(x)  BY LenProperties
<1>2. PICK z \in Seq(Int) : z = x \o end  BY ConcatProperties
<1>3. PICK m \in Nat : m = Len(end)  BY LenProperties
<1>4. Len(z) = n + m
      /\ \A i \in 1..(n + m) : z[i] = IF i <= n THEN x[i] ELSE end[i - n]
  <2>1. Chained(z, x, end)  BY <1>2, ConcatIsChained
  <2>. QED BY <1>1, <1>3, <2>1 DEF Chained
<1>5. CASE end = <<NewLine, NewLine>>
  <2>1. m = 2 /\ end[1] = NewLine /\ end[2] = NewLine  BY <1>3, <1>5
  <2>2. /\ n + 1 \in 1..(n + m) /\ ~(n + 1 <= n) /\ (n + 1) - n = 1
        /\ n + 2 \in 1..(n + m) /\ ~(n + 2 <= n) /\ (n + 2) - n = 2
    BY <2>1
  <2>3. z[n + 1] = NewLine /\ z[n + 2] = NewLine  BY <1>4, <2>1, <2>2
  <2>4. Len(z) = n + 2 /\ (n + 2) - 1 = n + 1 /\ n + 2 >= 2  BY <1>4, <2>1
  <2>5. EndsBlank(z)  BY <2>3, <2>4 DEF EndsBlank
  <2>. QED BY <1>2, <2>5, BlankSeals
<1>6. CASE end = <<NewLine>> /\ EndsLine(x)
  <2>1. m = 1 /\ end[1] = NewLine  BY <1>3, <1>6
  <2>2. n # 0 /\ x[n] = NewLine  BY <1>1, <1>6 DEF EndsLine
  <2>3. /\ n \in 1..(n + m) /\ n <= n
        /\ n + 1 \in 1..(n + m) /\ ~(n + 1 <= n) /\ (n + 1) - n = 1
    BY <2>1, <2>2
  <2>4. z[n] = NewLine /\ z[n + 1] = NewLine  BY <1>4, <2>1, <2>2, <2>3
  <2>5. Len(z) = n + 1 /\ (n + 1) - 1 = n /\ n + 1 >= 2  BY <1>4, <2>1, <2>2
  <2>6. EndsBlank(z)  BY <2>4, <2>5 DEF EndsBlank
  <2>. QED BY <1>2, <2>6, BlankSeals
<1>. QED BY <1>5, <1>6

(* What hangs on a node that is in no block and is none lies in none.      *)
LEMMA ChildIsOutside ==
  ASSUME NEW page, IsTree(page), NEW c \in 1..Len(page),
         Outside(page, page[c].parent),
         TypeOf(page, page[c].parent) \notin Blocks
  PROVE  Outside(page, c)
<1>1. AncestorsOf(page, Len(page))  BY AncestorsClimb
<1>2. PICK b : b = page[c].parent  OBVIOUS
<1>3. CASE b = 0
  <2>1. Ancestors(page, c) = {}  BY <1>1, <1>2, <1>3 DEF AncestorsOf
  <2>. QED BY <2>1 DEF Outside
<1>4. CASE b # 0
  <2>1. Ancestors(page, c) = {b} \union Ancestors(page, b)
    BY <1>1, <1>2, <1>4 DEF AncestorsOf
  <2>2. page[b].type \notin Blocks  BY <1>2, <1>4 DEF TypeOf
  <2>3. \A a \in Ancestors(page, b) : page[a].type \notin Blocks
    BY <1>2, <1>4 DEF Outside
  <2>. QED BY <2>1, <2>2, <2>3 DEF Outside
<1>. QED BY <1>3, <1>4

(* The row of a table ends a line.                                         *)
LEMMA RowEndsLine ==
  ASSUME NEW page, NEW c \in Nat, TypeOf(page, c) = "tableRow",
         NEW texts \in Seq(Seq(Int))
  PROVE  EndsLine(RenderedText(page, c, texts))
<1>1. PICK ws \in Seq(Seq(Int)) : Filtered(ws, texts, Marks)  BY FilteredExists
<1>2. PICK row \in Seq(Int) :
          row = RenderAtlassianTableRow(page, c, texts) /\ EndsLine(row)
  BY <1>1, RowKeeps
<1>3. "tableRow" \notin Leaves /\ "tableRow" \notin Lists
      /\ "tableRow" \notin Blocks
  BY DEF Leaves, Lists, Blocks, Paragraphs
<1>4. OwnText(page, c, texts) = row  BY <1>2, <1>3, OwnTextIs
<1>5. BlockEnd(TypeOf(page, c)) = <<>>
  <2>1. "tableRow" # "table"  OBVIOUS
  <2>. QED BY <1>3, <2>1, BlockEndIs
<1>6. row \o <<>> = row  BY ConcatEmptySeq
<1>. QED BY <1>2, <1>4, <1>5, <1>6 DEF RenderedText

(* The texts that renderAtlassianNode makes its own text of.               *)
LEMMA NodeHasTexts ==
  ASSUME NEW page, IsTree(page), NEW T, SolvesConfluence(T, page),
         NEW b \in 0..Len(page)
  PROVE  \E texts : TextsUnderNode(texts, T, page, b)
<1>1. PICK n \in Nat : n = Len(page) /\ DOMAIN page = 1..n  BY TreeIsPreorder
<1>2. PICK A : A = Seq(Int)  OBVIOUS
<1>3. PICK N : N = NodesUnder(page, b)  OBVIOUS
<1>4. Children(page, b) \in Seq(N) /\ \A c \in N : c \in 1..n
  BY <1>1, <1>3, ChildrenFollow
<1>5. \A c \in 0..n : T[c] \in A  BY <1>1, <1>2 DEF SolvesConfluence
<1>6. Yields(T, N, A)  BY <1>4, <1>5 DEF Yields
<1>7. PICK s \in Seq(N) : s = Children(page, b)  BY <1>4
<1>8. PICK texts \in Seq(A) : IsMapped(texts, T, s)  BY <1>6, MappedIsSeq
<1>9. T[b] = RenderedText(page, b, texts)
  BY <1>1, <1>7, <1>8 DEF SolvesConfluence, IsMapped
<1>10. TextsUnderNode(texts, T, page, b)
  BY <1>2, <1>3, <1>7, <1>8, <1>9 DEF TextsUnderNode
<1>. QED BY <1>10

(* What holds of the text of each child holds of each of the texts.        *)
LEMMA TextOfChild ==
  ASSUME NEW page, NEW T, NEW b, NEW texts,
         TextsUnderNode(texts, T, page, b), NEW i \in 1..Len(texts)
  PROVE  \E c \in NodesUnder(page, b) : texts[i] = T[c]
<1>1. PICK s \in Seq(NodesUnder(page, b)) :
          Len(texts) = Len(s) /\ \A j \in 1..Len(s) : texts[j] = T[s[j]]
  BY DEF TextsUnderNode, IsMapped
<1>2. s[i] \in NodesUnder(page, b)  BY <1>1, ElementOfSeq
<1>. QED BY <1>1, <1>2

(* The rows of a table make lines.                                         *)
LEMMA TableLines ==
  ASSUME NEW page, IsTree(page), RowsLieInTables(page, "tableRow"),
         NEW T, SolvesConfluence(T, page), NEW b \in 1..Len(page),
         page[b].type = "table", NEW texts, TextsUnderNode(texts, T, page, b)
  PROVE  \A i \in 1..Len(texts) : EndsLine(texts[i])
<1>1. PICK n \in Nat : n = Len(page) /\ DOMAIN page = 1..n  BY TreeIsPreorder
<1>. SUFFICES ASSUME NEW i \in 1..Len(texts) PROVE EndsLine(texts[i])  OBVIOUS
<1>2. PICK c \in NodesUnder(page, b) : texts[i] = T[c]  BY TextOfChild
<1>3. c \in 1..n /\ page[c].parent = b  BY <1>1, <1>2 DEF NodesUnder
<1>4. b # 0 /\ c # 0 /\ c \in Nat /\ c \in 0..n  BY <1>1, <1>3
<1>5. page[c].type = "tableRow"  BY <1>1, <1>3, <1>4 DEF RowsLieInTables
<1>6. PICK inner : TextsUnderNode(inner, T, page, c)
  BY <1>1, <1>4, NodeHasTexts
<1>7. T[c] = RenderedText(page, c, inner) /\ inner \in Seq(Seq(Int))
  BY <1>6 DEF TextsUnderNode
<1>8. TypeOf(page, c) = "tableRow"  BY <1>4, <1>5 DEF TypeOf
<1>9. EndsLine(RenderedText(page, c, inner))  BY <1>4, <1>7, <1>8, RowEndsLine
<1>. QED BY <1>2, <1>7, <1>9

(* A node in no block is a block, which ends with a blank line, or is made *)
(* of closed texts.                                                        *)
LEMMA NodeIsSealed ==
  ASSUME NEW page, IsDocument(page), NEW T, SolvesConfluence(T, page),
         NEW b \in 0..Len(page), Outside(page, b),
         \A c \in NodesUnder(page, b) :
             Outside(page, c) => OpenTokens(T[c]) = {}
  PROVE  OpenTokens(T[b]) = {}
<1>1. /\ IsTree(page) /\ RowsLieInTables(page, "tableRow")
      /\ LeavesHoldNothing(page) /\ TextLiesInBlocks(page)
  BY DEF IsDocument
<1>2. PICK n \in Nat : n = Len(page) /\ DOMAIN page = 1..n
  BY <1>1, TreeIsPreorder
<1>3. PICK texts : TextsUnderNode(texts, T, page, b)  BY <1>1, NodeHasTexts
<1>4. PICK type : type = TypeOf(page, b)  OBVIOUS
<1>5. texts \in Seq(Seq(Int))  BY <1>3 DEF TextsUnderNode
<1>6. PICK own \in Seq(Int) : own = OwnText(page, b, texts)
  <2>1. PICK ws \in Seq(Seq(Int)) : Filtered(ws, texts, Marks)
    BY <1>5, FilteredExists
  <2>2. b \in Nat  BY <1>2
  <2>3. OwnText(page, b, texts) \in Seq(Int)  BY <1>5, <2>1, <2>2, OwnKeeps
  <2>. QED BY <2>3
<1>7. PICK end \in Seq(Marks) : end = BlockEnd(type)  BY BlockEndIs
<1>8. end \in Seq(Int)  BY <1>7, MarksAreInts, SeqMonotonic
<1>9. T[b] = own \o end
  BY <1>3, <1>4, <1>6, <1>7 DEF TextsUnderNode, RenderedText
<1>10. "doc" \notin Blocks \union Leaves /\ "table" \in Blocks
  BY DEF Blocks, Paragraphs, Lists, Leaves
<1>11. type # "doc" => b \in 1..n /\ page[b].type = type
  BY <1>2, <1>4 DEF TypeOf
<1>12. own \o <<>> = own  BY ConcatEmptySeq
<1>13. CASE type \in Blocks \ {"table"}
  <2>1. end = <<NewLine, NewLine>>  BY <1>7, <1>13, BlockEndIs
  <2>2. OpenTokens(own \o end) = {}  BY <1>8, <2>1, LineEndsSeal
  <2>. QED BY <1>9, <2>2
<1>14. CASE type = "table"
  <2>1. b \in 1..n /\ page[b].type = "table"  BY <1>11, <1>14
  <2>2. \A i \in 1..Len(texts) : EndsLine(texts[i])
    BY <1>1, <1>2, <1>3, <2>1, TableLines
  <2>3. "table" \notin Leaves /\ "table" \notin Lists  BY DEF Leaves, Lists
  <2>4. own = FlattenSeq(texts)
    <3>1. "table" # "hardBreak" /\ "table" # "blockquote"
          /\ "table" # "tableRow"
      OBVIOUS
    <3>. QED BY <1>4, <1>6, <1>14, <2>3, <3>1, OwnTextIs
  <2>5. own = <<>> \/ EndsLine(own)  BY <1>5, <2>2, <2>4, FlattenEndsLine
  <2>6. end = <<NewLine>>  BY <1>7, <1>14, BlockEndIs
  <2>7. CASE own = <<>>
    <3>1. <<>> \o end = end  BY <1>8, ConcatEmptySeq
    <3>. QED BY <1>7, <1>9, <2>7, <3>1, MarksAreSealed
  <2>8. CASE EndsLine(own)
    <3>1. OpenTokens(own \o end) = {}  BY <1>8, <2>6, <2>8, LineEndsSeal
    <3>. QED BY <1>9, <3>1
  <2>. QED BY <2>5, <2>7, <2>8
<1>15. CASE type \notin Blocks /\ type \in Leaves
  <2>1. b \in 1..n /\ page[b].type = type /\ b # 0
    BY <1>2, <1>10, <1>11, <1>15
  <2>2. \E a \in Ancestors(page, b) : page[a].type \in Blocks
    BY <1>1, <1>2, <1>15, <2>1 DEF TextLiesInBlocks
  <2>. QED BY <2>1, <2>2 DEF Outside
<1>16. CASE type \notin Blocks /\ type = "hardBreak"
  <2>1. "hardBreak" \notin Leaves  BY DEF Leaves
  <2>2. own = <<NewLine>>  BY <1>4, <1>6, <1>16, <2>1, OwnTextIs
  <2>3. NewLine \in Marks  BY MarksAreInts
  <2>4. <<NewLine>> \in Seq(Marks)  BY <2>3
  <2>5. end = <<>>  BY <1>7, <1>10, <1>16, BlockEndIs
  <2>6. T[b] = own  BY <1>9, <1>12, <2>5
  <2>. QED BY <2>2, <2>4, <2>6, MarksAreSealed
<1>17. CASE type \notin Blocks /\ type = "tableRow"
  <2>1. b \in 1..n /\ page[b].type = "tableRow" /\ b # 0  BY <1>2, <1>11, <1>17
  <2>2. page[b].parent # 0 /\ page[page[b].parent].type = "table"
    BY <1>1, <1>2, <2>1 DEF RowsLieInTables
  <2>3. AncestorsOf(page, Len(page))  BY <1>1, AncestorsClimb
  <2>4. page[b].parent \in Ancestors(page, b)
    BY <1>2, <2>1, <2>2, <2>3 DEF AncestorsOf
  <2>. QED BY <1>10, <2>1, <2>2, <2>4 DEF Outside
<1>18. CASE /\ type \notin Blocks /\ type \notin Leaves
            /\ type # "hardBreak" /\ type # "tableRow"
  <2>1. type \notin Lists /\ type # "blockquote" /\ type # "table"
    BY <1>18 DEF Blocks
  <2>2. own = FlattenSeq(texts)  BY <1>4, <1>6, <1>18, <2>1, OwnTextIs
  <2>3. ASSUME NEW i \in 1..Len(texts) PROVE OpenTokens(texts[i]) = {}
    <3>1. PICK c \in NodesUnder(page, b) : texts[i] = T[c]
      BY <1>3, TextOfChild
    <3>2. c \in 1..n /\ page[c].parent = b  BY <1>2, <3>1 DEF NodesUnder
    <3>3. Outside(page, c)  BY <1>1, <1>2, <1>4, <1>18, <3>2, ChildIsOutside
    <3>. QED BY <3>1, <3>3
  <2>4. OpenTokens(own) = {}  BY <1>5, <2>2, <2>3, FlattenSealed
  <2>5. end = <<>>  BY <1>7, <1>18, <2>1, BlockEndIs
  <2>6. T[b] = own  BY <1>9, <1>12, <2>5
  <2>. QED BY <2>4, <2>6
<1>. QED BY <1>13, <1>14, <1>15, <1>16, <1>17, <1>18

(* So every node that lies in no block is closed, from the last node up.   *)
LEMMA OutsideIsSealed ==
  ASSUME NEW page, IsDocument(page), NEW T, SolvesConfluence(T, page)
  PROVE  \A b \in 0..Len(page) : Outside(page, b) => OpenTokens(T[b]) = {}
<1>1. PICK n \in Nat : n = Len(page) /\ DOMAIN page = 1..n
  BY TreeIsPreorder DEF IsDocument
<1>. DEFINE P == {b \in 0..n : Outside(page, b) => OpenTokens(T[b]) = {}}
<1>2. ASSUME NEW b \in 0..n, \A c \in 0..n : b < c => c \in P
      PROVE  b \in P
  <2>. SUFFICES ASSUME Outside(page, b) PROVE OpenTokens(T[b]) = {}  OBVIOUS
  <2>1. \A c \in NodesUnder(page, b) : c \in 1..n /\ b < c
    BY <1>1, ChildrenFollow DEF IsDocument
  <2>2. \A c \in NodesUnder(page, b) :
            Outside(page, c) => OpenTokens(T[c]) = {}
    <3>1. \A c \in 1..n : c \in 0..n  OBVIOUS
    <3>. QED BY <1>2, <2>1, <3>1
  <2>. QED BY <1>1, <2>2, NodeIsSealed
<1>. HIDE DEF P
<1>3. \A b \in 0..n : b \in P  BY <1>2, DownwardInduction
<1>. QED BY <1>1, <1>3 DEF P

-----------------------------------------------------------------------------
(* Confluence: a block of the top level keeps its tokens together.         *)

(* A node lies in the top block of its parent.                             *)
LEMMA TopBlockOfChild ==
  ASSUME NEW page, IsTree(page), NEW c \in 1..Len(page),
         page[c].parent # 0
  PROVE  TopBlock(page, c) = TopBlock(page, page[c].parent)
<1>1. AncestorsOf(page, Len(page))  BY AncestorsClimb
<1>2. PICK b : b = page[c].parent  OBVIOUS
<1>3. Ancestors(page, c) = {b} \union Ancestors(page, b)
  BY <1>1, <1>2 DEF AncestorsOf
<1>4. PICK C : C = Ancestors(page, c) \union {c}  OBVIOUS
<1>5. PICK B : B = Ancestors(page, b) \union {b}  OBVIOUS
<1>6. C = B \union {c}  BY <1>3, <1>4, <1>5
<1>7. \A a : (a \in C /\ page[a].parent = 0)
                 <=> (a \in B /\ page[a].parent = 0)
  BY <1>6
<1>8. (CHOOSE a : a \in C /\ page[a].parent = 0)
          = CHOOSE a : a \in B /\ page[a].parent = 0
  BY <1>7
<1>9. TopBlock(page, c) = CHOOSE a : a \in C /\ page[a].parent = 0
  BY <1>4 DEF TopBlock
<1>10. TopBlock(page, b) = CHOOSE a : a \in B /\ page[a].parent = 0
  BY <1>5 DEF TopBlock
<1>. QED BY <1>2, <1>8, <1>9, <1>10

(* A text's tokens are those that are left without marks.                  *)
LEMMA TokensAreKept ==
  ASSUME NEW t \in Seq(Int), NEW L, Without(t, Marks) \in Seq(L)
  PROVE  \A i \in 1..Len(t) : t[i] \notin Marks => t[i] \in L
<1>1. PICK n \in Nat : n = Len(t)  BY LenProperties
<1>2. PICK h : PrefixRun(h, t)  BY PrefixRuns
<1>3. /\ h \in [0..n -> Seq(Int)] /\ h[0] = <<>> /\ h[n] = t
      /\ \A k \in 1..n : Appended(h[k], h[k - 1], t[k])
  BY <1>1, <1>2 DEF PrefixRun
<1>. DEFINE Holds(k, i) ==
                \E j \in 1..Len(Without(h[k], Marks)) :
                    Without(h[k], Marks)[j] = t[i]
            P == {k \in 0..n : \A i \in 1..k : t[i] \notin Marks => Holds(k, i)}
<1>4. 0 \in P  OBVIOUS
<1>5. ASSUME NEW k \in 1..n, k - 1 \in P PROVE k \in P
  <2>1. k - 1 \in 0..n /\ k \in 0..n  OBVIOUS
  <2>2. PICK a \in Seq(Int) : a = h[k - 1]  BY <1>3, <2>1
  <2>3. PICK u \in Seq(Int) : u = h[k]  BY <1>3, <2>1
  <2>4. PICK x \in Int : x = t[k]  BY <1>1, ElementOfSeq
  <2>5. Appended(u, a, x)  BY <1>3, <2>2, <2>3, <2>4
  <2>6. PICK w \in Seq(Int) : w = Without(a, Marks)  BY WithoutIsSeq
  <2>7. PICK v \in Seq(Int) : v = Without(u, Marks)  BY WithoutIsSeq
  <2>8. /\ x \in Marks => v = w
        /\ x \notin Marks => v = Append(w, x)
    BY <2>5, <2>6, <2>7, AppendKeeps
  <2>9. PICK m \in Nat : m = Len(w)  BY LenProperties
  <2>10. ASSUME NEW i \in 1..(k - 1), t[i] \notin Marks
         PROVE  \E j \in 1..m : w[j] = t[i]
    BY <1>5, <2>2, <2>6, <2>9, <2>10
  <2>11. ASSUME NEW i \in 1..k, t[i] \notin Marks
         PROVE  \E j \in 1..Len(v) : v[j] = t[i]
    <3>1. CASE x \in Marks
      <4>1. i # k  BY <2>4, <2>11, <3>1
      <4>2. i \in 1..(k - 1)  BY <4>1
      <4>. QED BY <2>8, <2>9, <2>10, <2>11, <3>1, <4>2
    <3>2. CASE x \notin Marks
      <4>1. PICK z \in Seq(Int) : z = Append(w, x) /\ Appended(z, w, x)
        BY AppendIs
      <4>2. /\ Len(v) = m + 1 /\ v[m + 1] = x
            /\ \A j \in 1..m : v[j] = w[j]
        BY <2>8, <2>9, <3>2, <4>1 DEF Appended
      <4>3. CASE i = k
        <5>1. m + 1 \in 1..(m + 1)  OBVIOUS
        <5>. QED BY <2>4, <4>2, <4>3, <5>1
      <4>4. CASE i # k
        <5>1. i \in 1..(k - 1)  BY <4>4
        <5>2. PICK j \in 1..m : w[j] = t[i]  BY <2>10, <2>11, <5>1
        <5>3. j \in 1..(m + 1)  OBVIOUS
        <5>. QED BY <4>2, <5>2, <5>3
      <4>. QED BY <4>3, <4>4
    <3>. QED BY <3>1, <3>2
  <2>. QED BY <2>1, <2>3, <2>7, <2>11
<1>6. \A k \in 0..n : k \in P
  <2>. HIDE DEF P
  <2>. QED BY <1>4, <1>5, BoundedInduction
<1>7. n \in 0..n  OBVIOUS
<1>8. PICK w \in Seq(L) : w = Without(t, Marks)  OBVIOUS
<1>9. \A i \in 1..n : t[i] \notin Marks => \E j \in 1..Len(w) : w[j] = t[i]
  BY <1>3, <1>6, <1>7, <1>8
<1>10. \A j \in 1..Len(w) : w[j] \in L  BY ElementOfSeq
<1>. QED BY <1>1, <1>9, <1>10

(* The tokens of a node of a block are of that block.                      *)
LEMMA TokensLieTogether ==
  ASSUME NEW page, IsTree(page), NEW W, SolvesTokens(W, page)
  PROVE  \A b \in 1..Len(page) : W[b] \in Seq(SameBlock(page, b))
<1>1. PICK n \in Nat : n = Len(page) /\ DOMAIN page = 1..n  BY TreeIsPreorder
<1>. DEFINE P == {b \in 0..n : b # 0 => W[b] \in Seq(SameBlock(page, b))}
<1>2. ASSUME NEW b \in 0..n, \A c \in 0..n : b < c => c \in P
      PROVE  b \in P
  <2>. SUFFICES ASSUME b # 0 PROVE W[b] \in Seq(SameBlock(page, b))  OBVIOUS
  <2>1. PICK L : L = SameBlock(page, b)  OBVIOUS
  <2>2. b \in L  BY <1>1, <2>1 DEF SameBlock
  <2>3. PICK N : N = NodesUnder(page, b)  OBVIOUS
  <2>4. Children(page, b) \in Seq(N) /\ \A c \in N : c \in 1..n /\ b < c
    BY <1>1, <2>3, ChildrenFollow
  <2>5. ASSUME NEW c \in N PROVE W[c] \in Seq(L)
    <3>1. c \in 1..n /\ page[c].parent = b /\ c # 0 /\ c \in 0..n
      BY <1>1, <2>3, <2>4, <2>5 DEF NodesUnder
    <3>2. W[c] \in Seq(SameBlock(page, c))  BY <1>2, <2>4, <3>1
    <3>3. TopBlock(page, c) = TopBlock(page, b)  BY <1>1, <3>1, TopBlockOfChild
    <3>4. SameBlock(page, c) = L  BY <2>1, <3>3 DEF SameBlock
    <3>. QED BY <3>2, <3>4
  <2>6. PICK A : A = Seq(L)  OBVIOUS
  <2>7. Yields(W, N, A)  BY <2>5, <2>6 DEF Yields
  <2>8. PICK s \in Seq(N) : s = Children(page, b)  BY <2>4
  <2>9. PICK ws \in Seq(A) : IsMapped(ws, W, s)  BY <2>7, MappedIsSeq
  <2>10. FlattenSeq(ws) \in Seq(L)  BY <2>6, FlattenIsSequence
  <2>11. <<b>> \in Seq(L) /\ <<>> \in Seq(L)  BY <2>2, EmptySeq
  <2>12. W[b] = NodeTokens(page, b, ws)
    BY <1>1, <2>8, <2>9 DEF SolvesTokens, IsMapped
  <2>. QED BY <2>1, <2>10, <2>11, <2>12 DEF NodeTokens
<1>. HIDE DEF P
<1>3. \A b \in 0..n : b \in P  BY <1>2, DownwardInduction
<1>4. \A b \in 1..n : b \in 0..n /\ b # 0  OBVIOUS
<1>. QED BY <1>1, <1>3, <1>4 DEF P

(* Apart from what follows it, a text stays apart within.                  *)
LEMMA ApartChain ==
  ASSUME NEW page, NEW x \in Seq(Int), NEW y \in Seq(Int),
         Apart(page, x), OpenTokens(x) = {}, NEW top,
         \A i \in 1..Len(y) : y[i] \notin Marks => TopBlock(page, y[i]) = top
  PROVE  Apart(page, x \o y)
<1>1. PICK n \in Nat : n = Len(x)  BY LenProperties
<1>2. PICK m \in Nat : m = Len(y)  BY LenProperties
<1>3. PICK z \in Seq(Int) : z = x \o y  BY ConcatProperties
<1>4. Len(z) = n + m
      /\ \A i \in 1..(n + m) : z[i] = IF i <= n THEN x[i] ELSE y[i - n]
  <2>1. Chained(z, x, y)  BY <1>3, ConcatIsChained
  <2>. QED BY <1>1, <1>2, <2>1 DEF Chained
<1>5. ASSUME NEW i \in 1..(n + m), NEW j \in 1..(n + m),
             z[i] \notin Marks, z[j] \notin Marks, i < j
      PROVE  ApartAt(page, z, i, j)
  <2>1. CASE j <= n
    <3>1. i \in 1..n /\ j \in 1..n /\ i <= n  BY <1>5, <2>1
    <3>2. z[i] = x[i] /\ z[j] = x[j]  BY <1>4, <2>1, <3>1
    <3>3. ApartAt(page, x, i, j)  BY <1>1, <1>5, <3>1, <3>2 DEF Apart
    <3>4. \A k \in (i + 1)..(j - 2) :
              /\ k \in 1..(n + m) /\ k <= n
              /\ k + 1 \in 1..(n + m) /\ k + 1 <= n
      BY <2>1
    <3>5. \A k \in (i + 1)..(j - 2) : z[k] = x[k] /\ z[k + 1] = x[k + 1]
      BY <1>4, <3>4
    <3>. QED BY <3>2, <3>3, <3>5 DEF ApartAt
  <2>2. CASE i <= n /\ ~(j <= n)
    <3>1. i \in 1..n /\ z[i] = x[i]  BY <1>4, <2>2
    <3>2. BlankAfter(x, i)  BY <1>1, <1>5, <3>1 DEF OpenTokens, OpenPlaces
    <3>3. PICK k \in (i + 1)..(n - 1) :
              x[k] = NewLine /\ x[k + 1] = NewLine
      BY <1>1, <3>2 DEF BlankAfter
    <3>4. /\ k \in 1..(n + m) /\ k <= n
          /\ k + 1 \in 1..(n + m) /\ k + 1 <= n
          /\ k \in (i + 1)..(j - 2)
      BY <2>2
    <3>5. z[k] = NewLine /\ z[k + 1] = NewLine  BY <1>4, <3>3, <3>4
    <3>. QED BY <3>4, <3>5 DEF ApartAt
  <2>3. CASE ~(i <= n)
    <3>1. ~(j <= n) /\ i - n \in 1..m /\ j - n \in 1..m  BY <1>5, <2>3
    <3>2. z[i] = y[i - n] /\ z[j] = y[j - n]  BY <1>4, <2>3, <3>1
    <3>3. TopBlock(page, z[i]) = top  BY <1>2, <1>5, <3>1, <3>2
    <3>4. TopBlock(page, z[j]) = top  BY <1>2, <1>5, <3>1, <3>2
    <3>. QED BY <3>3, <3>4 DEF ApartAt
  <2>. QED BY <2>1, <2>2, <2>3
<1>6. Apart(page, z)  BY <1>4, <1>5 DEF Apart
<1>. QED BY <1>3, <1>6

(* The children of the document come one after the other, each closed      *)
(* before the next begins.                                                 *)
LEMMA DocumentIsApart ==
  ASSUME NEW page, IsDocument(page), NEW T, SolvesConfluence(T, page)
  PROVE  Apart(page, T[0])
<1>1. IsTree(page)  BY DEF IsDocument
<1>2. PICK n \in Nat : n = Len(page) /\ DOMAIN page = 1..n
  BY <1>1, TreeIsPreorder
<1>3. PICK W : W = TreeTokens(T, page)  OBVIOUS
<1>4. SolvesTokens(W, page)  BY <1>1, <1>3, TokensSolve DEF SolvesTokens
<1>5. \A b \in 1..n : W[b] = Without(T[b], Marks)
  <2>1. \A b \in 1..n : b \in 0..n  OBVIOUS
  <2>. QED BY <1>2, <1>3, <2>1 DEF TreeTokens
<1>6. 0 \in 0..n  OBVIOUS
<1>7. PICK texts : TextsUnderNode(texts, T, page, 0)
  BY <1>1, <1>2, <1>6, NodeHasTexts
<1>8. texts \in Seq(Seq(Int))  BY <1>7 DEF TextsUnderNode
<1>9. T[0] = FlattenSeq(texts)
  <2>1. TypeOf(page, 0) = "doc"  BY DEF TypeOf
  <2>2. "doc" \notin Leaves /\ "doc" \notin Lists /\ "doc" \notin Blocks
    BY DEF Leaves, Lists, Blocks, Paragraphs
  <2>3. "doc" # "hardBreak" /\ "doc" # "blockquote"
        /\ "doc" # "tableRow" /\ "doc" # "table"
    OBVIOUS
  <2>4. OwnText(page, 0, texts) = FlattenSeq(texts)
    BY <2>1, <2>2, <2>3, OwnTextIs
  <2>5. BlockEnd("doc") = <<>>  BY <2>2, <2>3, BlockEndIs
  <2>6. PICK x \in Seq(Int) : x = FlattenSeq(texts)  BY <1>8, FlattenIsSequence
  <2>7. x \o <<>> = x  BY ConcatEmptySeq
  <2>. QED BY <1>7, <2>1, <2>4, <2>5, <2>6, <2>7
           DEF TextsUnderNode, RenderedText
<1>10. ASSUME NEW i \in 1..Len(texts)
      PROVE  /\ OpenTokens(texts[i]) = {}
             /\ \E top : \A k \in 1..Len(texts[i]) :
                    texts[i][k] \notin Marks =>
                        TopBlock(page, texts[i][k]) = top
  <2>1. PICK c \in NodesUnder(page, 0) : texts[i] = T[c]  BY <1>7, TextOfChild
  <2>2. c \in 1..n /\ page[c].parent = 0 /\ c \in 0..n
    BY <1>2, <2>1 DEF NodesUnder
  <2>3. AncestorsOf(page, Len(page))  BY <1>1, AncestorsClimb
  <2>4. Outside(page, c)  BY <1>2, <2>2, <2>3 DEF AncestorsOf, Outside
  <2>5. OpenTokens(T[c]) = {}  BY <1>2, <2>2, <2>4, OutsideIsSealed
  <2>6. PICK t \in Seq(Int) : t = T[c]  BY <1>2, <2>2 DEF SolvesConfluence
  <2>7. Without(t, Marks) \in Seq(SameBlock(page, c))
    BY <1>1, <1>2, <1>4, <1>5, <2>2, <2>6, TokensLieTogether
  <2>8. \A k \in 1..Len(t) : t[k] \notin Marks => t[k] \in SameBlock(page, c)
    BY <2>7, TokensAreKept
  <2>9. \A k \in 1..Len(t) :
            t[k] \notin Marks => TopBlock(page, t[k]) = TopBlock(page, c)
    BY <2>8 DEF SameBlock
  <2>. QED BY <2>1, <2>5, <2>6, <2>9
<1>11. PICK m \in Nat : m = Len(texts)  BY <1>8, LenProperties
<1>12. PICK g : FlattenRun(g, texts, Int)  BY <1>8, FlattenRuns
<1>13. /\ g \in [0..m -> Seq(Int)] /\ g[0] = <<>>
       /\ \A k \in 1..m : g[k] = g[k - 1] \o texts[k]
       /\ FlattenSeq(texts) = g[m]
  BY <1>11, <1>12 DEF FlattenRun
<1>. DEFINE P == {k \in 0..m : Apart(page, g[k]) /\ OpenTokens(g[k]) = {}}
<1>14. 0 \in P
  <2>1. <<>> \in Seq(Marks)  BY EmptySeq
  <2>2. OpenTokens(<<>>) = {}  BY <2>1, MarksAreSealed
  <2>3. Apart(page, <<>>)  BY DEF Apart
  <2>. QED BY <1>13, <2>2, <2>3
<1>15. ASSUME NEW k \in 1..m, k - 1 \in P PROVE k \in P
  <2>1. k - 1 \in 0..m /\ k \in 0..m  OBVIOUS
  <2>2. PICK x \in Seq(Int) : x = g[k - 1]  BY <1>13, <2>1
  <2>3. PICK y \in Seq(Int) : y = texts[k]  BY <1>8, <1>11, ElementOfSeq
  <2>4. Apart(page, x) /\ OpenTokens(x) = {}  BY <1>15, <2>2
  <2>5. OpenTokens(y) = {}  BY <1>10, <1>11, <2>3
  <2>6. PICK top : \A i \in 1..Len(y) :
                       y[i] \notin Marks => TopBlock(page, y[i]) = top
    BY <1>10, <1>11, <2>3
  <2>7. Apart(page, x \o y)  BY <2>4, <2>6, ApartChain
  <2>8. OpenTokens(x \o y) = {}  BY <2>4, <2>5, SealedChain
  <2>9. g[k] = x \o y  BY <1>13, <2>2, <2>3
  <2>. QED BY <2>1, <2>7, <2>8, <2>9
<1>. HIDE DEF P
<1>16. \A k \in 0..m : k \in P  BY <1>14, <1>15, BoundedInduction
<1>17. m \in 0..m  OBVIOUS
<1>. QED BY <1>9, <1>13, <1>16, <1>17 DEF P

(* The rendered document is in order, whatever its blocks; and its blocks  *)
(* are apart where every text lies in one that ends with a blank line.     *)
LEMMA ConfluenceRenderingIsComplete ==
  ASSUME NEW page, IsTree(page), RowsLieInTables(page, "tableRow"),
         LeavesHoldNothing(page)
  PROVE  /\ EveryTextInOrder(page, Normalized(RenderAtlassianNode(page)))
         /\ TextLiesInBlocks(page) =>
                ConfluenceTextIsComplete(page,
                                         Normalized(RenderAtlassianNode(page)))
<1>1. PICK T : SolvesConfluence(T, page) /\ RenderAtlassianNode(page) = T[0]
  BY ConfluenceSolves
<1>2. PICK t \in Seq(Int) : t = T[0]
  <2>1. PICK n \in Nat : n = Len(page)  BY TreeIsPreorder
  <2>2. 0 \in 0..n  OBVIOUS
  <2>. QED BY <1>1, <2>1, <2>2 DEF SolvesConfluence
<1>3. EveryTextInOrder(page, t)  BY <1>1, <1>2, DocumentTokens
<1>4. PICK u \in Seq(Int) : /\ u = Normalized(t)
                            /\ Without(u, Marks) = Without(t, Marks)
                            /\ Apart(page, t) => Apart(page, u)
  BY NormalizedKeeps
<1>5. EveryTextInOrder(page, u)  BY <1>3, <1>4 DEF EveryTextInOrder
<1>6. ASSUME TextLiesInBlocks(page) PROVE ConfluenceTextIsComplete(page, u)
  <2>1. IsDocument(page)  BY <1>6 DEF IsDocument
  <2>2. Apart(page, t)  BY <1>1, <1>2, <2>1, DocumentIsApart
  <2>3. BlocksAreApart(page, u)  BY <1>4, <2>2, ApartIs
  <2>. QED BY <1>5, <2>3 DEF ConfluenceTextIsComplete
<1>. QED BY <1>1, <1>2, <1>4, <1>5, <1>6

-----------------------------------------------------------------------------
(* A fetched page, as the pass holds it until it is chunked.               *)
Rendered ==
    phase = "chunk" =>
        /\ provider = "notion" => NotionTextIsComplete(doc.page, doc.body)
        /\ provider = "confluence" =>
               /\ doc.page \in ConfluencePages
               /\ EveryTextInOrder(doc.page, doc.body)
               /\ TextLiesInBlocks(doc.page) =>
                      ConfluenceTextIsComplete(doc.page, doc.body)

(* fetchDocumentById renders all of a page.                                *)
LEMMA FetchRenders ==
  ASSUME Fetch
  PROVE  Rendered'
<1>1. provider' = provider  BY DEF Fetch, FetchDocument, given
<1>2. ASSUME provider = "notion",
             NEW page \in NotionPages, FetchDocument(FetchNotion(page))
      PROVE  Rendered'
  <2>1. IsTree(page) /\ RowsLieInTables(page, "table_row")  BY PagesAssumption
  <2>2. NotionTextIsComplete(page, FetchNotionBlockContents(page))
    BY <2>1, NotionRenderingIsComplete
  <2>3. doc'.page = page /\ doc'.body = FetchNotionBlockContents(page)
    BY <1>2 DEF FetchDocument, FetchNotion, NoDoc
  <2>4. provider' # "confluence"  BY <1>1, <1>2
  <2>. QED BY <2>2, <2>3, <2>4 DEF Rendered
<1>3. ASSUME provider = "confluence",
             NEW page \in ConfluencePages, FetchDocument(FetchConfluence(page))
      PROVE  Rendered'
  <2>1. /\ IsTree(page) /\ RowsLieInTables(page, "tableRow")
        /\ LeavesHoldNothing(page)
    BY PagesAssumption
  <2>2. PICK body : body = Normalized(RenderAtlassianNode(page))  OBVIOUS
  <2>3. /\ EveryTextInOrder(page, body)
        /\ TextLiesInBlocks(page) => ConfluenceTextIsComplete(page, body)
    BY <2>1, <2>2, ConfluenceRenderingIsComplete
  <2>4. doc'.page = page /\ doc'.body = body
    BY <1>3, <2>2 DEF FetchDocument, FetchConfluence, NoDoc
  <2>5. provider' # "notion"  BY <1>1, <1>3
  <2>. QED BY <2>3, <2>4, <2>5 DEF Rendered
<1>4. CASE provider = "upload"
  <2>1. provider' # "notion" /\ provider' # "confluence"  BY <1>1, <1>4
  <2>. QED BY <2>1 DEF Rendered
<1>. QED BY <1>2, <1>3, <1>4 DEF Fetch

(* Until it is chunked, no step touches it.                                *)
LEMMA StepRendered == Rendered /\ [Next]_vars => Rendered'
<1>. SUFFICES ASSUME Rendered, [Next]_vars PROVE Rendered'  OBVIOUS
<1>1. CASE phase' # "chunk"  BY <1>1 DEF Rendered
<1>2. CASE UNCHANGED <<provider, phase, doc>>  BY <1>2 DEF Rendered
<1>3. CASE doc' = doc /\ phase' \notin {"chunk", "embed", "store"}
  BY <1>1, <1>3
<1>4. CASE Fetch  BY <1>4, FetchRenders
<1>5. CASE ChunkDocument  BY <1>1, <1>5 DEF ChunkDocument
<1>6. ASSUME NEW order \in Orders, EmbedBatch(order) PROVE Rendered'
  <2>1. phase' # "chunk"  BY <1>6 DEF EmbedBatch
  <2>. QED BY <1>1, <2>1
<1>7. CASE FailEmbedding  BY <1>1, <1>7 DEF FailEmbedding
<1>8. CASE AlignRows  BY <1>1, <1>8 DEF AlignRows
<1>9. CASE StoreDocument
  <2>1. phase' # "chunk"  BY <1>9 DEF StoreDocument, NextPhase
  <2>. QED BY <1>1, <2>1
<1>. QED BY <1>2, <1>3, <1>4, <1>5, <1>6, <1>7, <1>8, <1>9, DocumentSteps

(* Nothing is fetched at first.                                            *)
LEMMA InitRendered == Init => Rendered
BY DEF Init, Rendered

(* Every text of a page is in the body once, in document order: of every   *)
(* Notion page, under the prefixes and the delimiter rows that are its     *)
(* due, however its blocks were paged, and of every Confluence page,       *)
(* whatever its nodes are.                                                 *)
THEOREM EveryTextIsRendered ==
  Spec => [](phase = "chunk" =>
                 /\ provider = "notion" =>
                        NotionTextIsComplete(doc.page, doc.body)
                 /\ provider = "confluence" =>
                        EveryTextInOrder(doc.page, doc.body))
<1>1. Rendered =>
          (phase = "chunk" =>
               /\ provider = "notion" =>
                      NotionTextIsComplete(doc.page, doc.body)
               /\ provider = "confluence" =>
                      EveryTextInOrder(doc.page, doc.body))
  BY DEF Rendered
<1>. QED BY <1>1, InitRendered, StepRendered, PTL DEF Spec

(* Besides, a blank line keeps the blocks of a Confluence page apart, when *)
(* every text lies in a block that renderAtlassianNode ends with one.  It  *)
(* holds of every such page, however deep.                                 *)
THEOREM RenderingAlwaysKeepsText ==
  ASSUME \A page \in ConfluencePages : TextLiesInBlocks(page)
  PROVE  Spec => []RenderingKeepsText
<1>1. Rendered => RenderingKeepsText  BY DEF Rendered, RenderingKeepsText
<1>. QED BY <1>1, InitRendered, StepRendered, PTL DEF Spec

=============================================================================
