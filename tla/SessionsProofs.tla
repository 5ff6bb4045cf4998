--------------------------- MODULE SessionsProofs ---------------------------
(***************************************************************************)
(* What the guard, the sign-in and the tokens hold for any number of       *)
(* people, workspaces, browsers and requests in flight.                    *)
(***************************************************************************)
EXTENDS Sessions, SequenceTheorems, TLAPS

-----------------------------------------------------------------------------
(* The types of the rows and of a request.                                 *)
SignIn == [browser: Browsers, exchanged: BOOLEAN]

Session == [person: People, active: Workspaces \cup {None}, state: Rows,
            signIn: Nat]

Token == [person: People, workspace: Workspaces, state: Rows, used: BOOLEAN]

Cookies == [session: Nat, state: Nat]

BrowserKinds == {"read", "mint", "revoke", "signout", "select", "create",
                 "join", "leave"}

WorkspaceKinds == {"select", "create", "join", "leave"}

Request == [phase: Phases, kind: BrowserKinds \cup {"none", "signin", "call"},
            browser: Browsers \cup {None}, credential: Nat,
            person: People \cup {None}, workspace: Workspaces \cup {None},
            active: Workspaces \cup {None}, live: BOOLEAN,
            mine: SUBSET Workspaces]

TypeInv ==
    /\ stage \in [Workspaces -> {"unborn", "open", "deleted"}]
    /\ joined \in [People -> Seq(Workspaces)]
    /\ begun \in Nat /\ mishaps \in Nat
    /\ signIns \in Seq(SignIn)
    /\ sessions \in Seq(Session)
    /\ tokens \in Seq(Token)
    /\ browser \in [Browsers -> Cookies]
    /\ request \in [Requests -> Request]

-----------------------------------------------------------------------------
(* The inductive invariant.  What the rows say of each other: a person is  *)
(* in a workspace once, and only in open ones; a session reads an open     *)
(* workspace and belongs to a sign-in; a valid token belongs to a          *)
(* membership.                                                             *)
MembershipsHold ==
    \A p \in People : /\ IsInjective(joined[p])
                      /\ \A w \in ToSet(joined[p]) : stage[w] = "open"

SessionsHold ==
    \A i \in DOMAIN sessions :
        /\ sessions[i].active # None => stage[sessions[i].active] = "open"
        /\ sessions[i].signIn \in DOMAIN signIns

TokensHold ==
    \A t \in DOMAIN tokens :
        tokens[t].state = "live" => IsMember(tokens[t].person, tokens[t].workspace)

(* A cookie was set by an answer to a sign-in of the same browser.         *)
SignedInBy(i, b) ==
    i \in DOMAIN sessions /\ signIns[sessions[i].signIn].browser = b

StartedBy(s, b) == s \in DOMAIN signIns /\ signIns[s].browser = b

CookiesHold ==
    \A b \in Browsers :
        /\ browser[b].session # 0 => SignedInBy(browser[b].session, b)
        /\ browser[b].state # 0 => StartedBy(browser[b].state, b)

(* What a request still has to go by: a sign-in of its browser, ...        *)
SignInHolds(x) ==
    /\ x.phase \in {"exchange", "open"} =>
           /\ x.kind = "signin" /\ x.person \in People
           /\ x.browser \in Browsers /\ StartedBy(x.credential, x.browser)
    /\ x.phase = "signed" =>
           x.browser \in Browsers /\ SignedInBy(x.credential, x.browser)
    /\ x.phase \in {"refused", "drop"} => x.browser \in Browsers

(* ... a session row of its person, valid when the request came if it is   *)
(* valid now, and the workspaces the person has been in since, ...         *)
BySession(x) == \/ x.phase \in {"row", "membership", "handle", "select"}
                \/ x.phase = "expire" /\ x.kind # "call"

SessionHolds(x) ==
    BySession(x) =>
        /\ x.kind \in BrowserKinds /\ x.browser \in Browsers
        /\ x.kind \in WorkspaceKinds => x.workspace \in Workspaces
        /\ x.credential \in DOMAIN sessions
        /\ x.person = sessions[x.credential].person
        /\ (x.phase = "row" /\ sessions[x.credential].state = "live") => x.live
        /\ x.phase = "expire" => sessions[x.credential].state # "live"
        /\ x.phase = "select" => x.kind \in WorkspaceKinds
        /\ x.phase = "membership" => x.active \in Workspaces

(* ... or a token row in the same way.                                     *)
ByToken(x) == \/ x.phase \in {"token", "stamp", "call"}
              \/ x.phase = "expire" /\ x.kind = "call"

TokenHolds(x) ==
    ByToken(x) =>
        /\ x.kind = "call"
        /\ x.credential \in DOMAIN tokens
        /\ x.person = tokens[x.credential].person
        /\ (x.phase = "token" /\ tokens[x.credential].state = "live") => x.live

(* A request that is not resolved yet has seen every membership its person *)
(* still has; one that is acts in a workspace it has seen.                 *)
HistoryHolds(x) ==
    /\ x.phase \in {"row", "membership", "token"} =>
           ToSet(joined[x.person]) \subseteq x.mine
    /\ x.phase \in {"membership", "handle", "stamp", "call"} => x.live
    /\ (x.phase \in {"handle", "stamp", "call"} /\ x.active # None) =>
           x.active \in x.mine

Holds(x) ==
    SignInHolds(x) /\ SessionHolds(x) /\ TokenHolds(x) /\ HistoryHolds(x)

RequestsHold == \A q \in Requests : Holds(request[q])

RowsInv == MembershipsHold /\ SessionsHold /\ TokensHold /\ CookiesHold

Inv == TypeInv /\ RowsInv /\ RequestsHold

-----------------------------------------------------------------------------
(* Sequences as the actions use them: a row is appended, rewritten or      *)
(* taken out.                                                              *)
LEMMA Appended ==
    ASSUME NEW S, NEW s \in Seq(S), NEW e \in S
    PROVE  /\ Append(s, e) \in Seq(S)
           /\ DOMAIN Append(s, e) = DOMAIN s \cup {Len(s) + 1}
           /\ Len(s) + 1 \notin DOMAIN s
           /\ \A i \in DOMAIN s : Append(s, e)[i] = s[i]
           /\ Append(s, e)[Len(s) + 1] = e
<1> DEFINE t == Append(s, e)
<1>1. /\ t \in Seq(S) /\ Len(t) = Len(s) + 1
      /\ \A i \in 1..Len(s) : t[i] = s[i]
      /\ t[Len(s) + 1] = e
  BY AppendProperties
<1> HIDE DEF t
<1>2. Len(s) \in Nat /\ DOMAIN s = 1..Len(s) /\ DOMAIN t = 1..Len(t)
  BY <1>1, LenProperties
<1>3. t \in Seq(S) /\ \A i \in DOMAIN s : t[i] = s[i]
  BY <1>1, <1>2
<1>4. DOMAIN t = DOMAIN s \cup {Len(s) + 1} /\ Len(s) + 1 \notin DOMAIN s
  BY <1>1, <1>2
<1>. QED BY <1>1, <1>3, <1>4 DEF t

LEMMA Rewritten ==
    ASSUME NEW S, NEW s \in Seq(S), NEW i \in DOMAIN s, NEW e \in S
    PROVE  /\ [s EXCEPT ![i] = e] \in Seq(S)
           /\ DOMAIN [s EXCEPT ![i] = e] = DOMAIN s
           /\ \A j \in DOMAIN s : [s EXCEPT ![i] = e][j] = IF j = i THEN e ELSE s[j]
<1> DEFINE t == [s EXCEPT ![i] = e]
<1>1. DOMAIN s = 1..Len(s)
  BY LenProperties
<1>2. t \in Seq(S)
  BY <1>1, ExceptSeq
<1>. QED BY <1>2

LEMMA Joined ==
    ASSUME NEW S, NEW a \in Seq(S), NEW b \in Seq(S),
           NEW j \in 1..Len(a) + Len(b)
    PROVE  (a \o b)[j] = IF j <= Len(a) THEN a[j] ELSE b[j - Len(a)]
OBVIOUS

LEMMA TakenOut ==
    ASSUME NEW S, NEW s \in Seq(S), IsInjective(s), NEW i \in DOMAIN s
    PROVE  /\ RemoveAt(s, i) \in Seq(S)
           /\ IsInjective(RemoveAt(s, i))
           /\ ToSet(RemoveAt(s, i)) = ToSet(s) \ {s[i]}
<1> DEFINE l == SubSeq(s, 1, i - 1)
           r == SubSeq(s, i + 1, Len(s))
           t == l \o r
<1>1. Len(s) \in Nat /\ DOMAIN s = 1..Len(s) /\ \A j \in 1..Len(s) : s[j] \in S
  BY LenProperties, ElementOfSeq
<1>2. i \in Int /\ 1 <= i /\ i <= Len(s)
  BY <1>1
<1>3. /\ l \in Seq(S) /\ Len(l) = i - 1
      /\ \A j \in 1..i - 1 : l[j] = s[j]
  <2>1. \A j \in 1..i - 1 : s[j] \in S
    BY <1>1, <1>2
  <2>2. /\ l \in Seq(S) /\ Len(l) = IF 1 <= i - 1 THEN (i - 1) - 1 + 1 ELSE 0
        /\ \A j \in 1..(i - 1) - 1 + 1 : l[j] = s[1 + j - 1]
    BY <1>2, <2>1, SubSeqProperties
  <2> HIDE DEF l
  <2>. QED BY <1>2, <2>2
<1>4. /\ r \in Seq(S) /\ Len(r) = Len(s) - i
      /\ \A j \in 1..Len(s) - i : r[j] = s[i + j]
  <2>1. \A j \in i + 1..Len(s) : s[j] \in S
    BY <1>1, <1>2
  <2>2. /\ r \in Seq(S)
        /\ Len(r) = IF i + 1 <= Len(s) THEN Len(s) - (i + 1) + 1 ELSE 0
        /\ \A j \in 1..Len(s) - (i + 1) + 1 : r[j] = s[i + 1 + j - 1]
    BY <1>1, <1>2, <2>1, SubSeqProperties
  <2> HIDE DEF r
  <2>3. Len(r) = Len(s) - i
    BY <1>1, <1>2, <2>2
  <2>4. ASSUME NEW j \in 1..Len(s) - i PROVE r[j] = s[i + j]
    <3>1. j \in 1..Len(s) - (i + 1) + 1 /\ i + 1 + j - 1 = i + j
      BY <1>1, <1>2
    <3>. QED BY <2>2, <3>1
  <2>. QED BY <2>2, <2>3, <2>4
<1> HIDE DEF l, r
<1>5. /\ t \in Seq(S) /\ Len(t) = Len(s) - 1
      /\ \A j \in 1..Len(s) - 1 : t[j] = IF j < i THEN s[j] ELSE s[j + 1]
  <2>1. t \in Seq(S) /\ Len(t) = Len(l) + Len(r)
    BY <1>3, <1>4, ConcatProperties
  <2>2. ASSUME NEW j \in 1..Len(s) - 1
        PROVE  t[j] = IF j < i THEN s[j] ELSE s[j + 1]
    <3>1. CASE j < i
      BY <1>1, <1>2, <1>3, <1>4, <3>1
    <3>2. CASE ~(j < i)
      <4>1. /\ j \in 1..Len(l) + Len(r) /\ ~(j <= Len(l))
            /\ j - Len(l) = j - (i - 1) /\ j - (i - 1) \in 1..Len(s) - i
        BY <1>1, <1>2, <1>3, <1>4, <3>2
      <4>4. t[j] = r[j - (i - 1)]
        BY <1>3, <1>4, <4>1, Joined
      <4>2. r[j - (i - 1)] = s[i + (j - (i - 1))]
        BY <1>4, <4>1
      <4>3. i + (j - (i - 1)) = j + 1
        BY <1>2
      <4>. QED BY <3>2, <4>2, <4>3, <4>4
    <3>. QED BY <3>1, <3>2
  <2> HIDE DEF t
  <2>. QED BY <1>1, <1>2, <1>3, <1>4, <2>1, <2>2
<1> HIDE DEF t
<1>6. DOMAIN t = 1..Len(s) - 1
  BY <1>5, LenProperties
<1>7. \A j, k \in DOMAIN s : s[j] = s[k] => j = k
  BY DEF IsInjective
<1>8. IsInjective(t)
  <2> SUFFICES ASSUME NEW j \in DOMAIN t, NEW k \in DOMAIN t, t[j] = t[k]
               PROVE  j = k
    BY DEF IsInjective
  <2> DEFINE a == IF j < i THEN j ELSE j + 1
             b == IF k < i THEN k ELSE k + 1
  <2>1. /\ j \in Int /\ k \in Int
        /\ a \in DOMAIN s /\ b \in DOMAIN s /\ t[j] = s[a] /\ t[k] = s[b]
    BY <1>1, <1>2, <1>5, <1>6
  <2>2. a = b
    BY <1>7, <2>1
  <2>. QED BY <1>2, <2>1, <2>2
<1>9. ASSUME NEW x PROVE x \in ToSet(t) <=> x \in ToSet(s) /\ x # s[i]
  <2>1. ASSUME NEW j \in DOMAIN t PROVE t[j] \in ToSet(s) /\ t[j] # s[i]
    <3> DEFINE a == IF j < i THEN j ELSE j + 1
    <3>1. a \in DOMAIN s /\ t[j] = s[a] /\ a # i
      BY <1>1, <1>2, <1>5, <1>6
    <3> HIDE DEF a
    <3>. QED BY <1>7, <3>1 DEF ToSet
  <2>2. ASSUME NEW j \in DOMAIN s, j # i PROVE s[j] \in ToSet(t)
    <3> DEFINE a == IF j < i THEN j ELSE j - 1
    <3>1. a \in DOMAIN t /\ t[a] = s[j]
      BY <1>1, <1>2, <1>5, <1>6, <2>2
    <3> HIDE DEF a
    <3>. QED BY <3>1 DEF ToSet
  <2>. QED BY <2>1, <2>2 DEF ToSet
<1>10. RemoveAt(s, i) = t
  BY DEF RemoveAt, t, l, r
<1>. QED BY <1>5, <1>8, <1>9, <1>10

LEMMA JoinedOnce ==
    ASSUME NEW S, NEW s \in Seq(S), IsInjective(s), NEW e \in S,
           e \notin ToSet(s)
    PROVE  /\ Append(s, e) \in Seq(S)
           /\ IsInjective(Append(s, e))
           /\ ToSet(Append(s, e)) = ToSet(s) \cup {e}
<1> DEFINE t == Append(s, e)
           n == Len(s) + 1
<1>1. /\ t \in Seq(S) /\ DOMAIN t = DOMAIN s \cup {n} /\ n \notin DOMAIN s
      /\ \A i \in DOMAIN s : t[i] = s[i]
      /\ t[n] = e
  BY Appended
<1> HIDE DEF t, n
<1>2. \A i \in DOMAIN s : t[i] # t[n]
  BY <1>1 DEF ToSet
<1>3. IsInjective(t)
  BY <1>1, <1>2 DEF IsInjective
<1>4. ToSet(t) = ToSet(s) \cup {e}
  BY <1>1 DEF ToSet
<1>. QED BY <1>1, <1>3, <1>4 DEF t

-----------------------------------------------------------------------------
(* The rows are only added to, nothing that was ended is valid again, and  *)
(* nobody is in a workspace who was not: what requests go by stays true.   *)
SignInsKept ==
    \A s \in DOMAIN signIns :
        s \in DOMAIN signIns' /\ signIns'[s].browser = signIns[s].browser

SessionsKept ==
    \A i \in DOMAIN sessions :
        /\ i \in DOMAIN sessions'
        /\ sessions'[i].person = sessions[i].person
        /\ sessions'[i].signIn = sessions[i].signIn
        /\ sessions'[i].state = "live" => sessions[i].state = "live"

TokensKept ==
    \A t \in DOMAIN tokens :
        /\ t \in DOMAIN tokens'
        /\ tokens'[t].person = tokens[t].person
        /\ tokens'[t].workspace = tokens[t].workspace
        /\ tokens'[t].state = "live" => tokens[t].state = "live"

NobodyJoins ==
    \A p \in People : ToSet(joined'[p]) \subseteq ToSet(joined[p])

Kept == SignInsKept /\ SessionsKept /\ TokensKept

LEMMA RowTypes ==
    ASSUME TypeInv
    PROVE  /\ \A s \in DOMAIN signIns : signIns[s] \in SignIn
           /\ \A i \in DOMAIN sessions : sessions[i] \in Session
           /\ \A t \in DOMAIN tokens : tokens[t] \in Token
           /\ DOMAIN signIns = 1..Len(signIns) /\ Len(signIns) \in Nat
           /\ DOMAIN sessions = 1..Len(sessions) /\ Len(sessions) \in Nat
           /\ DOMAIN tokens = 1..Len(tokens) /\ Len(tokens) \in Nat
<1>1. signIns \in Seq(SignIn) /\ sessions \in Seq(Session) /\ tokens \in Seq(Token)
  BY DEF TypeInv
<1>. QED BY <1>1, LenProperties, ElementOfSeq

LEMMA SignInHoldsOn ==
    ASSUME TypeInv, SessionsHold, Kept, NEW x, SignInHolds(x)
    PROVE  SignInHolds(x)'
<1>1. \A s, b : StartedBy(s, b) => StartedBy(s, b)'
  BY DEF StartedBy, Kept, SignInsKept
<1>2. \A i, b : SignedInBy(i, b) => SignedInBy(i, b)'
  BY DEF SignedInBy, Kept, SignInsKept, SessionsKept, SessionsHold
<1>. QED BY <1>1, <1>2 DEF SignInHolds

LEMMA SessionHoldsOn ==
    ASSUME Kept, NEW x, SessionHolds(x)
    PROVE  SessionHolds(x)'
BY DEF SessionHolds, BySession, Kept, SessionsKept

LEMMA TokenHoldsOn ==
    ASSUME Kept, NEW x, TokenHolds(x)
    PROVE  TokenHolds(x)'
BY DEF TokenHolds, ByToken, Kept, TokensKept

(* The person of a request that is not resolved yet.                       *)
LEMMA HasPerson ==
    ASSUME TypeInv, NEW x, SessionHolds(x), TokenHolds(x),
           BySession(x) \/ ByToken(x)
    PROVE  x.person \in People
BY RowTypes DEF SessionHolds, TokenHolds, Session, Token

LEMMA HoldsOn ==
    ASSUME TypeInv, SessionsHold, Kept, NobodyJoins, NEW x, Holds(x)
    PROVE  Holds(x)'
<1>1. SignInHolds(x)' /\ SessionHolds(x)' /\ TokenHolds(x)'
  BY SignInHoldsOn, SessionHoldsOn, TokenHoldsOn DEF Holds
<1>2. x.phase \in {"row", "membership", "token"} => x.person \in People
  BY HasPerson DEF Holds, BySession, ByToken
<1>3. HistoryHolds(x)'
  BY <1>2 DEF Holds, HistoryHolds, NobodyJoins
<1>. QED BY <1>1, <1>3 DEF Holds

LEMMA SameRequests ==
    ASSUME TypeInv, SessionsHold, RequestsHold, Kept, NobodyJoins,
           UNCHANGED request
    PROVE  RequestsHold'
<1>1. \A x : Holds(x) => Holds(x)'
  BY HoldsOn
<1> SUFFICES ASSUME NEW q \in Requests PROVE Holds(request[q])'
  BY DEF RequestsHold
<1>2. PICK x : x = request[q]
  OBVIOUS
<1>3. Holds(x)'
  BY <1>1, <1>2 DEF RequestsHold
<1>. QED BY <1>2, <1>3

LEMMA Stepped ==
    ASSUME TypeInv, SessionsHold, RequestsHold, Kept, NobodyJoins,
           NEW q \in Requests,
           \E y \in Request : /\ request' = [request EXCEPT ![q] = y]
                              /\ Holds(y)'
    PROVE  request' \in [Requests -> Request] /\ RequestsHold'
<1>1. PICK y \in Request : /\ request' = [request EXCEPT ![q] = y]
                           /\ Holds(y)'
  OBVIOUS
<1>2. request \in [Requests -> Request]
  BY DEF TypeInv
<1>3. \A r \in Requests : request'[r] = IF r = q THEN y ELSE request[r]
  BY <1>1, <1>2
<1>4. ASSUME NEW r \in Requests PROVE Holds(request[r])'
  <2>1. CASE r = q
    BY <1>1, <1>3, <2>1
  <2>2. CASE r # q
    <3>1. PICK x : x = request[r]
      OBVIOUS
    <3>2. Holds(x)
      BY <3>1 DEF RequestsHold
    <3>3. Holds(x)'
      BY <3>2, HoldsOn
    <3>4. request'[r] = x
      BY <1>3, <2>2, <3>1
    <3>. QED BY <3>3, <3>4
  <2>. QED BY <2>1, <2>2
<1>. QED BY <1>1, <1>2, <1>4 DEF RequestsHold

LEMMA IdleHolds == Idle \in Request /\ Holds(Idle)'
<1>1. Idle \in Request /\ Idle.phase = "idle"
  BY DEF Idle, Request, Phases
<1>2. Holds(Idle)'
  BY <1>1 DEF Holds, SignInHolds, SessionHolds, TokenHolds, HistoryHolds,
              BySession, ByToken
<1>. QED BY <1>1, <1>2

LEMMA Ended ==
    ASSUME TypeInv, SessionsHold, RequestsHold, Kept, NobodyJoins,
           NEW q \in Requests, End(q)
    PROVE  request' \in [Requests -> Request] /\ RequestsHold'
BY IdleHolds, Stepped DEF End

LEMMA NothingMoves ==
    ASSUME UNCHANGED <<joined, signIns, sessions, tokens>>
    PROVE  Kept /\ NobodyJoins
BY DEF Kept, SignInsKept, SessionsKept, TokensKept, NobodyJoins

LEMMA Answered ==
    ASSUME TypeInv, SessionsHold, RequestsHold, Kept, NobodyJoins,
           NEW q \in Requests, NEW phase \in {"signed", "refused", "drop"},
           NEW c \in Nat, Answering(q, phase, c),
           request[q].browser \in Browsers,
           phase = "signed" =>
               /\ c \in DOMAIN sessions'
               /\ signIns'[sessions'[c].signIn].browser = request[q].browser
    PROVE  request' \in [Requests -> Request] /\ RequestsHold'
<1> DEFINE y == [Idle EXCEPT !.phase = phase, !.browser = request[q].browser,
                             !.credential = c]
<1>1. request' = [request EXCEPT ![q] = y]
  BY DEF Answering
<1>2. /\ y \in Request /\ y.phase = phase /\ y.browser = request[q].browser
      /\ y.credential = c
  BY DEF Idle, Request, Phases
<1> HIDE DEF y
<1>3. PICK z : z = y
  OBVIOUS
<1>4. Holds(z)'
  BY <1>2, <1>3 DEF Holds, SignInHolds, SessionHolds, TokenHolds,
                    HistoryHolds, BySession, ByToken, SignedInBy
<1>. QED BY <1>1, <1>2, <1>3, <1>4, Stepped

LEMMA RowsUnchanged ==
    ASSUME TypeInv, RowsInv,
           UNCHANGED <<stage, joined, begun, signIns, sessions, tokens, browser>>,
           mishaps' \in Nat, request' \in [Requests -> Request], RequestsHold'
    PROVE  Inv'
BY DEF Inv, TypeInv, RowsInv, MembershipsHold, SessionsHold, TokensHold,
       CookiesHold, IsMember, SignedInBy, StartedBy

LEMMA Counted == ASSUME TypeInv, Mishap PROVE mishaps' \in Nat
BY DEF TypeInv, Mishap

-----------------------------------------------------------------------------
(* The steps that leave the rows alone.                                    *)
LEMMA ReturnStep ==
    ASSUME Inv, NEW q \in Requests, NEW b \in Browsers,
           NEW s \in DOMAIN signIns, NEW p \in People,
           ReturnFromGoogle(q, b, s, p)
    PROVE  Inv'
<1> USE DEF Inv
<1>1. Kept /\ NobodyJoins
  BY NothingMoves DEF ReturnFromGoogle, member
<1>2. request' \in [Requests -> Request] /\ RequestsHold'
  <2>1. CASE StateMatches(b, s)
    <3> DEFINE y == [Idle EXCEPT !.phase = "exchange", !.kind = "signin",
                                 !.browser = b, !.credential = s, !.person = p]
    <3>1. request' = [request EXCEPT ![q] = y]
      BY <2>1 DEF ReturnFromGoogle
    <3>2. /\ y \in Request /\ y.phase = "exchange" /\ y.kind = "signin"
          /\ y.browser = b /\ y.credential = s /\ y.person = p
      <4>1. s \in Nat
        BY RowTypes
      <4>. QED BY <4>1 DEF Idle, Request, Phases
    <3> HIDE DEF y
    <3>3. s \in DOMAIN signIns' /\ signIns'[s].browser = b
      <4>1. StartedBy(browser[b].state, b)
        BY <2>1, RowTypes DEF StateMatches, RowsInv, CookiesHold
      <4>. QED BY <2>1, <4>1 DEF StateMatches, StartedBy, ReturnFromGoogle
    <3>4. PICK z : z = y
      OBVIOUS
    <3>5. Holds(z)'
      BY <3>2, <3>3, <3>4 DEF Holds, SignInHolds, SessionHolds, TokenHolds,
                              HistoryHolds, BySession, ByToken, StartedBy
    <3>. QED BY <1>1, <3>1, <3>2, <3>4, <3>5, Stepped DEF RowsInv
  <2>2. CASE ~StateMatches(b, s)
    <3> DEFINE y == [Idle EXCEPT !.phase = "refused", !.browser = b]
    <3>1. request' = [request EXCEPT ![q] = y]
      BY <2>2 DEF ReturnFromGoogle
    <3>2. y \in Request /\ y.phase = "refused" /\ y.browser = b
      BY DEF Idle, Request, Phases
    <3> HIDE DEF y
    <3>3. PICK z : z = y
      OBVIOUS
    <3>4. Holds(z)'
      BY <3>2, <3>3 DEF Holds, SignInHolds, SessionHolds, TokenHolds,
                        HistoryHolds, BySession, ByToken
    <3>. QED BY <1>1, <3>1, <3>2, <3>3, <3>4, Stepped DEF RowsInv
  <2>. QED BY <2>1, <2>2
<1>. QED BY <1>2, RowsUnchanged DEF ReturnFromGoogle, member, TypeInv

LEMMA SendStep ==
    ASSUME Inv, NEW q \in Requests, NEW b \in Browsers,
           NEW kind \in BrowserKinds, NEW w \in Workspaces \cup {None},
           kind \in WorkspaceKinds => w \in Workspaces,
           Send(q, b, kind, w)
    PROVE  Inv'
<1> USE DEF Inv
<1>1. Kept /\ NobodyJoins
  BY NothingMoves DEF Send, member
<1> DEFINE i == browser[b].session
           y == [Idle EXCEPT !.phase = "row", !.kind = kind, !.browser = b,
                             !.credential = i, !.person = sessions[i].person,
                             !.workspace = w,
                             !.live = sessions[i].state = "live",
                             !.mine = ToSet(joined[sessions[i].person])]
<1>2. i \in DOMAIN sessions /\ sessions[i] \in Session /\ i \in Nat
  <2>1. SignedInBy(i, b)
    BY DEF Send, RowsInv, CookiesHold
  <2>. QED BY <2>1, RowTypes DEF SignedInBy
<1>3. request' = [request EXCEPT ![q] = y]
  BY DEF Send
<1>4. ToSet(joined[sessions[i].person]) \in SUBSET Workspaces
  <2>1. joined[sessions[i].person] \in Seq(Workspaces)
    BY <1>2 DEF TypeInv, Session
  <2>. QED BY <2>1, LenProperties, ElementOfSeq DEF ToSet
<1> HIDE DEF i
<1>5. /\ y \in Request /\ y.phase = "row" /\ y.kind = kind /\ y.browser = b
      /\ y.credential = i /\ y.workspace = w
      /\ y.person = sessions[i].person
      /\ y.live = (sessions[i].state = "live")
      /\ y.mine = ToSet(joined[sessions[i].person])
  BY <1>2, <1>4 DEF Idle, Request, Phases, Session
<1> HIDE DEF y
<1>6. PICK z : z = y
  OBVIOUS
<1>7. sessions' = sessions /\ joined' = joined
  BY DEF Send, member
<1>8. Holds(z)'
  BY <1>2, <1>5, <1>6, <1>7
     DEF Holds, SignInHolds, SessionHolds, TokenHolds, HistoryHolds, BySession,
         ByToken
<1>9. request' \in [Requests -> Request] /\ RequestsHold'
  BY <1>1, <1>3, <1>5, <1>6, <1>8, Stepped DEF RowsInv
<1>. QED BY <1>9, RowsUnchanged DEF Send, member, TypeInv

LEMMA CallStep ==
    ASSUME Inv, NEW q \in Requests, NEW t \in DOMAIN tokens, CallServer(q, t)
    PROVE  Inv'
<1> USE DEF Inv
<1>1. Kept /\ NobodyJoins
  BY NothingMoves DEF CallServer, member
<1> DEFINE y == [Idle EXCEPT !.phase = "token", !.kind = "call",
                             !.credential = t, !.person = tokens[t].person,
                             !.live = tokens[t].state = "live",
                             !.mine = ToSet(joined[tokens[t].person])]
<1>2. tokens[t] \in Token /\ t \in Nat
  BY RowTypes
<1>3. request' = [request EXCEPT ![q] = y]
  BY DEF CallServer
<1>4. ToSet(joined[tokens[t].person]) \in SUBSET Workspaces
  <2>1. joined[tokens[t].person] \in Seq(Workspaces)
    BY <1>2 DEF TypeInv, Token
  <2>. QED BY <2>1, LenProperties, ElementOfSeq DEF ToSet
<1>5. /\ y \in Request /\ y.phase = "token" /\ y.kind = "call"
      /\ y.credential = t /\ y.person = tokens[t].person
      /\ y.live = (tokens[t].state = "live")
      /\ y.mine = ToSet(joined[tokens[t].person])
  BY <1>2, <1>4 DEF Idle, Request, Phases, Token
<1> HIDE DEF y
<1>6. PICK z : z = y
  OBVIOUS
<1>7. tokens' = tokens /\ joined' = joined
  BY DEF CallServer, member
<1>8. Holds(z)'
  BY <1>2, <1>5, <1>6, <1>7
     DEF Holds, SignInHolds, SessionHolds, TokenHolds, HistoryHolds, BySession,
         ByToken
<1>9. request' \in [Requests -> Request] /\ RequestsHold'
  BY <1>1, <1>3, <1>5, <1>6, <1>8, Stepped DEF RowsInv
<1>. QED BY <1>9, RowsUnchanged DEF CallServer, member, TypeInv

(* A request that goes on carries what it came with.                       *)
LEMMA FindSessionStep ==
    ASSUME Inv, NEW q \in Requests, FindSession(q) PROVE Inv'
<1> USE DEF Inv
<1>1. Kept /\ NobodyJoins
  BY NothingMoves DEF FindSession, member
<1> DEFINE x == request[q]
           row == sessions[x.credential]
<1>2. x \in Request /\ Holds(x) /\ x.phase = "row"
  BY DEF FindSession, TypeInv, RequestsHold
<1>3. /\ x.kind \in BrowserKinds /\ x.credential \in DOMAIN sessions
      /\ x.browser \in Browsers
      /\ x.kind \in WorkspaceKinds => x.workspace \in Workspaces
      /\ x.person = row.person /\ (row.state = "live" => x.live)
      /\ ToSet(joined[x.person]) \subseteq x.mine
  BY <1>2 DEF Holds, SessionHolds, HistoryHolds, BySession
<1>4. row \in Session
  BY <1>3, RowTypes
<1>5. sessions' = sessions /\ joined' = joined
  BY DEF FindSession, member
<1>6. request' \in [Requests -> Request] /\ RequestsHold'
  <2>1. CASE End(q)
    BY <1>1, <2>1, Ended DEF RowsInv
  <2>2. CASE row.state = "expired" /\ Go(q, "expire")
    <3> DEFINE y == [x EXCEPT !.phase = "expire"]
    <3>1. request' = [request EXCEPT ![q] = y]
      BY <2>2 DEF Go
    <3>2. /\ y \in Request /\ y.phase = "expire" /\ y.kind = x.kind /\ y.browser = x.browser
          /\ y.credential = x.credential /\ y.person = x.person
          /\ y.workspace = x.workspace
      BY <1>2 DEF Request, Phases
    <3>3. row.state # "live"
      BY <2>2
    <3> HIDE DEF y
    <3>4. PICK z : z = y
      OBVIOUS
    <3>5. Holds(z)'
      BY <1>3, <1>5, <3>2, <3>3, <3>4
         DEF Holds, SignInHolds, SessionHolds, TokenHolds, HistoryHolds,
             BySession, ByToken, BrowserKinds
    <3>. QED BY <1>1, <3>1, <3>2, <3>4, <3>5, Stepped DEF RowsInv
  <2>3. CASE /\ row.state = "live"
             /\ request' = [request EXCEPT ![q] =
                   [@ EXCEPT !.active = row.active,
                             !.phase = IF row.active = None THEN "handle"
                                       ELSE "membership"]]
    <3> DEFINE to == IF row.active = None THEN "handle" ELSE "membership"
               y == [x EXCEPT !.active = row.active, !.phase = to]
    <3>1. request' = [request EXCEPT ![q] = y]
      BY <2>3
    <3>2. /\ to \in {"handle", "membership"}
          /\ to = "handle" => row.active = None
          /\ to = "membership" => row.active # None
      OBVIOUS
    <3> HIDE DEF to
    <3>3. /\ y \in Request /\ y.phase = to /\ y.kind = x.kind /\ y.browser = x.browser
          /\ y.credential = x.credential /\ y.person = x.person
          /\ y.workspace = x.workspace /\ y.active = row.active
          /\ y.live = x.live /\ y.mine = x.mine
      BY <1>2, <1>4, <3>2 DEF Request, Session, Phases
    <3>4. x.live /\ row.active \in Workspaces \cup {None}
      BY <1>3, <1>4, <2>3 DEF Session
    <3> HIDE DEF y
    <3>5. PICK z : z = y
      OBVIOUS
    <3>6. Holds(z)'
      BY <1>3, <1>5, <3>2, <3>3, <3>4, <3>5
         DEF Holds, SignInHolds, SessionHolds, TokenHolds, HistoryHolds,
             BySession, ByToken, BrowserKinds
    <3>. QED BY <1>1, <3>1, <3>3, <3>5, <3>6, Stepped DEF RowsInv
  <2>. QED BY <2>1, <2>2, <2>3 DEF FindSession
<1>. QED BY <1>6, RowsUnchanged DEF FindSession, member, TypeInv

LEMMA FindMembershipStep ==
    ASSUME Inv, NEW q \in Requests, FindMembership(q) PROVE Inv'
<1> USE DEF Inv
<1>1. Kept /\ NobodyJoins
  BY NothingMoves DEF FindMembership, member
<1> DEFINE x == request[q]
           a == ActiveWorkspace(q)
           y == [x EXCEPT !.active = a, !.phase = "handle"]
<1>2. x \in Request /\ Holds(x) /\ x.phase = "membership"
  BY DEF FindMembership, TypeInv, RequestsHold
<1>3. /\ x.kind \in BrowserKinds /\ x.credential \in DOMAIN sessions
      /\ x.browser \in Browsers
      /\ x.kind \in WorkspaceKinds => x.workspace \in Workspaces
      /\ x.person = sessions[x.credential].person
      /\ x.active \in Workspaces /\ x.live
      /\ ToSet(joined[x.person]) \subseteq x.mine
  BY <1>2 DEF Holds, SessionHolds, HistoryHolds, BySession
<1>4. sessions' = sessions /\ joined' = joined
  BY DEF FindMembership, member
<1>5. a \in Workspaces \cup {None} /\ (a # None => a \in x.mine)
  BY <1>3 DEF ActiveWorkspace, IsMember
<1>6. request' = [request EXCEPT ![q] = y]
  BY DEF FindMembership
<1> HIDE DEF a
<1>7. /\ y \in Request /\ y.phase = "handle" /\ y.kind = x.kind /\ y.browser = x.browser
      /\ y.credential = x.credential /\ y.person = x.person
      /\ y.workspace = x.workspace /\ y.active = a
      /\ y.live = x.live /\ y.mine = x.mine
  BY <1>2, <1>5 DEF Request, Phases
<1> HIDE DEF y
<1>8. PICK z : z = y
  OBVIOUS
<1>9. Holds(z)'
  BY <1>3, <1>4, <1>5, <1>7, <1>8
     DEF Holds, SignInHolds, SessionHolds, TokenHolds, HistoryHolds,
         BySession, ByToken, BrowserKinds
<1>10. request' \in [Requests -> Request] /\ RequestsHold'
  BY <1>1, <1>6, <1>7, <1>8, <1>9, Stepped DEF RowsInv
<1>. QED BY <1>10, RowsUnchanged DEF FindMembership, member, TypeInv

LEMMA FindTokenStep ==
    ASSUME Inv, NEW q \in Requests, FindMcpToken(q) PROVE Inv'
<1> USE DEF Inv
<1>1. Kept /\ NobodyJoins
  BY NothingMoves DEF FindMcpToken, member
<1> DEFINE x == request[q]
           row == tokens[x.credential]
<1>2. x \in Request /\ Holds(x) /\ x.phase = "token"
  BY DEF FindMcpToken, TypeInv, RequestsHold
<1>3. /\ x.kind = "call" /\ x.credential \in DOMAIN tokens
      /\ x.person = row.person /\ (row.state = "live" => x.live)
      /\ ToSet(joined[x.person]) \subseteq x.mine
  BY <1>2 DEF Holds, TokenHolds, HistoryHolds, ByToken
<1>4. row \in Token
  BY <1>3, RowTypes
<1>5. tokens' = tokens /\ joined' = joined
  BY DEF FindMcpToken, member
<1>6. request' \in [Requests -> Request] /\ RequestsHold'
  <2>1. CASE End(q)
    BY <1>1, <2>1, Ended DEF RowsInv
  <2>2. CASE row.state = "expired" /\ Go(q, "expire")
    <3> DEFINE y == [x EXCEPT !.phase = "expire"]
    <3>1. request' = [request EXCEPT ![q] = y]
      BY <2>2 DEF Go
    <3>2. /\ y \in Request /\ y.phase = "expire" /\ y.kind = x.kind /\ y.browser = x.browser
          /\ y.credential = x.credential /\ y.person = x.person
      BY <1>2 DEF Request, Phases
    <3> HIDE DEF y
    <3>4. PICK z : z = y
      OBVIOUS
    <3>5. Holds(z)'
      BY <1>3, <1>5, <3>2, <3>4
         DEF Holds, SignInHolds, SessionHolds, TokenHolds, HistoryHolds,
             BySession, ByToken
    <3>. QED BY <1>1, <3>1, <3>2, <3>4, <3>5, Stepped DEF RowsInv
  <2>3. CASE /\ row.state = "live"
             /\ request' = [request EXCEPT ![q] =
                   [@ EXCEPT !.active = row.workspace, !.phase = "stamp"]]
    <3> DEFINE y == [x EXCEPT !.active = row.workspace, !.phase = "stamp"]
    <3>1. request' = [request EXCEPT ![q] = y]
      BY <2>3
    <3>2. row.workspace \in x.mine
      BY <1>3, <2>3 DEF RowsInv, TokensHold, IsMember
    <3>3. /\ y \in Request /\ y.phase = "stamp" /\ y.kind = x.kind /\ y.browser = x.browser
          /\ y.credential = x.credential /\ y.person = x.person
          /\ y.active = row.workspace /\ y.live = x.live /\ y.mine = x.mine
      BY <1>2, <1>4 DEF Request, Token, Phases
    <3> HIDE DEF y
    <3>4. PICK z : z = y
      OBVIOUS
    <3>5. Holds(z)'
      BY <1>3, <1>5, <2>3, <3>2, <3>3, <3>4
         DEF Holds, SignInHolds, SessionHolds, TokenHolds, HistoryHolds,
             BySession, ByToken
    <3>. QED BY <1>1, <3>1, <3>3, <3>4, <3>5, Stepped DEF RowsInv
  <2>. QED BY <2>1, <2>2, <2>3 DEF FindMcpToken
<1>. QED BY <1>6, RowsUnchanged DEF FindMcpToken, member, TypeInv

(* A request whose workspace is chosen waits to open it in its browser.    *)
LEMMA ToSelectHolds ==
    ASSUME Inv, SessionsKept, NEW q \in Requests, request[q].phase = "handle",
           request[q].kind \in WorkspaceKinds
    PROVE  \E y \in Request : y = ToSelect(request[q]) /\ Holds(y)'
<1> USE DEF Inv
<1> DEFINE x == request[q]
           y == ToSelect(x)
<1>1. x \in Request /\ Holds(x)
  BY DEF TypeInv, RequestsHold
<1>2. /\ x.credential \in DOMAIN sessions /\ x.browser \in Browsers
      /\ x.kind \in WorkspaceKinds => x.workspace \in Workspaces
      /\ x.person = sessions[x.credential].person
  BY <1>1 DEF Holds, SessionHolds, BySession
<1>3. /\ y \in Request /\ y.phase = "select" /\ y.kind = x.kind /\ y.browser = x.browser
      /\ y.credential = x.credential /\ y.person = x.person
      /\ y.workspace = x.workspace
  BY <1>1 DEF ToSelect, Request, Phases
<1> HIDE DEF y
<1>4. PICK z : z = y
  OBVIOUS
<1>5. Holds(z)'
  BY <1>2, <1>3, <1>4
     DEF Holds, SignInHolds, SessionHolds, TokenHolds, HistoryHolds,
         BySession, ByToken, BrowserKinds, WorkspaceKinds, SessionsKept
<1>. QED BY <1>3, <1>4, <1>5 DEF y

LEMMA CheckMemberStep ==
    ASSUME Inv, NEW q \in Requests, CheckMember(q) PROVE Inv'
<1> USE DEF Inv
<1>1. Kept /\ NobodyJoins
  BY NothingMoves DEF CheckMember, member
<1>2. request' \in [Requests -> Request] /\ RequestsHold'
  <2>1. CASE End(q)
    BY <1>1, <2>1, Ended DEF RowsInv
  <2>2. CASE request' = [request EXCEPT ![q] = ToSelect(@)]
    <3>1. PICK y \in Request : y = ToSelect(request[q]) /\ Holds(y)'
      BY <1>1, ToSelectHolds
         DEF CheckMember, Handling, WorkspaceKinds, Kept
    <3>2. request' = [request EXCEPT ![q] = y]
      BY <2>2, <3>1
    <3>. QED BY <1>1, <3>1, <3>2, Stepped DEF RowsInv
  <2>. QED BY <2>1, <2>2 DEF CheckMember
<1>. QED BY <1>2, RowsUnchanged DEF CheckMember, member, TypeInv

LEMMA EndingStep ==
    ASSUME Inv, NEW q \in Requests, ReadWorkspace(q) \/ RunTool(q) \/ Lose(q)
    PROVE  Inv'
<1> USE DEF Inv
<1>1. UNCHANGED <<stage, joined, begun, signIns, sessions, tokens, browser>>
  BY DEF ReadWorkspace, RunTool, Lose, member
<1>2. request' \in [Requests -> Request] /\ RequestsHold'
  <2>1. Kept /\ NobodyJoins
    BY <1>1, NothingMoves
  <2>. QED BY <2>1, Ended DEF ReadWorkspace, RunTool, Lose, RowsInv
<1>3. mishaps' \in Nat
  BY Counted DEF ReadWorkspace, RunTool, Lose, TypeInv
<1>. QED BY <1>1, <1>2, <1>3, RowsUnchanged

-----------------------------------------------------------------------------
(* The steps that write a row.                                             *)
LEMMA SessionRewritten ==
    ASSUME TypeInv, SessionsHold, UNCHANGED <<stage, signIns>>,
           NEW i \in DOMAIN sessions,
           \E r \in Session :
               /\ sessions' = [sessions EXCEPT ![i] = r]
               /\ r.person = sessions[i].person
               /\ r.signIn = sessions[i].signIn
               /\ r.state = "live" => sessions[i].state = "live"
               /\ r.active # None => stage[r.active] = "open"
    PROVE  sessions' \in Seq(Session) /\ SessionsHold' /\ SessionsKept
<1>1. PICK r \in Session :
          /\ sessions' = [sessions EXCEPT ![i] = r]
          /\ r.person = sessions[i].person
          /\ r.signIn = sessions[i].signIn
          /\ r.state = "live" => sessions[i].state = "live"
          /\ r.active # None => stage[r.active] = "open"
  OBVIOUS
<1>2. sessions \in Seq(Session)
  BY DEF TypeInv
<1>3. /\ sessions' \in Seq(Session) /\ DOMAIN sessions' = DOMAIN sessions
      /\ \A j \in DOMAIN sessions : sessions'[j] = IF j = i THEN r ELSE sessions[j]
  BY <1>1, <1>2, Rewritten
<1>4. SessionsHold'
  BY <1>1, <1>3 DEF SessionsHold
<1>5. SessionsKept
  BY <1>1, <1>3 DEF SessionsKept
<1>. QED BY <1>3, <1>4, <1>5

LEMMA TokenRewritten ==
    ASSUME TypeInv, TokensHold, UNCHANGED joined, NEW t \in DOMAIN tokens,
           \E r \in Token :
               /\ tokens' = [tokens EXCEPT ![t] = r]
               /\ r.person = tokens[t].person
               /\ r.workspace = tokens[t].workspace
               /\ r.state = "live" => tokens[t].state = "live"
    PROVE  tokens' \in Seq(Token) /\ TokensHold' /\ TokensKept
<1>1. PICK r \in Token :
          /\ tokens' = [tokens EXCEPT ![t] = r]
          /\ r.person = tokens[t].person
          /\ r.workspace = tokens[t].workspace
          /\ r.state = "live" => tokens[t].state = "live"
  OBVIOUS
<1>2. tokens \in Seq(Token)
  BY DEF TypeInv
<1>3. /\ tokens' \in Seq(Token) /\ DOMAIN tokens' = DOMAIN tokens
      /\ \A j \in DOMAIN tokens : tokens'[j] = IF j = t THEN r ELSE tokens[j]
  BY <1>1, <1>2, Rewritten
<1>4. TokensHold'
  BY <1>1, <1>3 DEF TokensHold, IsMember
<1>5. TokensKept
  BY <1>1, <1>3 DEF TokensKept
<1>. QED BY <1>3, <1>4, <1>5

LEMMA CookiesHoldOn ==
    ASSUME CookiesHold, SessionsHold, SignInsKept, SessionsKept,
           UNCHANGED browser
    PROVE  CookiesHold'
BY DEF CookiesHold, SessionsHold, SignInsKept, SessionsKept, SignedInBy,
       StartedBy

(* One session row is written, and nothing else but the request.           *)
LEMMA SessionWritten ==
    ASSUME Inv, UNCHANGED <<stage, joined, begun, signIns, tokens, browser>>,
           mishaps' \in Nat, NEW i \in DOMAIN sessions,
           \E r \in Session :
               /\ sessions' = [sessions EXCEPT ![i] = r]
               /\ r.person = sessions[i].person
               /\ r.signIn = sessions[i].signIn
               /\ r.state = "live" => sessions[i].state = "live"
               /\ r.active # None => stage[r.active] = "open"
    PROVE  /\ Kept /\ NobodyJoins
           /\ request' \in [Requests -> Request] /\ RequestsHold' => Inv'
<1> USE DEF Inv
<1>1. sessions' \in Seq(Session) /\ SessionsHold' /\ SessionsKept
  BY SessionRewritten DEF RowsInv
<1>2. Kept /\ NobodyJoins
  BY <1>1 DEF Kept, SignInsKept, TokensKept, NobodyJoins
<1>3. CookiesHold'
  BY <1>1, <1>2, CookiesHoldOn DEF RowsInv, Kept
<1>4. MembershipsHold' /\ TokensHold'
  BY DEF RowsInv, MembershipsHold, TokensHold, IsMember
<1>. QED BY <1>1, <1>2, <1>3, <1>4 DEF RowsInv, TypeInv

(* One token row is written, and nothing else but the request.             *)
LEMMA TokenWritten ==
    ASSUME Inv, UNCHANGED <<stage, joined, begun, signIns, sessions, browser>>,
           mishaps' \in Nat, NEW t \in DOMAIN tokens,
           \E r \in Token :
               /\ tokens' = [tokens EXCEPT ![t] = r]
               /\ r.person = tokens[t].person
               /\ r.workspace = tokens[t].workspace
               /\ r.state = "live" => tokens[t].state = "live"
    PROVE  /\ Kept /\ NobodyJoins
           /\ request' \in [Requests -> Request] /\ RequestsHold' => Inv'
<1> USE DEF Inv
<1>1. tokens' \in Seq(Token) /\ TokensHold' /\ TokensKept
  BY TokenRewritten DEF RowsInv
<1>2. Kept /\ NobodyJoins
  BY <1>1 DEF Kept, SignInsKept, SessionsKept, NobodyJoins
<1>3. CookiesHold'
  BY <1>1, <1>2, CookiesHoldOn DEF RowsInv, Kept
<1>4. MembershipsHold' /\ SessionsHold'
  BY DEF RowsInv, MembershipsHold, SessionsHold
<1>. QED BY <1>1, <1>2, <1>3, <1>4 DEF RowsInv, TypeInv

(* The row that expires, is deleted or is stamped stays whose it was.      *)
LEMMA SessionEnds ==
    ASSUME Inv, NEW i \in DOMAIN sessions, NEW state \in Rows \ {"live"},
           sessions' = [sessions EXCEPT ![i] = [@ EXCEPT !.state = state]]
    PROVE  \E r \in Session :
               /\ sessions' = [sessions EXCEPT ![i] = r]
               /\ r.person = sessions[i].person
               /\ r.signIn = sessions[i].signIn
               /\ r.state = "live" => sessions[i].state = "live"
               /\ r.active # None => stage[r.active] = "open"
<1> DEFINE r == [sessions[i] EXCEPT !.state = state]
<1>1. sessions[i] \in Session
  BY RowTypes DEF Inv
<1>2. /\ r \in Session /\ r.person = sessions[i].person
      /\ r.signIn = sessions[i].signIn /\ r.state # "live"
      /\ r.active = sessions[i].active
  BY <1>1 DEF Session
<1>3. sessions' = [sessions EXCEPT ![i] = r]
  OBVIOUS
<1>4. sessions[i].active # None => stage[sessions[i].active] = "open"
  BY DEF Inv, RowsInv, SessionsHold
<1> HIDE DEF r
<1>. QED BY <1>2, <1>3, <1>4

LEMMA TokenEnds ==
    ASSUME Inv, NEW t \in DOMAIN tokens, NEW state \in Rows \ {"live"},
           tokens' = [tokens EXCEPT ![t] = [@ EXCEPT !.state = state]]
    PROVE  \E r \in Token :
               /\ tokens' = [tokens EXCEPT ![t] = r]
               /\ r.person = tokens[t].person
               /\ r.workspace = tokens[t].workspace
               /\ r.state = "live" => tokens[t].state = "live"
<1> DEFINE r == [tokens[t] EXCEPT !.state = state]
<1>1. tokens[t] \in Token
  BY RowTypes DEF Inv
<1>2. /\ r \in Token /\ r.person = tokens[t].person
      /\ r.workspace = tokens[t].workspace /\ r.state # "live"
  BY <1>1 DEF Token
<1>3. tokens' = [tokens EXCEPT ![t] = r]
  OBVIOUS
<1> HIDE DEF r
<1>. QED BY <1>2, <1>3

LEMMA DeleteExpiredSessionStep ==
    ASSUME Inv, NEW q \in Requests, DeleteExpiredSession(q) PROVE Inv'
<1> DEFINE i == request[q].credential
<1>1. i \in DOMAIN sessions
  BY DEF Inv, RequestsHold, Holds, SessionHolds, BySession, DeleteExpiredSession
<1>2. sessions' = [sessions EXCEPT ![i] = [@ EXCEPT !.state = "gone"]]
  BY DEF DeleteExpiredSession
<1>3. /\ UNCHANGED <<stage, joined, begun, signIns, tokens, browser>>
      /\ mishaps' \in Nat
  BY DEF DeleteExpiredSession, member, Inv, TypeInv
<1> HIDE DEF i
<1>4. Kept /\ NobodyJoins
      /\ (request' \in [Requests -> Request] /\ RequestsHold' => Inv')
  BY <1>1, <1>2, <1>3, SessionEnds, SessionWritten DEF Rows
<1>. QED BY <1>4, Ended DEF DeleteExpiredSession, Inv, RowsInv

LEMMA DeleteSessionStep ==
    ASSUME Inv, NEW q \in Requests, DeleteSession(q) PROVE Inv'
<1> DEFINE i == request[q].credential
<1>1. i \in DOMAIN sessions
  BY DEF Inv, RequestsHold, Holds, SessionHolds, BySession, DeleteSession,
         Handling
<1>2. sessions' = [sessions EXCEPT ![i] = [@ EXCEPT !.state = "gone"]]
  BY DEF DeleteSession
<1>3. /\ UNCHANGED <<stage, joined, begun, signIns, tokens, browser>>
      /\ mishaps' \in Nat
  BY DEF DeleteSession, member, Inv, TypeInv
<1> HIDE DEF i
<1>4. Kept /\ NobodyJoins
      /\ (request' \in [Requests -> Request] /\ RequestsHold' => Inv')
  BY <1>1, <1>2, <1>3, SessionEnds, SessionWritten DEF Rows
<1>5. request[q].browser \in Browsers
  BY DEF Inv, RequestsHold, Holds, SessionHolds, BySession, DeleteSession,
         Handling
<1>6. request' \in [Requests -> Request] /\ RequestsHold'
  BY <1>4, <1>5, Answered DEF DeleteSession, Inv, RowsInv
<1>. QED BY <1>4, <1>6

LEMMA SelectStep ==
    ASSUME Inv, NEW q \in Requests, SelectWorkspace(q) PROVE Inv'
<1> DEFINE i == request[q].credential
           w == request[q].workspace
<1>1. i \in DOMAIN sessions /\ w \in Workspaces
  BY DEF Inv, RequestsHold, Holds, SessionHolds, BySession, SelectWorkspace
<1>2. /\ UNCHANGED <<stage, joined, begun, signIns, tokens, browser>>
      /\ mishaps' \in Nat /\ End(q)
  BY DEF SelectWorkspace, member, Inv, TypeInv
<1>3. CASE sessions[i].state # "gone" /\ stage[w] = "open"
  <2> DEFINE r == [sessions[i] EXCEPT !.active = w]
  <2>1. sessions' = [sessions EXCEPT ![i] = r]
    BY <1>3 DEF SelectWorkspace
  <2>2. sessions[i] \in Session
    BY <1>1, RowTypes DEF Inv
  <2>3. /\ r \in Session /\ r.person = sessions[i].person
        /\ r.signIn = sessions[i].signIn /\ r.state = sessions[i].state
        /\ r.active = w
    BY <1>1, <2>2 DEF Session
  <2> HIDE DEF r, i, w
  <2>4. Kept /\ NobodyJoins
        /\ (request' \in [Requests -> Request] /\ RequestsHold' => Inv')
    BY <1>1, <1>2, <1>3, <2>1, <2>3, SessionWritten
  <2>. QED BY <1>2, <2>4, Ended DEF Inv, RowsInv
<1>4. CASE ~(sessions[i].state # "gone" /\ stage[w] = "open")
  <2>1. sessions' = sessions
    BY <1>4 DEF SelectWorkspace
  <2>2. Kept /\ NobodyJoins
    BY <1>2, <2>1, NothingMoves
  <2>. QED BY <1>2, <2>1, <2>2, Ended, RowsUnchanged DEF Inv, RowsInv
<1>. QED BY <1>3, <1>4

LEMMA ExpireSessionStep ==
    ASSUME Inv, NEW i \in DOMAIN sessions, ExpireSession(i) PROVE Inv'
<1>1. sessions' = [sessions EXCEPT ![i] = [@ EXCEPT !.state = "expired"]]
  BY DEF ExpireSession
<1>2. UNCHANGED <<stage, joined, begun, signIns, tokens, browser>>
  BY DEF ExpireSession, member
<1>3. mishaps' \in Nat
  BY Counted DEF ExpireSession, Inv
<1>4. Kept /\ NobodyJoins
      /\ (request' \in [Requests -> Request] /\ RequestsHold' => Inv')
  BY <1>1, <1>2, <1>3, SessionEnds, SessionWritten DEF Rows
<1>5. request' = request
  BY DEF ExpireSession
<1>6. RequestsHold'
  BY <1>4, <1>5, SameRequests DEF Inv, RowsInv
<1>. QED BY <1>4, <1>5, <1>6 DEF Inv, TypeInv

LEMMA ExpireTokenStep ==
    ASSUME Inv, NEW t \in DOMAIN tokens, ExpireToken(t) PROVE Inv'
<1>1. tokens' = [tokens EXCEPT ![t] = [@ EXCEPT !.state = "expired"]]
  BY DEF ExpireToken
<1>2. UNCHANGED <<stage, joined, begun, signIns, sessions, browser>>
  BY DEF ExpireToken, member
<1>3. mishaps' \in Nat
  BY Counted DEF ExpireToken, Inv
<1>4. Kept /\ NobodyJoins
      /\ (request' \in [Requests -> Request] /\ RequestsHold' => Inv')
  BY <1>1, <1>2, <1>3, TokenEnds, TokenWritten DEF Rows
<1>5. request' = request
  BY DEF ExpireToken
<1>6. RequestsHold'
  BY <1>4, <1>5, SameRequests DEF Inv, RowsInv
<1>. QED BY <1>4, <1>5, <1>6 DEF Inv, TypeInv

LEMMA DeleteExpiredTokenStep ==
    ASSUME Inv, NEW q \in Requests, DeleteExpiredToken(q) PROVE Inv'
<1> DEFINE t == request[q].credential
<1>1. t \in DOMAIN tokens
  BY DEF Inv, RequestsHold, Holds, TokenHolds, ByToken, DeleteExpiredToken
<1>2. tokens' = [tokens EXCEPT ![t] = [@ EXCEPT !.state = "gone"]]
  BY DEF DeleteExpiredToken
<1>3. /\ UNCHANGED <<stage, joined, begun, signIns, sessions, browser>>
      /\ mishaps' \in Nat
  BY DEF DeleteExpiredToken, member, Inv, TypeInv
<1> HIDE DEF t
<1>4. Kept /\ NobodyJoins
      /\ (request' \in [Requests -> Request] /\ RequestsHold' => Inv')
  BY <1>1, <1>2, <1>3, TokenEnds, TokenWritten DEF Rows
<1>. QED BY <1>4, Ended DEF DeleteExpiredToken, Inv, RowsInv

LEMMA DeleteTokenStep ==
    ASSUME Inv, NEW q \in Requests, NEW t \in DOMAIN tokens, DeleteMcpToken(q, t)
    PROVE  Inv'
<1>1. /\ UNCHANGED <<stage, joined, begun, signIns, sessions, browser>>
      /\ mishaps' \in Nat /\ End(q)
  BY DEF DeleteMcpToken, member, Inv, TypeInv
<1>2. CASE tokens' = [tokens EXCEPT ![t] = [@ EXCEPT !.state = "gone"]]
  <2>1. Kept /\ NobodyJoins
        /\ (request' \in [Requests -> Request] /\ RequestsHold' => Inv')
    BY <1>1, <1>2, TokenEnds, TokenWritten DEF Rows
  <2>. QED BY <1>1, <2>1, Ended DEF Inv, RowsInv
<1>3. CASE tokens' = tokens
  <2>1. Kept /\ NobodyJoins
    BY <1>1, <1>3, NothingMoves
  <2>. QED BY <1>1, <1>3, <2>1, Ended, RowsUnchanged DEF Inv, RowsInv
<1>. QED BY <1>2, <1>3 DEF DeleteMcpToken

LEMMA StampStep ==
    ASSUME Inv, NEW q \in Requests, StampMcpToken(q) PROVE Inv'
<1> USE DEF Inv
<1> DEFINE x == request[q]
           t == x.credential
<1>1. x \in Request /\ Holds(x) /\ x.phase = "stamp"
  BY DEF StampMcpToken, TypeInv, RequestsHold
<1>2. /\ x.kind = "call" /\ t \in DOMAIN tokens
      /\ x.person = tokens[t].person /\ x.live
      /\ x.active # None => x.active \in x.mine
  BY <1>1 DEF Holds, TokenHolds, HistoryHolds, ByToken
<1>3. /\ UNCHANGED <<stage, joined, begun, signIns, sessions, browser>>
      /\ mishaps' \in Nat
  BY DEF StampMcpToken, member, TypeInv
<1>4. Kept /\ NobodyJoins
      /\ (request' \in [Requests -> Request] /\ RequestsHold' => Inv')
  <2>1. CASE tokens[t].state = "gone"
    <3>1. tokens' = tokens
      BY <2>1 DEF StampMcpToken
    <3>2. Kept /\ NobodyJoins
      BY <1>3, <3>1, NothingMoves
    <3>. QED BY <1>3, <3>1, <3>2, RowsUnchanged
  <2>2. CASE tokens[t].state # "gone"
    <3> DEFINE r == [tokens[t] EXCEPT !.used = TRUE]
    <3>1. tokens' = [tokens EXCEPT ![t] = r]
      BY <2>2 DEF StampMcpToken
    <3>2. tokens[t] \in Token
      BY <1>2, RowTypes
    <3>3. /\ r \in Token /\ r.person = tokens[t].person
          /\ r.workspace = tokens[t].workspace /\ r.state = tokens[t].state
      BY <3>2 DEF Token
    <3> HIDE DEF r, t
    <3>. QED BY <1>2, <1>3, <3>1, <3>3, TokenWritten
  <2>. QED BY <2>1, <2>2
<1> DEFINE y == [x EXCEPT !.phase = "call"]
<1>5. request' = [request EXCEPT ![q] = y]
  BY DEF StampMcpToken, Go
<1>6. /\ y \in Request /\ y.phase = "call" /\ y.kind = x.kind
      /\ y.credential = t /\ y.person = x.person
      /\ y.active = x.active /\ y.live = x.live /\ y.mine = x.mine
  BY <1>1 DEF Request, Phases
<1> HIDE DEF y, t
<1>7. PICK z : z = y
  OBVIOUS
<1>8. t \in DOMAIN tokens' /\ tokens'[t].person = tokens[t].person
  BY <1>2, <1>4 DEF Kept, TokensKept
<1>10. Holds(z)'
  BY <1>2, <1>6, <1>7, <1>8
     DEF Holds, SignInHolds, SessionHolds, TokenHolds, HistoryHolds,
         BySession, ByToken
<1>. QED BY <1>4, <1>5, <1>6, <1>7, <1>10, Stepped DEF RowsInv

LEMMA CreateTokenStep ==
    ASSUME Inv, NEW q \in Requests, CreateMcpToken(q) PROVE Inv'
<1> USE DEF Inv
<1> DEFINE x == request[q]
           r == [person |-> x.person, workspace |-> x.active, state |-> "live",
                 used |-> FALSE]
<1>1. x \in Request /\ Holds(x) /\ x.phase = "handle"
  BY DEF CreateMcpToken, Handling, TypeInv, RequestsHold
<1>2. x.person \in People
  BY <1>1, HasPerson DEF Holds, BySession
<1>3. /\ UNCHANGED <<stage, joined, begun, signIns, sessions, browser>>
      /\ mishaps' \in Nat /\ End(q)
  BY DEF CreateMcpToken, member, TypeInv
<1>4. CASE x.active # None /\ IsMember(x.person, x.active)
  <2>1. tokens' = Append(tokens, r)
    BY <1>4 DEF CreateMcpToken
  <2>2. /\ r \in Token /\ r.person = x.person /\ r.workspace = x.active
    BY <1>1, <1>2, <1>4 DEF Request, Token, Rows
  <2> HIDE DEF r
  <2>3. /\ tokens' \in Seq(Token)
        /\ DOMAIN tokens' = DOMAIN tokens \cup {Len(tokens) + 1}
        /\ \A t \in DOMAIN tokens : tokens'[t] = tokens[t]
        /\ tokens'[Len(tokens) + 1] = r
    BY <2>1, <2>2, Appended DEF TypeInv
  <2>4. TokensHold'
    BY <1>3, <1>4, <2>2, <2>3 DEF RowsInv, TokensHold, IsMember
  <2>5. Kept /\ NobodyJoins
    BY <1>3, <2>3
       DEF Kept, SignInsKept, SessionsKept, TokensKept, NobodyJoins
  <2>6. request' \in [Requests -> Request] /\ RequestsHold'
    BY <1>3, <2>5, Ended DEF RowsInv
  <2>7. CookiesHold'
    BY <1>3, <2>5, CookiesHoldOn DEF RowsInv, Kept
  <2>8. MembershipsHold' /\ SessionsHold'
    BY <1>3 DEF RowsInv, MembershipsHold, SessionsHold
  <2>. QED BY <1>3, <2>3, <2>4, <2>6, <2>7, <2>8 DEF RowsInv, TypeInv
<1>5. CASE ~(x.active # None /\ IsMember(x.person, x.active))
  <2>1. tokens' = tokens
    BY <1>5 DEF CreateMcpToken
  <2>2. Kept /\ NobodyJoins
    BY <1>3, <2>1, NothingMoves
  <2>. QED BY <1>3, <2>1, <2>2, Ended, RowsUnchanged DEF RowsInv
<1>. QED BY <1>4, <1>5

LEMMA StartStep ==
    ASSUME Inv, NEW b \in Browsers, StartSignIn(b) PROVE Inv'
<1> USE DEF Inv
<1> DEFINE r == [browser |-> b, exchanged |-> FALSE]
           n == Len(signIns) + 1
<1>1. signIns' = Append(signIns, r)
  BY DEF StartSignIn
<1>2. r \in SignIn /\ r.browser = b
  BY DEF SignIn
<1>3. /\ UNCHANGED <<stage, joined, begun, sessions, tokens, request>>
      /\ mishaps' \in Nat
  BY DEF StartSignIn, member, TypeInv
<1> HIDE DEF r
<1>4. /\ signIns' \in Seq(SignIn) /\ DOMAIN signIns' = DOMAIN signIns \cup {n}
      /\ \A s \in DOMAIN signIns : signIns'[s] = signIns[s]
      /\ signIns'[n] = r
  BY <1>1, <1>2, Appended DEF TypeInv
<1>5. Len(signIns') = n /\ n \in Nat
  BY <1>1, <1>2, AppendProperties, RowTypes DEF TypeInv
<1> HIDE DEF n
<1>6. Kept /\ NobodyJoins
  BY <1>3, <1>4 DEF Kept, SignInsKept, SessionsKept, TokensKept, NobodyJoins
<1>7. RequestsHold'
  BY <1>3, <1>6, SameRequests DEF RowsInv
<1>8. browser' = [browser EXCEPT ![b] = [browser[b] EXCEPT !.state = n]]
  BY <1>5 DEF StartSignIn
<1>9. /\ browser' \in [Browsers -> Cookies]
      /\ \A c \in Browsers :
             /\ browser'[c].session = browser[c].session
             /\ browser'[c].state = IF c = b THEN n ELSE browser[c].state
  <2> DEFINE y == [browser[b] EXCEPT !.state = n]
  <2>1. browser \in [Browsers -> Cookies]
    BY DEF TypeInv
  <2>2. y \in Cookies /\ y.session = browser[b].session /\ y.state = n
    BY <1>5, <2>1 DEF Cookies
  <2>3. browser' = [browser EXCEPT ![b] = y]
    BY <1>8
  <2> HIDE DEF y
  <2>. QED BY <2>1, <2>2, <2>3
<1>10. CookiesHold'
  <2>1. ASSUME NEW c \in Browsers, browser'[c].session # 0
        PROVE  SignedInBy(browser[c].session, c)'
    BY <1>3, <1>4, <1>9, <2>1
       DEF RowsInv, CookiesHold, SignedInBy, SessionsHold
  <2>2. ASSUME NEW c \in Browsers, browser'[c].state # 0
        PROVE  StartedBy(browser[c].state, c)'
    <3>1. CASE c = b
      BY <1>2, <1>4, <1>9, <3>1 DEF StartedBy
    <3>2. CASE c # b
      BY <1>4, <1>9, <2>2, <3>2 DEF RowsInv, CookiesHold, StartedBy
    <3>. QED BY <3>1, <3>2
  <2>. QED BY <2>1, <2>2 DEF CookiesHold
<1>11. SessionsHold'
  BY <1>3, <1>4 DEF RowsInv, SessionsHold
<1>12. MembershipsHold' /\ TokensHold'
  BY <1>3 DEF RowsInv, MembershipsHold, TokensHold, IsMember
<1>. QED BY <1>3, <1>4, <1>7, <1>9, <1>10, <1>11, <1>12 DEF RowsInv, TypeInv

LEMMA ExchangeStep ==
    ASSUME Inv, NEW q \in Requests, ExchangeCode(q) PROVE Inv'
<1> USE DEF Inv
<1> DEFINE x == request[q]
           s == x.credential
           r == [signIns[s] EXCEPT !.exchanged = TRUE]
<1>1. x \in Request /\ Holds(x) /\ x.phase = "exchange"
  BY DEF ExchangeCode, TypeInv, RequestsHold
<1>2. /\ x.kind = "signin" /\ x.person \in People /\ x.browser \in Browsers
      /\ s \in DOMAIN signIns /\ signIns[s].browser = x.browser
  BY <1>1 DEF Holds, SignInHolds, StartedBy
<1>3. /\ UNCHANGED <<stage, joined, begun, sessions, tokens, browser>>
      /\ mishaps' \in Nat
  BY DEF ExchangeCode, member, TypeInv
<1>4. /\ signIns' \in Seq(SignIn) /\ DOMAIN signIns' = DOMAIN signIns
      /\ \A t \in DOMAIN signIns : signIns'[t].browser = signIns[t].browser
  <2>1. signIns[s] \in SignIn
    BY <1>2, RowTypes
  <2>2. r \in SignIn /\ r.browser = signIns[s].browser
    BY <2>1 DEF SignIn
  <2>3. signIns' = [signIns EXCEPT ![s] = r]
    BY DEF ExchangeCode
  <2> HIDE DEF r, s
  <2>4. /\ signIns' \in Seq(SignIn) /\ DOMAIN signIns' = DOMAIN signIns
        /\ \A t \in DOMAIN signIns :
               signIns'[t] = IF t = s THEN r ELSE signIns[t]
    BY <1>2, <2>2, <2>3, Rewritten DEF TypeInv
  <2>. QED BY <2>2, <2>4
<1>5. Kept /\ NobodyJoins
  BY <1>3, <1>4 DEF Kept, SignInsKept, SessionsKept, TokensKept, NobodyJoins
<1>6. request' \in [Requests -> Request] /\ RequestsHold'
  <2>1. CASE Answering(q, "refused", 0)
    BY <1>2, <1>5, <2>1, Answered DEF RowsInv
  <2>2. CASE request' = [request EXCEPT ![q] =
                [@ EXCEPT !.phase = "open", !.active = Newest(request[q].person)]]
    <3> DEFINE new == Newest(x.person)
               y == [x EXCEPT !.phase = "open", !.active = new]
    <3>1. new \in Workspaces \cup {None}
      <4>1. joined[x.person] \in Seq(Workspaces)
        BY <1>2 DEF TypeInv
      <4>2. joined[x.person] # <<>> => Last(joined[x.person]) \in Workspaces
        BY <4>1, EmptySeq, ElementOfSeq, LenProperties DEF Last
      <4>. QED BY <4>2 DEF Newest
    <3>2. request' = [request EXCEPT ![q] = y]
      BY <2>2
    <3> HIDE DEF new
    <3>3. /\ y \in Request /\ y.phase = "open" /\ y.kind = x.kind
          /\ y.person = x.person /\ y.browser = x.browser /\ y.credential = s
      BY <1>1, <3>1 DEF Request, Phases
    <3> HIDE DEF y
    <3>4. PICK z : z = y
      OBVIOUS
    <3>5. Holds(z)'
      BY <1>2, <1>4, <3>3, <3>4
         DEF Holds, SignInHolds, SessionHolds, TokenHolds, HistoryHolds,
             BySession, ByToken, StartedBy
    <3>. QED BY <1>5, <3>2, <3>3, <3>4, <3>5, Stepped DEF RowsInv
  <2>. QED BY <2>1, <2>2 DEF ExchangeCode
<1>7. CookiesHold'
  BY <1>3, <1>5, CookiesHoldOn DEF RowsInv, Kept
<1>8. MembershipsHold' /\ TokensHold' /\ SessionsHold'
  BY <1>3, <1>4 DEF RowsInv, MembershipsHold, TokensHold, SessionsHold, IsMember
<1>. QED BY <1>3, <1>4, <1>6, <1>7, <1>8 DEF RowsInv, TypeInv

LEMMA CreateSessionStep ==
    ASSUME Inv, NEW q \in Requests, CreateSession(q) PROVE Inv'
<1> USE DEF Inv
<1> DEFINE x == request[q]
           n == Len(sessions) + 1
           r == [person |-> x.person, active |-> x.active, state |-> "live",
                 signIn |-> x.credential]
<1>1. x \in Request /\ Holds(x) /\ x.phase = "open"
  BY DEF CreateSession, TypeInv, RequestsHold
<1>2. /\ x.person \in People /\ x.browser \in Browsers
      /\ x.credential \in DOMAIN signIns
      /\ signIns[x.credential].browser = x.browser
  BY <1>1 DEF Holds, SignInHolds, StartedBy
<1>3. /\ UNCHANGED <<stage, joined, begun, signIns, tokens, browser>>
      /\ mishaps' \in Nat
  BY DEF CreateSession, member, TypeInv
<1>4. CASE x.active # None /\ stage[x.active] # "open"
  <2>1. Answering(q, "refused", 0) /\ sessions' = sessions
    BY <1>4 DEF CreateSession
  <2>2. Kept /\ NobodyJoins
    BY <1>3, <2>1, NothingMoves
  <2>3. request' \in [Requests -> Request] /\ RequestsHold'
    BY <1>2, <2>1, <2>2, Answered DEF RowsInv
  <2>. QED BY <1>3, <2>1, <2>3, RowsUnchanged
<1>5. CASE ~(x.active # None /\ stage[x.active] # "open")
  <2>1. sessions' = Append(sessions, r) /\ Answering(q, "signed", n)
    BY <1>5 DEF CreateSession
  <2>2. /\ r \in Session /\ r.person = x.person /\ r.active = x.active
        /\ r.signIn = x.credential
    BY <1>1, <1>2 DEF Request, Session, Rows
  <2> HIDE DEF r, n
  <2>3. /\ sessions' \in Seq(Session)
        /\ DOMAIN sessions' = DOMAIN sessions \cup {n}
        /\ \A i \in DOMAIN sessions : sessions'[i] = sessions[i]
        /\ sessions'[n] = r
    BY <2>1, <2>2, Appended DEF TypeInv, n
  <2>4. Kept /\ NobodyJoins
    BY <1>3, <2>3
       DEF Kept, SignInsKept, SessionsKept, TokensKept, NobodyJoins
  <2>5. n \in Nat
    BY RowTypes DEF n
  <2>6. n \in DOMAIN sessions' /\ signIns'[sessions'[n].signIn].browser = x.browser
    BY <1>2, <1>3, <2>2, <2>3
  <2>7. request' \in [Requests -> Request] /\ RequestsHold'
    BY <1>2, <2>1, <2>4, <2>5, <2>6, Answered DEF RowsInv
  <2>8. SessionsHold'
    BY <1>2, <1>3, <1>5, <2>2, <2>3 DEF RowsInv, SessionsHold
  <2>9. CookiesHold'
    BY <1>3, <2>4, CookiesHoldOn DEF RowsInv, Kept
  <2>10. MembershipsHold' /\ TokensHold'
    BY <1>3 DEF RowsInv, MembershipsHold, TokensHold, IsMember
  <2>. QED BY <1>3, <2>3, <2>7, <2>8, <2>9, <2>10 DEF RowsInv, TypeInv
<1>. QED BY <1>4, <1>5

(* What an answer does to the cookies of its browser.                      *)
LEMMA CookiesSet ==
    ASSUME Inv, NEW q \in Requests, End(q),
           UNCHANGED <<stage, joined, begun, signIns, sessions, tokens>>,
           mishaps' \in Nat, NEW b \in Browsers,
           \E y \in Cookies :
               /\ browser' = [browser EXCEPT ![b] = y]
               /\ y.session # 0 => SignedInBy(y.session, b)
               /\ y.state # 0 => StartedBy(y.state, b)
    PROVE  Inv'
<1> USE DEF Inv
<1>1. PICK y \in Cookies :
          /\ browser' = [browser EXCEPT ![b] = y]
          /\ y.session # 0 => SignedInBy(y.session, b)
          /\ y.state # 0 => StartedBy(y.state, b)
  OBVIOUS
<1>2. browser \in [Browsers -> Cookies]
  BY DEF TypeInv
<1>3. /\ browser' \in [Browsers -> Cookies]
      /\ \A c \in Browsers : browser'[c] = IF c = b THEN y ELSE browser[c]
  BY <1>1, <1>2
<1>4. CookiesHold'
  BY <1>1, <1>3 DEF RowsInv, CookiesHold, SignedInBy, StartedBy
<1>5. request' \in [Requests -> Request] /\ RequestsHold'
  BY NothingMoves, Ended DEF RowsInv
<1>6. MembershipsHold' /\ TokensHold' /\ SessionsHold'
  BY DEF RowsInv, MembershipsHold, TokensHold, SessionsHold, IsMember
<1>. QED BY <1>3, <1>4, <1>5, <1>6 DEF RowsInv, TypeInv

LEMMA AnswerSignInStep ==
    ASSUME Inv, NEW q \in Requests, AnswerSignIn(q) PROVE Inv'
<1> DEFINE x == request[q]
           i == IF x.phase = "signed" THEN x.credential
                ELSE browser[x.browser].session
           y == [session |-> i, state |-> 0]
<1>1. /\ x \in Request /\ Holds(x) /\ x.phase \in {"signed", "refused"}
      /\ x.browser \in Browsers
  BY DEF AnswerSignIn, Inv, TypeInv, RequestsHold, Holds, SignInHolds
<1>2. i \in Nat /\ (i # 0 => SignedInBy(i, x.browser))
  <2>1. CASE x.phase = "signed"
    BY <1>1, <2>1 DEF Holds, SignInHolds, Request
  <2>2. CASE x.phase # "signed"
    BY <1>1, <2>2 DEF Inv, RowsInv, TypeInv, CookiesHold, Cookies
  <2>. QED BY <2>1, <2>2
<1>3. browser' = [browser EXCEPT ![x.browser] = y]
  BY DEF AnswerSignIn
<1> HIDE DEF i
<1>4. y \in Cookies /\ y.session = i /\ y.state = 0
  BY <1>2 DEF Cookies
<1> HIDE DEF y
<1>5. /\ UNCHANGED <<stage, joined, begun, signIns, sessions, tokens>>
      /\ mishaps' \in Nat /\ End(q)
  BY DEF AnswerSignIn, member, Inv, TypeInv
<1>. QED BY <1>1, <1>2, <1>3, <1>4, <1>5, CookiesSet

LEMMA AnswerSignOutStep ==
    ASSUME Inv, NEW q \in Requests, AnswerSignOut(q) PROVE Inv'
<1> DEFINE b == request[q].browser
           y == [browser[b] EXCEPT !.session = 0]
<1>1. b \in Browsers
  BY DEF AnswerSignOut, Inv, RequestsHold, Holds, SignInHolds
<1>2. browser' = [browser EXCEPT ![b] = y]
  BY DEF AnswerSignOut
<1>3. browser[b] \in Cookies
  BY <1>1 DEF Inv, TypeInv
<1>4. y \in Cookies /\ y.session = 0 /\ y.state = browser[b].state
  BY <1>3 DEF Cookies
<1>5. browser[b].state # 0 => StartedBy(browser[b].state, b)
  BY <1>1 DEF Inv, RowsInv, CookiesHold
<1> HIDE DEF y, b
<1>6. /\ UNCHANGED <<stage, joined, begun, signIns, sessions, tokens>>
      /\ mishaps' \in Nat /\ End(q)
  BY DEF AnswerSignOut, member, Inv, TypeInv
<1>. QED BY <1>1, <1>2, <1>4, <1>5, <1>6, CookiesSet

-----------------------------------------------------------------------------
(* The steps that begin and end a membership.                              *)
LEMMA BegunStep ==
    ASSUME Inv, NEW q \in Requests, request[q].phase = "handle",
           request[q].kind \in WorkspaceKinds, NEW w \in Workspaces,
           w = request[q].workspace, ~IsMember(request[q].person, w),
           BeginMembership(q, w),
           stage' \in [Workspaces -> {"unborn", "open", "deleted"}],
           stage'[w] = "open",
           \A v \in Workspaces : stage[v] = "open" => stage'[v] = "open",
           UNCHANGED <<signIns, sessions, tokens, browser, mishaps>>
    PROVE  Inv'
<1> USE DEF Inv
<1> DEFINE p == request[q].person
<1>1. p \in People
  <2>1. Holds(request[q])
    BY DEF RequestsHold
  <2>. QED BY <2>1, HasPerson DEF Holds, BySession
<1>2. joined[p] \in Seq(Workspaces) /\ IsInjective(joined[p])
      /\ w \notin ToSet(joined[p])
  BY <1>1 DEF TypeInv, RowsInv, MembershipsHold, IsMember
<1>3. joined' = [joined EXCEPT ![p] = Append(joined[p], w)]
  BY DEF BeginMembership
<1>4. /\ Append(joined[p], w) \in Seq(Workspaces)
      /\ IsInjective(Append(joined[p], w))
      /\ ToSet(Append(joined[p], w)) = ToSet(joined[p]) \cup {w}
  BY <1>2, JoinedOnce
<1> DEFINE longer == Append(joined[p], w)
<1> HIDE DEF longer
<1>5. /\ joined' \in [People -> Seq(Workspaces)]
      /\ \A o \in People : joined'[o] = IF o = p THEN longer ELSE joined[o]
      /\ IsInjective(longer) /\ ToSet(longer) = ToSet(joined[p]) \cup {w}
  <2>1. joined \in [People -> Seq(Workspaces)]
    BY DEF TypeInv
  <2>. QED BY <1>1, <1>3, <1>4, <2>1 DEF longer
<1>6. begun' \in Nat
  BY DEF BeginMembership, TypeInv
<1>7. MembershipsHold'
  <2> SUFFICES ASSUME NEW o \in People
               PROVE  /\ IsInjective(joined'[o])
                      /\ \A v \in ToSet(joined'[o]) : stage'[v] = "open"
    BY DEF MembershipsHold
  <2>1. \A v \in ToSet(joined[o]) : v \in Workspaces
    <3>1. joined[o] \in Seq(Workspaces)
      BY DEF TypeInv
    <3>. QED BY <3>1, LenProperties, ElementOfSeq DEF ToSet
  <2>2. IsInjective(joined[o]) /\ \A v \in ToSet(joined[o]) : stage[v] = "open"
    BY DEF RowsInv, MembershipsHold
  <2>. QED BY <1>5, <2>1, <2>2
<1>8. SessionsHold'
  <2>1. \A i \in DOMAIN sessions : sessions[i].active \in Workspaces \cup {None}
    BY RowTypes DEF Session
  <2>. QED BY <2>1 DEF RowsInv, SessionsHold
<1>9. TokensHold'
  <2>1. \A t \in DOMAIN tokens : tokens[t].person \in People
    BY RowTypes DEF Token
  <2>. QED BY <1>5, <2>1 DEF RowsInv, TokensHold, IsMember
<1>10. CookiesHold'
  BY DEF RowsInv, CookiesHold, SignedInBy, StartedBy
<1>11. Kept
  BY DEF Kept, SignInsKept, SessionsKept, TokensKept
<1>12. ASSUME NEW r \in Requests
       PROVE  request'[r] \in Request /\ Holds(request[r])'
  <2> DEFINE x == request[r]
  <2>1. x \in Request /\ Holds(x)
    BY DEF TypeInv, RequestsHold
  <2>2. CASE r = q
    <3>1. PICK y \in Request : y = ToSelect(request[q]) /\ Holds(y)'
      BY <1>11, ToSelectHolds DEF Kept
    <3>2. request'[r] = y
      BY <2>2, <3>1 DEF BeginMembership
    <3>. QED BY <3>1, <3>2
  <2>3. CASE r # q /\ x.person = p /\ x.phase # "select"
    <3> DEFINE y == [x EXCEPT !.mine = x.mine \cup {w}]
    <3>1. request'[r] = y
      BY <2>3 DEF BeginMembership
    <3>2. /\ y \in Request /\ y.phase = x.phase /\ y.kind = x.kind
          /\ y.browser = x.browser /\ y.credential = x.credential
          /\ y.person = x.person /\ y.workspace = x.workspace
          /\ y.active = x.active /\ y.live = x.live
          /\ y.mine = x.mine \cup {w}
      BY <2>1 DEF Request
    <3> HIDE DEF y
    <3>3. PICK z : z = y
      OBVIOUS
    <3>4. PICK o : o = x
      OBVIOUS
    <3>5. SignInHolds(o)' /\ SessionHolds(o)' /\ TokenHolds(o)'
      BY <1>11, <2>1, <3>4, SignInHoldsOn, SessionHoldsOn, TokenHoldsOn
         DEF Holds, RowsInv
    <3>6. SignInHolds(z)' /\ SessionHolds(z)' /\ TokenHolds(z)'
      BY <3>2, <3>3, <3>4, <3>5
         DEF SignInHolds, SessionHolds, TokenHolds, BySession, ByToken
    <3>7. /\ x.phase \in {"row", "membership", "token"} =>
                 ToSet(joined[p]) \subseteq x.mine
          /\ x.phase \in {"membership", "handle", "stamp", "call"} => x.live
          /\ (x.phase \in {"handle", "stamp", "call"} /\ x.active # None) =>
                 x.active \in x.mine
      BY <2>1, <2>3 DEF Holds, HistoryHolds
    <3>8. ToSet(joined'[p]) = ToSet(joined[p]) \cup {w}
      BY <1>1, <1>5
    <3>9. PICK m : m = p
      OBVIOUS
    <3>10. HistoryHolds(z)'
      BY <2>3, <3>2, <3>3, <3>7, <3>8, <3>9 DEF HistoryHolds
    <3>. QED BY <3>1, <3>2, <3>3, <3>6, <3>10 DEF Holds
  <2>4. CASE r # q /\ ~(x.person = p /\ x.phase # "select")
    <3>1. request'[r] = x
      BY <2>4 DEF BeginMembership
    <3>2. PICK o : o = x
      OBVIOUS
    <3>3. SignInHolds(o)' /\ SessionHolds(o)' /\ TokenHolds(o)'
      BY <1>11, <2>1, <3>2, SignInHoldsOn, SessionHoldsOn, TokenHoldsOn
         DEF Holds, RowsInv
    <3>4. x.phase \in {"row", "membership", "token"} =>
              x.person \in People /\ x.person # p
      BY <2>1, <2>4, HasPerson DEF Holds, BySession, ByToken
    <3>5. HistoryHolds(o)'
      BY <1>5, <2>1, <3>2, <3>4 DEF Holds, HistoryHolds
    <3>. QED BY <2>1, <3>1, <3>2, <3>3, <3>5 DEF Holds
  <2>. QED BY <2>2, <2>3, <2>4
<1>13. request' \in [Requests -> Request] /\ RequestsHold'
  <2>1. request' = [r \in Requests |-> request'[r]]
    BY DEF BeginMembership
  <2>. QED BY <1>12, <2>1 DEF RequestsHold
<1>. QED BY <1>5, <1>6, <1>7, <1>8, <1>9, <1>10, <1>13 DEF RowsInv, TypeInv

LEMMA CreateWorkspaceStep ==
    ASSUME Inv, NEW q \in Requests, CreateWorkspace(q) PROVE Inv'
<1> DEFINE w == request[q].workspace
<1>1. /\ Holds(request[q]) /\ request[q].phase = "handle"
      /\ request[q].kind = "create"
  BY DEF CreateWorkspace, Handling, Inv, RequestsHold
<1>2. w \in Workspaces /\ request[q].person \in People
  BY <1>1, HasPerson
     DEF Inv, Holds, SessionHolds, BySession, WorkspaceKinds
<1>3. ~IsMember(request[q].person, w)
  BY <1>2 DEF CreateWorkspace, Inv, RowsInv, MembershipsHold, IsMember
<1>4. stage' = [stage EXCEPT ![w] = "open"]
  BY DEF CreateWorkspace
<1>5. /\ stage' \in [Workspaces -> {"unborn", "open", "deleted"}]
      /\ stage'[w] = "open"
      /\ \A v \in Workspaces : stage[v] = "open" => stage'[v] = "open"
  BY <1>2, <1>4 DEF Inv, TypeInv
<1>6. BeginMembership(q, w) /\ UNCHANGED <<signIns, sessions, tokens, browser, mishaps>>
  BY DEF CreateWorkspace
<1>. QED BY <1>1, <1>2, <1>3, <1>5, <1>6, BegunStep DEF WorkspaceKinds

LEMMA JoinStep ==
    ASSUME Inv, NEW q \in Requests, JoinWorkspace(q) PROVE Inv'
<1> DEFINE w == request[q].workspace
<1>1. /\ Holds(request[q]) /\ request[q].phase = "handle"
      /\ request[q].kind = "join"
  BY DEF JoinWorkspace, Handling, Inv, RequestsHold
<1>2. w \in Workspaces
  BY <1>1 DEF Holds, SessionHolds, BySession, WorkspaceKinds
<1>3. UNCHANGED <<stage, signIns, sessions, tokens, browser, mishaps>>
  BY DEF JoinWorkspace
<1>4. CASE End(q) /\ UNCHANGED <<joined, begun>>
  <2>1. request' \in [Requests -> Request] /\ RequestsHold'
    BY <1>3, <1>4, NothingMoves, Ended DEF Inv, RowsInv
  <2>. QED BY <1>3, <1>4, <2>1, RowsUnchanged DEF Inv, TypeInv
<1>5. CASE /\ request' = [request EXCEPT ![q] = ToSelect(@)]
           /\ UNCHANGED <<joined, begun>>
  <2>1. Kept /\ NobodyJoins
    BY <1>3, <1>5, NothingMoves
  <2>2. PICK y \in Request : y = ToSelect(request[q]) /\ Holds(y)'
    BY <1>1, <2>1, ToSelectHolds DEF WorkspaceKinds, Kept
  <2>3. request' = [request EXCEPT ![q] = y]
    BY <1>5, <2>2
  <2>4. request' \in [Requests -> Request] /\ RequestsHold'
    BY <2>1, <2>2, <2>3, Stepped DEF Inv, RowsInv
  <2>. QED BY <1>3, <1>5, <2>4, RowsUnchanged DEF Inv, TypeInv
<1>6. CASE /\ stage[w] = "open" /\ ~IsMember(request[q].person, w)
           /\ BeginMembership(q, w)
  <2>1. /\ stage' \in [Workspaces -> {"unborn", "open", "deleted"}]
        /\ stage'[w] = "open"
        /\ \A v \in Workspaces : stage[v] = "open" => stage'[v] = "open"
    BY <1>3, <1>6 DEF Inv, TypeInv
  <2>. QED BY <1>1, <1>2, <1>3, <1>6, <2>1, BegunStep DEF WorkspaceKinds
<1>. QED BY <1>4, <1>5, <1>6 DEF JoinWorkspace

LEMMA LeaveStep ==
    ASSUME Inv, NEW q \in Requests, LeaveWorkspace(q) PROVE Inv'
<1> USE DEF Inv
<1> DEFINE p == request[q].person
           w == request[q].workspace
           last == \A other \in People \ {p} : ~IsMember(other, w)
<1>1. /\ Holds(request[q]) /\ request[q].phase = "handle"
      /\ request[q].kind = "leave"
  BY DEF LeaveWorkspace, Handling, RequestsHold
<1>2. w \in Workspaces /\ p \in People
  BY <1>1, HasPerson DEF Holds, SessionHolds, BySession, WorkspaceKinds
<1>3. /\ UNCHANGED <<begun, signIns, browser>> /\ mishaps' \in Nat /\ End(q)
  BY DEF LeaveWorkspace, TypeInv
<1>4. CASE ~IsMember(p, w)
  <2>1. UNCHANGED <<joined, tokens, stage, sessions>>
    BY <1>4 DEF LeaveWorkspace
  <2>2. request' \in [Requests -> Request] /\ RequestsHold'
    BY <1>3, <2>1, NothingMoves, Ended DEF RowsInv
  <2>. QED BY <1>3, <2>1, <2>2, RowsUnchanged
<1>5. CASE IsMember(p, w)
  <2>1. /\ \E i \in DOMAIN joined[p] :
               joined[p][i] = w /\ joined' = [joined EXCEPT ![p] = RemoveAt(joined[p], i)]
        /\ tokens' = Revoked(p, w)
        /\ stage' = IF last THEN [stage EXCEPT ![w] = "deleted"] ELSE stage
        /\ sessions' = [i \in DOMAIN sessions |->
               IF last /\ sessions[i].active = w
               THEN [sessions[i] EXCEPT !.active = None]
               ELSE sessions[i]]
    BY <1>5 DEF LeaveWorkspace
  <2>2. joined \in [People -> Seq(Workspaces)]
        /\ joined[p] \in Seq(Workspaces) /\ IsInjective(joined[p])
    BY <1>2 DEF TypeInv, RowsInv, MembershipsHold
  <2>3. PICK s \in Seq(Workspaces) :
            /\ joined' = [joined EXCEPT ![p] = s] /\ IsInjective(s)
            /\ ToSet(s) = ToSet(joined[p]) \ {w}
    <3>1. PICK i \in DOMAIN joined[p] :
              joined[p][i] = w /\ joined' = [joined EXCEPT ![p] = RemoveAt(joined[p], i)]
      BY <2>1
    <3> DEFINE r == RemoveAt(joined[p], i)
    <3>2. /\ r \in Seq(Workspaces) /\ IsInjective(r)
          /\ ToSet(r) = ToSet(joined[p]) \ {joined[p][i]}
      BY <2>2, TakenOut
    <3>3. joined' = [joined EXCEPT ![p] = r] /\ joined[p][i] = w
      BY <3>1
    <3> HIDE DEF r
    <3>. QED BY <3>2, <3>3
  <2>4. /\ joined' \in [People -> Seq(Workspaces)]
        /\ \A o \in People : joined'[o] = IF o = p THEN s ELSE joined[o]
    BY <2>2, <2>3
  <2>5. NobodyJoins
    BY <2>3, <2>4 DEF NobodyJoins
  <2>6. /\ stage' \in [Workspaces -> {"unborn", "open", "deleted"}]
        /\ \A v \in Workspaces : v # w => stage'[v] = stage[v]
        /\ ~last => stage'[w] = stage[w]
    <3>1. stage \in [Workspaces -> {"unborn", "open", "deleted"}]
      BY DEF TypeInv
    <3> HIDE DEF last
    <3>2. CASE last
      BY <1>2, <2>1, <3>1, <3>2
    <3>3. CASE ~last
      BY <2>1, <3>1, <3>3
    <3>. QED BY <3>2, <3>3
  <2>7. MembershipsHold'
    <3> SUFFICES ASSUME NEW o \in People
                 PROVE  /\ IsInjective(joined'[o])
                        /\ \A v \in ToSet(joined'[o]) : stage'[v] = "open"
      BY DEF MembershipsHold
    <3>1. \A v \in ToSet(joined[o]) : v \in Workspaces
      BY <2>2, LenProperties, ElementOfSeq DEF ToSet
    <3>2. IsInjective(joined[o]) /\ \A v \in ToSet(joined[o]) : stage[v] = "open"
      BY DEF RowsInv, MembershipsHold
    <3>3. CASE o = p
      BY <2>3, <2>4, <2>6, <3>1, <3>2, <3>3
    <3>4. CASE o # p
      <4>1. last => w \notin ToSet(joined[o])
        BY <3>4 DEF IsMember
      <4> HIDE DEF last
      <4>. QED BY <2>4, <2>6, <3>1, <3>2, <3>4, <4>1
    <3>. QED BY <3>3, <3>4
  <2> HIDE DEF last
  <2>8. /\ sessions' \in Seq(Session) /\ DOMAIN sessions' = DOMAIN sessions
        /\ \A i \in DOMAIN sessions :
               /\ sessions'[i].person = sessions[i].person
               /\ sessions'[i].signIn = sessions[i].signIn
               /\ sessions'[i].state = sessions[i].state
               /\ sessions'[i].active = IF last /\ sessions[i].active = w
                                        THEN None ELSE sessions[i].active
    <3>1. ASSUME NEW i \in DOMAIN sessions
          PROVE  /\ sessions'[i] \in Session
                 /\ sessions'[i].person = sessions[i].person
                 /\ sessions'[i].signIn = sessions[i].signIn
                 /\ sessions'[i].state = sessions[i].state
                 /\ sessions'[i].active = IF last /\ sessions[i].active = w
                                          THEN None ELSE sessions[i].active
      <4> DEFINE r == [sessions[i] EXCEPT !.active = None]
      <4>1. sessions[i] \in Session
        BY RowTypes
      <4>2. /\ r \in Session /\ r.person = sessions[i].person
            /\ r.signIn = sessions[i].signIn /\ r.state = sessions[i].state
            /\ r.active = None
        BY <4>1 DEF Session
      <4>3. sessions'[i] = IF last /\ sessions[i].active = w THEN r
                           ELSE sessions[i]
        BY <2>1
      <4> HIDE DEF r
      <4>. QED BY <4>1, <4>2, <4>3
    <3>2. DOMAIN sessions' = DOMAIN sessions
      BY <2>1
    <3>3. DOMAIN sessions = 1..Len(sessions) /\ Len(sessions) \in Nat
      BY RowTypes
    <3>4. sessions' \in [1..Len(sessions) -> Session]
      BY <2>1, <3>1, <3>3
    <3>5. sessions' \in Seq(Session)
      BY <3>3, <3>4, SeqDef
    <3>. QED BY <3>1, <3>2, <3>5
  <2>9. /\ tokens' \in Seq(Token) /\ DOMAIN tokens' = DOMAIN tokens
        /\ \A t \in DOMAIN tokens :
               /\ tokens'[t].person = tokens[t].person
               /\ tokens'[t].workspace = tokens[t].workspace
               /\ tokens'[t].state = "live" =>
                      /\ tokens[t].state = "live"
                      /\ tokens[t].person # p \/ tokens[t].workspace # w
    <3>1. ASSUME NEW t \in DOMAIN tokens
          PROVE  /\ tokens'[t] \in Token
                 /\ tokens'[t].person = tokens[t].person
                 /\ tokens'[t].workspace = tokens[t].workspace
                 /\ tokens'[t].state = "live" =>
                        /\ tokens[t].state = "live"
                        /\ tokens[t].person # p \/ tokens[t].workspace # w
      <4> DEFINE r == [tokens[t] EXCEPT !.state = "gone"]
      <4>1. tokens[t] \in Token
        BY RowTypes
      <4>2. /\ r \in Token /\ r.person = tokens[t].person
            /\ r.workspace = tokens[t].workspace /\ r.state = "gone"
        BY <4>1 DEF Token, Rows
      <4>3. tokens'[t] = IF tokens[t].person = p /\ tokens[t].workspace = w
                         THEN r ELSE tokens[t]
        BY <2>1 DEF Revoked
      <4> HIDE DEF r
      <4>. QED BY <4>1, <4>2, <4>3
    <3>2. DOMAIN tokens' = DOMAIN tokens
      BY <2>1 DEF Revoked
    <3>3. DOMAIN tokens = 1..Len(tokens) /\ Len(tokens) \in Nat
      BY RowTypes
    <3>4. tokens' \in [1..Len(tokens) -> Token]
      BY <2>1, <3>1, <3>3 DEF Revoked
    <3>5. tokens' \in Seq(Token)
      BY <3>3, <3>4, SeqDef
    <3>. QED BY <3>1, <3>2, <3>5
  <2>10. Kept
    BY <1>3, <2>8, <2>9 DEF Kept, SignInsKept, SessionsKept, TokensKept
  <2>11. SessionsHold'
    <3>1. \A i \in DOMAIN sessions : sessions[i].active \in Workspaces \cup {None}
      BY RowTypes DEF Session
    <3>. QED BY <1>3, <2>6, <2>8, <3>1 DEF RowsInv, SessionsHold
  <2>12. TokensHold'
    <3>1. \A t \in DOMAIN tokens : tokens[t].person \in People
      BY RowTypes DEF Token
    <3>. QED BY <2>3, <2>4, <2>9, <3>1 DEF RowsInv, TokensHold, IsMember
  <2>13. CookiesHold'
    BY <1>3, <2>10, CookiesHoldOn DEF RowsInv, Kept
  <2>14. request' \in [Requests -> Request] /\ RequestsHold'
    BY <1>3, <2>5, <2>10, Ended DEF RowsInv
  <2>. QED BY <1>3, <2>4, <2>6, <2>7, <2>8, <2>9, <2>11, <2>12, <2>13, <2>14
           DEF RowsInv, TypeInv
<1>. QED BY <1>4, <1>5

-----------------------------------------------------------------------------
LEMMA InitInv == Init => Inv
<1> SUFFICES ASSUME Init PROVE Inv
  OBVIOUS
<1>1. \A S : <<>> \in Seq(S)
  BY EmptySeq
<1>2. TypeInv
  <2>1. Idle \in Request /\ [session |-> 0, state |-> 0] \in Cookies
    BY IdleHolds DEF Cookies
  <2>. QED BY <1>1, <2>1 DEF Init, TypeInv
<1>3. DOMAIN sessions = {} /\ DOMAIN tokens = {}
  BY DEF Init
<1>4. \A p \in People : DOMAIN joined[p] = {}
  BY DEF Init
<1>5. RowsInv
  BY <1>3, <1>4 DEF Init, RowsInv, MembershipsHold, SessionsHold, TokensHold,
                    CookiesHold, IsInjective, ToSet
<1>6. \A q \in Requests : request[q].phase = "idle"
  BY DEF Init, Idle
<1>7. RequestsHold
  BY <1>6 DEF RequestsHold, Holds, SignInHolds, SessionHolds, TokenHolds,
              HistoryHolds, BySession, ByToken
<1>. QED BY <1>2, <1>5, <1>7 DEF Inv

LEMMA InvStep == Inv /\ [Next]_vars => Inv'
<1> SUFFICES ASSUME Inv, [Next]_vars PROVE Inv'
  OBVIOUS
<1>1. ASSUME NEW q \in Requests, RequestStep(q) PROVE Inv'
  BY <1>1, ExchangeStep, CreateSessionStep, AnswerSignInStep, FindSessionStep,
     DeleteExpiredSessionStep, FindMembershipStep, EndingStep,
     CreateWorkspaceStep, JoinStep, CheckMemberStep, SelectStep, LeaveStep,
     DeleteSessionStep, AnswerSignOutStep, CreateTokenStep, FindTokenStep,
     DeleteExpiredTokenStep, StampStep, DeleteTokenStep
     DEF RequestStep
<1>2. ASSUME NEW q \in Requests, NEW b \in Browsers, SendAny(q, b) PROVE Inv'
  <2>1. ASSUME NEW kind \in {"read", "mint", "revoke", "signout"},
               Send(q, b, kind, None)
        PROVE  Inv'
    BY <2>1, SendStep DEF BrowserKinds, WorkspaceKinds
  <2>2. ASSUME NEW kind \in WorkspaceKinds, NEW w \in Workspaces,
               Send(q, b, kind, w)
        PROVE  Inv'
    BY <2>2, SendStep DEF BrowserKinds, WorkspaceKinds
  <2>. QED BY <1>2, <2>1, <2>2 DEF SendAny, WorkspaceKinds
<1>3. CASE UNCHANGED vars
  <2>1. Kept /\ NobodyJoins
    BY <1>3, NothingMoves DEF vars, member
  <2>2. RequestsHold'
    BY <1>3, <2>1, SameRequests DEF vars, Inv, RowsInv
  <2>. QED BY <1>3, <2>2, RowsUnchanged DEF vars, member, Inv, TypeInv
<1>. QED BY <1>1, <1>2, <1>3, StartStep, ReturnStep, CallStep,
            ExpireSessionStep, ExpireTokenStep DEF Next

(* The invariant the theorems below are read off holds in every state.     *)
LEMMA InvHolds == Spec => []Inv
BY InitInv, InvStep, PTL DEF Spec

(* Rows, cookies and requests keep their types, a person is in a workspace *)
(* once and only in open ones, and a session reads no deleted workspace:   *)
(* the foreign keys of workspace.prisma, for any number of everything.     *)
THEOREM SessionsTypeCorrect == Spec => []SessionsTypeOK
<1>1. Inv => SessionsTypeOK
  <2> SUFFICES ASSUME Inv PROVE SessionsTypeOK
    OBVIOUS
  <2>1. \A w \in Workspaces : stage[w] \in {"unborn", "open", "deleted"}
    BY DEF Inv, TypeInv
  <2>2. MembershipsHold
    BY DEF Inv, RowsInv
  <2>3. \A i \in DOMAIN sessions :
            /\ sessions[i].state \in Rows
            /\ sessions[i].active = None \/ stage[sessions[i].active] = "open"
    BY RowTypes DEF Inv, RowsInv, SessionsHold, Session
  <2>4. \A t \in DOMAIN tokens : tokens[t].state \in Rows
    BY RowTypes DEF Inv, Token
  <2>5. ASSUME NEW b \in Browsers
        PROVE  /\ browser[b].session \in 0..Len(sessions)
               /\ browser[b].state \in 0..Len(signIns)
    <3>1. browser[b].session \in Nat /\ browser[b].state \in Nat
      BY DEF Inv, TypeInv, Cookies
    <3>2. /\ browser[b].session # 0 => browser[b].session \in DOMAIN sessions
          /\ browser[b].state # 0 => browser[b].state \in DOMAIN signIns
      BY DEF Inv, RowsInv, CookiesHold, SignedInBy, StartedBy
    <3>. QED BY <3>1, <3>2, RowTypes DEF Inv
  <2>6. \A q \in Requests : request[q].phase \in Phases
    BY DEF Inv, TypeInv, Request
  <2>. QED BY <2>1, <2>2, <2>3, <2>4, <2>5, <2>6
           DEF SessionsTypeOK, MembershipsHold
<1>. QED BY <1>1, InvHolds, PTL

(* A request that acts came with a credential that was valid then, and     *)
(* reads only a workspace its person was in at some time since.            *)
THEOREM OnlyMembersAreServed == Spec => []ServesOnlyMembers
<1>1. Inv => ServesOnlyMembers
  BY DEF Inv, RequestsHold, Holds, HistoryHolds, ServesOnlyMembers, Resolved
<1>. QED BY <1>1, InvHolds, PTL

(* A browser is signed in only by a sign-in it started itself.             *)
THEOREM SignInsStayInTheirBrowser == Spec => []SignInStaysInItsBrowser
<1>1. Inv => SignInStaysInItsBrowser
  BY DEF Inv, RowsInv, CookiesHold, SignedInBy, SignInStaysInItsBrowser
<1>. QED BY <1>1, InvHolds, PTL

-----------------------------------------------------------------------------
(* Who changes a row.                                                      *)
Sent(i) == {q \in Requests :
               /\ request[q].kind \notin {"none", "signin", "call"}
               /\ request[q].credential = i}

SessionFollows(i) ==
    /\ sessions'[i].active # sessions[i].active =>
           \/ /\ sessions'[i].active = None
              /\ stage'[sessions[i].active] = "deleted"
           \/ \E q \in Sent(i) : request[q].workspace = sessions'[i].active
    /\ sessions'[i].state = "gone" /\ sessions[i].state = "live" =>
           \E q \in Sent(i) : request[q].kind = "signout"
    /\ sessions[i].state = "gone" => sessions'[i].state = "gone"

TokenFollows(t) == tokens[t].state = "gone" => tokens'[t].state = "gone"

Follow == /\ \A i \in DOMAIN sessions : SessionFollows(i)
          /\ \A t \in DOMAIN tokens : TokenFollows(t)

LEMMA SessionsStay ==
    ASSUME \A i \in DOMAIN sessions : sessions'[i] = sessions[i]
    PROVE  \A i \in DOMAIN sessions : SessionFollows(i)
BY DEF SessionFollows

LEMMA TokensStay ==
    ASSUME \A t \in DOMAIN tokens : tokens'[t] = tokens[t]
    PROVE  \A t \in DOMAIN tokens : TokenFollows(t)
BY DEF TokenFollows

(* A row that ends, and what else may happen to the token rows.            *)
LEMMA TokenStepFollows ==
    ASSUME Inv,
           \/ \E q \in Requests :
                 \/ CreateMcpToken(q) \/ DeleteExpiredToken(q)
                 \/ StampMcpToken(q) \/ LeaveWorkspace(q)
                 \/ \E t \in DOMAIN tokens : DeleteMcpToken(q, t)
           \/ \E t \in DOMAIN tokens : ExpireToken(t)
    PROVE  \A t \in DOMAIN tokens : TokenFollows(t)
<1>1. \A t \in DOMAIN tokens : tokens[t] \in Token
  BY RowTypes DEF Inv
<1>2. ASSUME NEW t \in DOMAIN tokens, NEW u,
             tokens' = [tokens EXCEPT ![u] = [@ EXCEPT !.state = "gone"]]
      PROVE  TokenFollows(t)
  BY <1>1, <1>2 DEF TokenFollows, Token
<1>3. ASSUME NEW t \in DOMAIN tokens, tokens' = tokens PROVE TokenFollows(t)
  BY <1>3 DEF TokenFollows
<1>4. ASSUME NEW t \in DOMAIN tokens, NEW q \in Requests, CreateMcpToken(q)
      PROVE  TokenFollows(t)
  <2> DEFINE r == [person |-> request[q].person, workspace |-> request[q].active,
                   state |-> "live", used |-> FALSE]
  <2>1. CASE tokens' = tokens
    BY <1>3, <2>1
  <2>2. CASE tokens' = Append(tokens, r)
    <3> HIDE DEF r
    <3>1. t \in 1..Len(tokens) /\ tokens \in Seq(Token)
      BY RowTypes DEF Inv, TypeInv
    <3>2. tokens'[t] = tokens[t]
      BY <2>2, <3>1
    <3>. QED BY <3>2 DEF TokenFollows
  <2>. QED BY <1>4, <2>1, <2>2 DEF CreateMcpToken
<1>5. ASSUME NEW t \in DOMAIN tokens, NEW q \in Requests, DeleteExpiredToken(q)
      PROVE  TokenFollows(t)
  BY <1>2, <1>5 DEF DeleteExpiredToken
<1>6. ASSUME NEW t \in DOMAIN tokens, NEW q \in Requests, StampMcpToken(q)
      PROVE  TokenFollows(t)
  <2> DEFINE u == request[q].credential
  <2>1. CASE tokens' = tokens
    BY <1>3, <2>1
  <2>2. CASE tokens' = [tokens EXCEPT ![u] = [@ EXCEPT !.used = TRUE]]
    BY <1>1, <2>2 DEF TokenFollows, Token
  <2>. QED BY <1>6, <2>1, <2>2 DEF StampMcpToken
<1>7. ASSUME NEW t \in DOMAIN tokens, NEW q \in Requests, LeaveWorkspace(q)
      PROVE  TokenFollows(t)
  <2>1. CASE tokens' = tokens
    BY <1>3, <2>1
  <2>2. CASE tokens' = Revoked(request[q].person, request[q].workspace)
    BY <1>1, <2>2 DEF TokenFollows, Revoked, Token
  <2>. QED BY <1>7, <2>1, <2>2 DEF LeaveWorkspace
<1>8. ASSUME NEW t \in DOMAIN tokens, NEW q \in Requests,
             NEW u \in DOMAIN tokens, DeleteMcpToken(q, u)
      PROVE  TokenFollows(t)
  BY <1>2, <1>3, <1>8 DEF DeleteMcpToken
<1>9. ASSUME NEW t \in DOMAIN tokens, NEW u \in DOMAIN tokens, ExpireToken(u)
      PROVE  TokenFollows(t)
  BY <1>1, <1>9 DEF ExpireToken, TokenFollows, Token
<1>. QED BY <1>4, <1>5, <1>6, <1>7, <1>8, <1>9

LEMMA SessionStepFollows ==
    ASSUME Inv,
           \/ \E q \in Requests :
                 \/ CreateSession(q) \/ DeleteExpiredSession(q)
                 \/ SelectWorkspace(q) \/ DeleteSession(q) \/ LeaveWorkspace(q)
           \/ \E i \in DOMAIN sessions : ExpireSession(i)
    PROVE  \A i \in DOMAIN sessions : SessionFollows(i)
<1>1. \A i \in DOMAIN sessions : sessions[i] \in Session
  BY RowTypes DEF Inv
<1>2. ASSUME NEW i \in DOMAIN sessions, sessions'[i] = sessions[i]
      PROVE  SessionFollows(i)
  BY <1>2 DEF SessionFollows
<1>3. ASSUME NEW i \in DOMAIN sessions, NEW q \in Requests, CreateSession(q)
      PROVE  SessionFollows(i)
  <2> DEFINE r == [person |-> request[q].person, active |-> request[q].active,
                   state |-> "live", signIn |-> request[q].credential]
  <2>1. CASE sessions' = sessions
    BY <1>2, <2>1
  <2>2. CASE sessions' = Append(sessions, r)
    <3> HIDE DEF r
    <3>1. i \in 1..Len(sessions) /\ sessions \in Seq(Session)
      BY RowTypes DEF Inv, TypeInv
    <3>2. sessions'[i] = sessions[i]
      BY <2>2, <3>1
    <3>. QED BY <1>2, <3>2
  <2>. QED BY <1>3, <2>1, <2>2 DEF CreateSession
<1>4. ASSUME NEW i \in DOMAIN sessions, NEW q \in Requests,
             DeleteExpiredSession(q)
      PROVE  SessionFollows(i)
  <2> DEFINE k == request[q].credential
  <2>1. k \in DOMAIN sessions /\ sessions[k].state # "live"
    BY <1>4 DEF Inv, RequestsHold, Holds, SessionHolds, BySession,
                DeleteExpiredSession
  <2>2. sessions' = [sessions EXCEPT ![k] = [@ EXCEPT !.state = "gone"]]
    BY <1>4 DEF DeleteExpiredSession
  <2> HIDE DEF k
  <2>3. CASE i = k
    <3>1. /\ sessions'[i].active = sessions[i].active
          /\ sessions'[i].state = "gone"
      BY <1>1, <2>1, <2>2, <2>3 DEF Session
    <3>. QED BY <2>1, <2>3, <3>1 DEF SessionFollows
  <2>4. CASE i # k
    BY <1>2, <2>2, <2>4
  <2>. QED BY <2>3, <2>4
<1>5. ASSUME NEW i \in DOMAIN sessions, NEW q \in Requests, DeleteSession(q)
      PROVE  SessionFollows(i)
  <2> DEFINE k == request[q].credential
  <2>1. request[q].kind = "signout"
    BY <1>5 DEF DeleteSession, Handling
  <2>2. sessions' = [sessions EXCEPT ![k] = [@ EXCEPT !.state = "gone"]]
    BY <1>5 DEF DeleteSession
  <2>3. CASE i = k
    <3>1. q \in Sent(i)
      BY <2>1, <2>3 DEF Sent
    <3> HIDE DEF k
    <3>2. /\ sessions'[i].active = sessions[i].active
          /\ sessions'[i].state = "gone"
      BY <1>1, <2>2, <2>3 DEF Session
    <3>. QED BY <2>1, <3>1, <3>2 DEF SessionFollows
  <2>4. CASE i # k
    BY <1>2, <2>2, <2>4
  <2>. QED BY <2>3, <2>4
<1>6. ASSUME NEW i \in DOMAIN sessions, NEW q \in Requests, SelectWorkspace(q)
      PROVE  SessionFollows(i)
  <2> DEFINE k == request[q].credential
             w == request[q].workspace
  <2>1. request[q].kind \in WorkspaceKinds
    BY <1>6 DEF Inv, RequestsHold, Holds, SessionHolds, BySession,
                SelectWorkspace
  <2>2. CASE sessions' = sessions
    BY <1>2, <2>2
  <2>3. CASE sessions' = [sessions EXCEPT ![k] = [@ EXCEPT !.active = w]]
    <3>1. CASE i = k
      <4>1. q \in Sent(i)
        BY <2>1, <3>1 DEF Sent, WorkspaceKinds
      <4>2. request[q].workspace = w
        OBVIOUS
      <4> HIDE DEF k, w
      <4>3. /\ sessions'[i].active = w
            /\ sessions'[i].state = sessions[i].state
        BY <1>1, <2>3, <3>1 DEF Session
      <4>4. sessions'[i].state = "gone" => sessions[i].state # "live"
        BY <4>3
      <4>. QED BY <4>1, <4>2, <4>3, <4>4 DEF SessionFollows
    <3>2. CASE i # k
      BY <1>2, <2>3, <3>2
    <3>. QED BY <3>1, <3>2
  <2>. QED BY <1>6, <2>2, <2>3 DEF SelectWorkspace
<1>7. ASSUME NEW i \in DOMAIN sessions, NEW q \in Requests, LeaveWorkspace(q)
      PROVE  SessionFollows(i)
  <2> DEFINE p == request[q].person
             w == request[q].workspace
             last == \A other \in People \ {p} : ~IsMember(other, w)
  <2>1. w \in Workspaces
    BY <1>7 DEF Inv, RequestsHold, Holds, SessionHolds, BySession,
                WorkspaceKinds, LeaveWorkspace, Handling
  <2>2. CASE sessions' = sessions
    BY <1>2, <2>2
  <2>3. CASE /\ stage' = IF last THEN [stage EXCEPT ![w] = "deleted"] ELSE stage
             /\ sessions' = [j \in DOMAIN sessions |->
                    IF last /\ sessions[j].active = w
                    THEN [sessions[j] EXCEPT !.active = None]
                    ELSE sessions[j]]
    <3> HIDE DEF last, w
    <3>1. CASE last /\ sessions[i].active = w
      <4>1. stage'[sessions[i].active] = "deleted"
        BY <2>1, <2>3, <3>1 DEF Inv, TypeInv
      <4>2. sessions'[i].active = None /\ sessions'[i].state = sessions[i].state
        BY <1>1, <2>3, <3>1 DEF Session
      <4>. QED BY <4>1, <4>2 DEF SessionFollows
    <3>2. CASE ~(last /\ sessions[i].active = w)
      BY <1>2, <2>3, <3>2
    <3>. QED BY <3>1, <3>2
  <2>. QED BY <1>7, <2>2, <2>3 DEF LeaveWorkspace
<1>8. ASSUME NEW i \in DOMAIN sessions, NEW k \in DOMAIN sessions,
             ExpireSession(k)
      PROVE  SessionFollows(i)
  <2>1. sessions[k].state = "live"
        /\ sessions' = [sessions EXCEPT ![k] = [@ EXCEPT !.state = "expired"]]
    BY <1>8 DEF ExpireSession
  <2>2. CASE i = k
    <3>1. /\ sessions'[i].active = sessions[i].active
          /\ sessions'[i].state = "expired"
      BY <1>1, <2>1, <2>2 DEF Session
    <3>. QED BY <2>1, <2>2, <3>1 DEF SessionFollows
  <2>3. CASE i # k
    BY <1>2, <2>1, <2>3
  <2>. QED BY <2>2, <2>3
<1>. QED BY <1>3, <1>4, <1>5, <1>6, <1>7, <1>8

LEMMA StepFollows == Inv /\ [Next]_vars => Follow
<1> SUFFICES ASSUME Inv, [Next]_vars PROVE Follow
  OBVIOUS
<1>1. \/ sessions' = sessions
      \/ \E q \in Requests :
            \/ CreateSession(q) \/ DeleteExpiredSession(q)
            \/ SelectWorkspace(q) \/ DeleteSession(q) \/ LeaveWorkspace(q)
      \/ \E i \in DOMAIN sessions : ExpireSession(i)
  BY DEF Next, RequestStep, SendAny, StartSignIn, ReturnFromGoogle, CallServer,
         Send, ExchangeCode, AnswerSignIn, FindSession, FindMembership,
         ReadWorkspace, CreateWorkspace, JoinWorkspace, CheckMember,
         AnswerSignOut, CreateMcpToken, FindMcpToken, DeleteExpiredToken,
         StampMcpToken, RunTool, Lose, DeleteMcpToken, ExpireToken, vars
<1>2. \/ tokens' = tokens
      \/ \E q \in Requests :
            \/ CreateMcpToken(q) \/ DeleteExpiredToken(q)
            \/ StampMcpToken(q) \/ LeaveWorkspace(q)
            \/ \E t \in DOMAIN tokens : DeleteMcpToken(q, t)
      \/ \E t \in DOMAIN tokens : ExpireToken(t)
  BY DEF Next, RequestStep, SendAny, StartSignIn, ReturnFromGoogle, CallServer,
         Send, ExchangeCode, CreateSession, AnswerSignIn, FindSession,
         DeleteExpiredSession, FindMembership, ReadWorkspace, CreateWorkspace,
         JoinWorkspace, CheckMember, SelectWorkspace, DeleteSession,
         AnswerSignOut, FindMcpToken, RunTool, Lose, ExpireSession, vars
<1>3. \A i \in DOMAIN sessions : SessionFollows(i)
  BY <1>1, SessionsStay, SessionStepFollows
<1>4. \A t \in DOMAIN tokens : TokenFollows(t)
  BY <1>2, TokensStay, TokenStepFollows
<1>. QED BY <1>3, <1>4 DEF Follow

(* A session ends or moves to another workspace only by what its own       *)
(* browser sends, or when the workspace goes; and no ended session or      *)
(* token comes back.                                                       *)
THEOREM RowsAlwaysFollowTheirBrowser == Spec => RowsFollowTheirBrowser
<1>1. Inv /\ [Next]_vars
      => [/\ \A i \in DOMAIN sessions :
               LET old == sessions[i]
                   new == sessions'[i]
                   sent == {q \in Requests :
                               /\ request[q].kind \notin {"none", "signin", "call"}
                               /\ request[q].credential = i}
               IN  /\ new.active # old.active =>
                          \/ new.active = None /\ stage'[old.active] = "deleted"
                          \/ \E q \in sent : request[q].workspace = new.active
                   /\ new.state = "gone" /\ old.state = "live" =>
                          \E q \in sent : request[q].kind = "signout"
                   /\ old.state = "gone" => new.state = "gone"
          /\ \A t \in DOMAIN tokens :
                 tokens[t].state = "gone" => tokens'[t].state = "gone"]_vars
  <2>1. Inv /\ [Next]_vars => Follow
    BY StepFollows
  <2>. QED BY <2>1 DEF Follow, SessionFollows, TokenFollows, Sent
<1>. QED BY <1>1, InvHolds, PTL DEF Spec, RowsFollowTheirBrowser
=============================================================================
