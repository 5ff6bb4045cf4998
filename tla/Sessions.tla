------------------------------ MODULE Sessions ------------------------------
(***************************************************************************)
(* Who a request acts for, and in which workspace: the sign-in, the session *)
(* rows and the guard of auth/, the workspace a browser reads               *)
(* (workspaces/workspaces.controller.ts) and the MCP tokens (mcp/).         *)
(*                                                                         *)
(* A request is a few awaits: the guard reads the session row, then the    *)
(* membership behind it, then the handler runs, and what the answer does   *)
(* to the cookies happens in the browser last.  Between any two of them    *)
(* other tabs, browsers and people go on.  A join and a leave are single   *)
(* steps here: Workspaces shows that their transactions are.               *)
(***************************************************************************)
EXTENDS Integers, Sequences, SequencesExt

CONSTANTS
    People,          \* the Google accounts
    Workspaces,      \* ids the API may give to new workspaces
    Browsers,        \* the cookie jars
    Requests,        \* the requests that can be in flight
    None,            \* no person, no browser, and a null active workspace
    MaxSignIns,      \* bound on the sign-ins ever started
    MaxTokens,       \* bound on the MCP tokens ever made
    MaxMemberships,  \* bound on the memberships ever begun
    MaxMishaps       \* bound on requests lost and credentials expired

ASSUME NoneAssumption == None \notin People \cup Workspaces \cup Browsers
ASSUME BoundsAssumption ==
    {MaxSignIns, MaxTokens, MaxMemberships, MaxMishaps} \subseteq Nat

VARIABLES
    stage,      \* each workspace is unborn, open or deleted
    joined,     \* the workspaces of each person, oldest membership first
    begun,      \* how many memberships have begun
    signIns,    \* the sign-ins started: a state value is an index of this
    sessions,   \* the session rows: a cookie holds an index of this
    tokens,     \* the MCP token rows
    browser,    \* the cookies of each browser
    request,    \* the local state of each request
    mishaps     \* how many requests were lost and credentials expired

member == <<stage, joined, begun>>
vars == <<member, signIns, sessions, tokens, browser, request, mishaps>>

Rows == {"live", "expired", "gone"}

Phases == {"idle", "row", "membership", "handle", "select", "expire",
           "exchange", "open", "signed", "refused", "token", "stamp", "call",
           "drop"}

(* `live` and `mine` are history: whether the credential was valid when    *)
(* the request came, and the workspaces its person has been in since.      *)
Idle == [phase |-> "idle", kind |-> "none", browser |-> None, credential |-> 0,
         person |-> None, workspace |-> None, active |-> None,
         live |-> FALSE, mine |-> {}]

SessionsTypeOK ==
    /\ \A w \in Workspaces : stage[w] \in {"unborn", "open", "deleted"}
    /\ \A p \in People : /\ IsInjective(joined[p])
                         /\ \A w \in ToSet(joined[p]) : stage[w] = "open"
    /\ \A i \in DOMAIN sessions :
           /\ sessions[i].state \in Rows
           /\ sessions[i].active = None \/ stage[sessions[i].active] = "open"
    /\ \A t \in DOMAIN tokens : tokens[t].state \in Rows
    /\ \A b \in Browsers : /\ browser[b].session \in 0..Len(sessions)
                           /\ browser[b].state \in 0..Len(signIns)
    /\ \A q \in Requests : request[q].phase \in Phases

Init ==
    /\ stage = [w \in Workspaces |-> "unborn"]
    /\ joined = [p \in People |-> <<>>]
    /\ begun = 0
    /\ signIns = <<>> /\ sessions = <<>> /\ tokens = <<>>
    /\ browser = [b \in Browsers |-> [session |-> 0, state |-> 0]]
    /\ request = [q \in Requests |-> Idle]
    /\ mishaps = 0

-----------------------------------------------------------------------------
Go(q, phase) == request' = [request EXCEPT ![q] = [@ EXCEPT !.phase = phase]]

End(q) == request' = [request EXCEPT ![q] = Idle]

(* The answer is on its way; what it does needs the browser only.          *)
Answering(q, phase, session) ==
    request' = [request EXCEPT ![q] =
        [Idle EXCEPT !.phase = phase, !.browser = request[q].browser,
                     !.credential = session]]

Handling(q, kind) == request[q].phase = "handle" /\ request[q].kind = kind

IsMember(p, w) == w \in ToSet(joined[p])

Mishap == mishaps < MaxMishaps /\ mishaps' = mishaps + 1

-----------------------------------------------------------------------------
(* GET /auth/google: the browser keeps the state of its newest sign-in.    *)
StartSignIn(b) ==
    /\ Len(signIns) < MaxSignIns
    /\ signIns' = Append(signIns, [browser |-> b, exchanged |-> FALSE])
    /\ browser' = [browser EXCEPT ![b] = [@ EXCEPT !.state = Len(signIns')]]
    /\ UNCHANGED <<member, sessions, tokens, request, mishaps>>

(* Mutant: any state that was handed out is accepted.                      *)
AnyState(b, s) == TRUE

(* The callback accepts a code only with the state this browser holds.     *)
StateMatches(b, s) == browser[b].state = s

(* Google sends the person back with a code, to the browser the address    *)
(* was opened in; the callback compares the state.                         *)
ReturnFromGoogle(q, b, s, p) ==
    /\ request[q].phase = "idle"
    /\ s \in DOMAIN signIns
    /\ request' = [request EXCEPT ![q] =
          IF StateMatches(b, s)
          THEN [Idle EXCEPT !.phase = "exchange", !.kind = "signin",
                            !.browser = b, !.credential = s, !.person = p]
          ELSE [Idle EXCEPT !.phase = "refused", !.browser = b]]
    /\ UNCHANGED <<member, signIns, sessions, tokens, browser, mishaps>>

(* The newest membership, which a sign-in opens.                           *)
Newest(p) == IF joined[p] = <<>> THEN None ELSE Last(joined[p])

(* Google takes each code once, and the account comes back with its newest *)
(* membership.                                                             *)
ExchangeCode(q) ==
    LET s == request[q].credential
    IN  /\ request[q].phase = "exchange"
        /\ signIns' = [signIns EXCEPT ![s] = [@ EXCEPT !.exchanged = TRUE]]
        /\ IF signIns[s].exchanged
           THEN Answering(q, "refused", 0)
           ELSE request' = [request EXCEPT ![q] =
                    [@ EXCEPT !.phase = "open",
                              !.active = Newest(request[q].person)]]
        /\ UNCHANGED <<member, sessions, tokens, browser, mishaps>>

(* createSession; the foreign key refuses a workspace deleted since.       *)
CreateSession(q) ==
    LET x == request[q]
    IN  /\ x.phase = "open"
        /\ IF x.active # None /\ stage[x.active] # "open"
           THEN Answering(q, "refused", 0) /\ UNCHANGED sessions
           ELSE /\ sessions' = Append(sessions,
                      [person |-> x.person, active |-> x.active,
                       state |-> "live", signIn |-> x.credential])
                /\ Answering(q, "signed", Len(sessions) + 1)
        /\ UNCHANGED <<member, signIns, tokens, browser, mishaps>>

(* Each answer of the callback clears the state cookie, whichever sign-in  *)
(* it is of by now, and the one of a sign-in sets the session cookie.      *)
AnswerSignIn(q) ==
    LET x == request[q]
    IN  /\ x.phase \in {"signed", "refused"}
        /\ browser' = [browser EXCEPT ![x.browser] =
               [session |-> IF x.phase = "signed" THEN x.credential
                            ELSE @.session,
                state |-> 0]]
        /\ End(q)
        /\ UNCHANGED <<member, signIns, sessions, tokens, mishaps>>

-----------------------------------------------------------------------------
(* A tab sends a request with the session cookie of its browser.           *)
Send(q, b, kind, w) ==
    LET i == browser[b].session
    IN  /\ request[q].phase = "idle"
        /\ i # 0
        /\ request' = [request EXCEPT ![q] =
              [Idle EXCEPT !.phase = "row", !.kind = kind, !.browser = b,
                           !.credential = i, !.person = sessions[i].person,
                           !.workspace = w,
                           !.live = sessions[i].state = "live",
                           !.mine = ToSet(joined[sessions[i].person])]]
        /\ UNCHANGED <<member, signIns, sessions, tokens, browser, mishaps>>

(* findSession reads the row ...                                           *)
FindSession(q) ==
    LET row == sessions[request[q].credential]
    IN  /\ request[q].phase = "row"
        /\ \/ row.state = "gone" /\ End(q)
           \/ row.state = "expired" /\ Go(q, "expire")
           \/ /\ row.state = "live"
              /\ request' = [request EXCEPT ![q] =
                    [@ EXCEPT !.active = row.active,
                              !.phase = IF row.active = None THEN "handle"
                                        ELSE "membership"]]
        /\ UNCHANGED <<member, signIns, sessions, tokens, browser, mishaps>>

(* ... deletes it when it has expired ...                                  *)
DeleteExpiredSession(q) ==
    /\ request[q].phase = "expire" /\ request[q].kind # "call"
    /\ sessions' = [sessions EXCEPT ![request[q].credential] =
                       [@ EXCEPT !.state = "gone"]]
    /\ End(q)
    /\ UNCHANGED <<member, signIns, tokens, browser, mishaps>>

(* Mutant: the stored workspace is taken for the person's.                 *)
StoredWorkspace(q) == request[q].active

(* ... and reads the membership behind it again.                           *)
ActiveWorkspace(q) ==
    IF IsMember(request[q].person, request[q].active) THEN request[q].active
    ELSE None

FindMembership(q) ==
    /\ request[q].phase = "membership"
    /\ request' = [request EXCEPT ![q] =
          [@ EXCEPT !.active = ActiveWorkspace(q), !.phase = "handle"]]
    /\ UNCHANGED <<member, signIns, sessions, tokens, browser, mishaps>>

(* A route that reads the documents, the chats or the databases.  Without  *)
(* an active workspace it answers 403.                                     *)
ReadWorkspace(q) ==
    /\ Handling(q, "read")
    /\ End(q)
    /\ UNCHANGED <<member, signIns, sessions, tokens, browser, mishaps>>

(* What is left to do is to open the workspace in this browser.            *)
ToSelect(x) == [x EXCEPT !.phase = "select", !.active = None, !.mine = {}]

(* Whoever begins a membership begins it for all their requests.           *)
BeginMembership(q, w) ==
    LET p == request[q].person
    IN  /\ joined' = [joined EXCEPT ![p] = Append(@, w)]
        /\ begun' = begun + 1
        /\ request' = [r \in Requests |->
              IF r = q THEN ToSelect(request[r])
              ELSE IF request[r].person = p /\ request[r].phase # "select"
                   THEN [request[r] EXCEPT !.mine = @ \cup {w}]
                   ELSE request[r]]

CreateWorkspace(q) ==
    LET w == request[q].workspace
    IN  /\ Handling(q, "create")
        /\ begun < MaxMemberships
        /\ stage[w] = "unborn"
        /\ stage' = [stage EXCEPT ![w] = "open"]
        /\ BeginMembership(q, w)
        /\ UNCHANGED <<signIns, sessions, tokens, browser, mishaps>>

JoinWorkspace(q) ==
    LET w == request[q].workspace
    IN  /\ Handling(q, "join")
        /\ begun < MaxMemberships
        /\ \/ stage[w] # "open" /\ End(q) /\ UNCHANGED <<joined, begun>>
           \/ /\ stage[w] = "open" /\ IsMember(request[q].person, w)
              /\ request' = [request EXCEPT ![q] = ToSelect(@)]
              /\ UNCHANGED <<joined, begun>>
           \/ /\ stage[w] = "open" /\ ~IsMember(request[q].person, w)
              /\ BeginMembership(q, w)
        /\ UNCHANGED <<stage, signIns, sessions, tokens, browser, mishaps>>

(* The handler of select checks the membership first.                      *)
CheckMember(q) ==
    /\ Handling(q, "select")
    /\ IF IsMember(request[q].person, request[q].workspace)
       THEN request' = [request EXCEPT ![q] = ToSelect(@)] ELSE End(q)
    /\ UNCHANGED <<member, signIns, sessions, tokens, browser, mishaps>>

(* Mutants: no foreign key looks whether the workspace is there; the write *)
(* names the person and not the browser.                                   *)
SelectUnchecked(q) ==
    LET i == request[q].credential
    IN  /\ request[q].phase = "select"
        /\ sessions' = IF sessions[i].state = "gone" THEN sessions
                       ELSE [sessions EXCEPT ![i] = [@ EXCEPT !.active = request[q].workspace]]
        /\ End(q)
        /\ UNCHANGED <<member, signIns, tokens, browser, mishaps>>

SelectEverywhere(q) ==
    /\ request[q].phase = "select"
    /\ sessions' = [i \in DOMAIN sessions |->
           IF /\ sessions[i].person = request[q].person
              /\ sessions[i].state # "gone"
              /\ stage[request[q].workspace] = "open"
           THEN [sessions[i] EXCEPT !.active = request[q].workspace]
           ELSE sessions[i]]
    /\ End(q)
    /\ UNCHANGED <<member, signIns, tokens, browser, mishaps>>

(* selectWorkspace: this browser reads the workspace from now on.  The     *)
(* write fails when the session or the workspace is gone by now.           *)
SelectWorkspace(q) ==
    LET i == request[q].credential
        w == request[q].workspace
    IN  /\ request[q].phase = "select"
        /\ sessions' = IF sessions[i].state # "gone" /\ stage[w] = "open"
                       THEN [sessions EXCEPT ![i] = [@ EXCEPT !.active = w]]
                       ELSE sessions
        /\ End(q)
        /\ UNCHANGED <<member, signIns, tokens, browser, mishaps>>

(* A membership ends, and its tokens with it.                              *)
Revoked(p, w) ==
    [t \in DOMAIN tokens |->
        IF tokens[t].person = p /\ tokens[t].workspace = w
        THEN [tokens[t] EXCEPT !.state = "gone"] ELSE tokens[t]]

(* The last member takes the workspace along, and every browser that read  *)
(* it reads none.                                                          *)
LeaveWorkspace(q) ==
    LET p == request[q].person
        w == request[q].workspace
        last == \A other \in People \ {p} : ~IsMember(other, w)
    IN  /\ Handling(q, "leave")
        /\ IF IsMember(p, w)
           THEN /\ \E i \in DOMAIN joined[p] :
                      /\ joined[p][i] = w
                      /\ joined' = [joined EXCEPT ![p] = RemoveAt(@, i)]
                /\ tokens' = Revoked(p, w)
                /\ stage' = IF last THEN [stage EXCEPT ![w] = "deleted"]
                            ELSE stage
                /\ sessions' = [i \in DOMAIN sessions |->
                      IF last /\ sessions[i].active = w
                      THEN [sessions[i] EXCEPT !.active = None]
                      ELSE sessions[i]]
           ELSE UNCHANGED <<joined, tokens, stage, sessions>>
        /\ End(q)
        /\ UNCHANGED <<begun, signIns, browser, mishaps>>

(* POST /auth/signout deletes the row ...                                  *)
DeleteSession(q) ==
    /\ Handling(q, "signout")
    /\ sessions' = [sessions EXCEPT ![request[q].credential] =
                       [@ EXCEPT !.state = "gone"]]
    /\ Answering(q, "drop", 0)
    /\ UNCHANGED <<member, signIns, tokens, browser, mishaps>>

(* ... and its answer clears the cookie.                                   *)
AnswerSignOut(q) ==
    /\ request[q].phase = "drop"
    /\ browser' = [browser EXCEPT ![request[q].browser] =
                      [@ EXCEPT !.session = 0]]
    /\ End(q)
    /\ UNCHANGED <<member, signIns, sessions, tokens, mishaps>>

-----------------------------------------------------------------------------
(* createMcpToken, for the workspace the browser reads.  Its two           *)
(* statements are in Workspaces.                                           *)
CreateMcpToken(q) ==
    LET x == request[q]
    IN  /\ Handling(q, "mint")
        /\ IF x.active # None /\ IsMember(x.person, x.active)
           THEN /\ Len(tokens) < MaxTokens
                /\ tokens' = Append(tokens,
                      [person |-> x.person, workspace |-> x.active,
                       state |-> "live", used |-> FALSE])
           ELSE UNCHANGED tokens
        /\ End(q)
        /\ UNCHANGED <<member, signIns, sessions, browser, mishaps>>

(* deleteMcpToken, one of this person in this workspace.                   *)
DeleteMcpToken(q, t) ==
    LET x == request[q]
    IN  /\ Handling(q, "revoke")
        /\ t \in DOMAIN tokens
        /\ tokens' = IF tokens[t].person = x.person
                        /\ tokens[t].workspace = x.active
                     THEN [tokens EXCEPT ![t] = [@ EXCEPT !.state = "gone"]]
                     ELSE tokens
        /\ End(q)
        /\ UNCHANGED <<member, signIns, sessions, browser, mishaps>>

(* A client posts one message with its token.                              *)
CallServer(q, t) ==
    /\ request[q].phase = "idle"
    /\ t \in DOMAIN tokens
    /\ request' = [request EXCEPT ![q] =
          [Idle EXCEPT !.phase = "token", !.kind = "call", !.credential = t,
                       !.person = tokens[t].person,
                       !.live = tokens[t].state = "live",
                       !.mine = ToSet(joined[tokens[t].person])]]
    /\ UNCHANGED <<member, signIns, sessions, tokens, browser, mishaps>>

(* findMcpToken reads the row and deletes it when it has expired ...       *)
FindMcpToken(q) ==
    LET row == tokens[request[q].credential]
    IN  /\ request[q].phase = "token"
        /\ \/ row.state = "gone" /\ End(q)
           \/ row.state = "expired" /\ Go(q, "expire")
           \/ /\ row.state = "live"
              /\ request' = [request EXCEPT ![q] =
                    [@ EXCEPT !.active = row.workspace, !.phase = "stamp"]]
        /\ UNCHANGED <<member, signIns, sessions, tokens, browser, mishaps>>

DeleteExpiredToken(q) ==
    /\ request[q].phase = "expire" /\ request[q].kind = "call"
    /\ tokens' = [tokens EXCEPT ![request[q].credential] =
                     [@ EXCEPT !.state = "gone"]]
    /\ End(q)
    /\ UNCHANGED <<member, signIns, sessions, browser, mishaps>>

(* ... and stamps it, unless it was revoked in between.                    *)
StampMcpToken(q) ==
    LET t == request[q].credential
    IN  /\ request[q].phase = "stamp"
        /\ tokens' = IF tokens[t].state = "gone" THEN tokens
                     ELSE [tokens EXCEPT ![t] = [@ EXCEPT !.used = TRUE]]
        /\ Go(q, "call")
        /\ UNCHANGED <<member, signIns, sessions, browser, mishaps>>

(* The server of this one message runs the tool in the token's workspace.  *)
RunTool(q) ==
    /\ request[q].phase = "call"
    /\ End(q)
    /\ UNCHANGED <<member, signIns, sessions, tokens, browser, mishaps>>

-----------------------------------------------------------------------------
(* A statement or Google fails, the process stops, or the answer is lost,  *)
(* half way through a request that writes: what was written stays, and the *)
(* cookies do not change.                                                  *)
Lose(q) ==
    /\ request[q].phase \in {"open", "signed", "select", "drop"}
    /\ Mishap
    /\ End(q)
    /\ UNCHANGED <<member, signIns, sessions, tokens, browser>>

(* Thirty days of a session and ninety of a token go by.                   *)
ExpireSession(i) ==
    /\ sessions[i].state = "live"
    /\ Mishap
    /\ sessions' = [sessions EXCEPT ![i] = [@ EXCEPT !.state = "expired"]]
    /\ UNCHANGED <<member, signIns, tokens, browser, request>>

ExpireToken(t) ==
    /\ tokens[t].state = "live"
    /\ Mishap
    /\ tokens' = [tokens EXCEPT ![t] = [@ EXCEPT !.state = "expired"]]
    /\ UNCHANGED <<member, signIns, sessions, browser, request>>

SendAny(q, b) ==
    \/ \E kind \in {"read", "mint", "revoke", "signout"} : Send(q, b, kind, None)
    \/ \E kind \in {"select", "create", "join", "leave"}, w \in Workspaces :
          Send(q, b, kind, w)

RequestStep(q) ==
    \/ ExchangeCode(q) \/ CreateSession(q) \/ AnswerSignIn(q)
    \/ FindSession(q) \/ DeleteExpiredSession(q) \/ FindMembership(q)
    \/ ReadWorkspace(q) \/ CreateWorkspace(q) \/ JoinWorkspace(q)
    \/ CheckMember(q) \/ SelectWorkspace(q) \/ LeaveWorkspace(q)
    \/ DeleteSession(q) \/ AnswerSignOut(q)
    \/ CreateMcpToken(q) \/ FindMcpToken(q) \/ DeleteExpiredToken(q)
    \/ StampMcpToken(q) \/ RunTool(q) \/ Lose(q)
    \/ \E t \in DOMAIN tokens : DeleteMcpToken(q, t)

Next ==
    \/ \E b \in Browsers : StartSignIn(b)
    \/ \E q \in Requests, b \in Browsers :
          \/ SendAny(q, b)
          \/ \E s \in DOMAIN signIns, p \in People : ReturnFromGoogle(q, b, s, p)
    \/ \E q \in Requests : RequestStep(q) \/ \E t \in DOMAIN tokens : CallServer(q, t)
    \/ \E i \in DOMAIN sessions : ExpireSession(i)
    \/ \E t \in DOMAIN tokens : ExpireToken(t)

Spec == Init /\ [][Next]_vars

-----------------------------------------------------------------------------
(* What a request may act on once its credential is resolved.              *)
Resolved(q) == request[q].phase \in {"handle", "stamp", "call"}

(* A request that acts came with a credential that was valid then, and     *)
(* reads only a workspace its person was in at some time since: none       *)
(* reaches a workspace the person had left before it began.                *)
ServesOnlyMembers ==
    \A q \in Requests : Resolved(q) =>
        /\ request[q].live
        /\ request[q].active # None => request[q].active \in request[q].mine

(* A browser is signed in only by a sign-in it started itself.             *)
SignInStaysInItsBrowser ==
    \A b \in Browsers :
        LET i == browser[b].session
        IN  i # 0 => signIns[sessions[i].signIn].browser = b

(* Only what a browser sends ends its own session or moves it to another   *)
(* workspace, so the other browsers of the person stay signed in and keep  *)
(* the workspace they read; else the workspace goes, or the session has    *)
(* expired.  And no write that was decided on before brings back a session *)
(* that was signed out or a token that was revoked.                        *)
RowsFollowTheirBrowser ==
    [][/\ \A i \in DOMAIN sessions :
          LET old == sessions[i]
              new == sessions'[i]
              sent == {q \in Requests :
                          /\ request[q].kind \notin {"none", "signin", "call"}
                          /\ request[q].credential = i}
          IN  /\ new.active # old.active =>
                     \/ new.active = None /\ stage'[old.active] = "deleted"
                     \/ \E q \in sent : request[q].workspace = new.active
              /\ new.state = "gone" /\ old.state = "live" =>
                     \E q \in sent : request[q].kind = "signout"
              /\ old.state = "gone" => new.state = "gone"
       /\ \A t \in DOMAIN tokens :
              tokens[t].state = "gone" => tokens'[t].state = "gone"]_vars
=============================================================================
