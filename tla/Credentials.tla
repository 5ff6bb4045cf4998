---------------------------- MODULE Credentials ----------------------------
(***************************************************************************)
(* The OAuth credential behind the sources of one provider account:        *)
(* auth/token.service.ts (getAccessToken), sources/sources.service.ts      *)
(* (startAuthorization, completeAuthorization) with the saves it makes     *)
(* through sources/source.repository.ts, and the provider as               *)
(* auth/oauth.http.ts, confluence.oauth.ts and notion.oauth.ts use it.     *)
(*                                                                         *)
(* A grant hands out an access token and a refresh token, and a refresh    *)
(* replaces both, so one number stands for the pair: the n-th pair issued. *)
(* The provider takes each refresh token once.                             *)
(***************************************************************************)
EXTENDS Integers, FiniteSets

CONSTANTS
    Processes,          \* the API processes over one database
    Calls,              \* the requests for an access token
    Home,               \* the process that serves each call
    Sources,            \* the resources the account can grant
    Grants,             \* the state values of authorizations
    Nobody,
    SlowTransactions,   \* may a refresh outlast its fifteen seconds
    MaxTokens           \* bound on the token pairs issued

ASSUME HomeAssumption == Home \in [Calls -> Processes] /\ Nobody \notin Calls
ASSUME TokensAssumption == MaxTokens \in Nat /\ SlowTransactions \in BOOLEAN

VARIABLES
    cred,       \* the row of `source_credentials`
    source,     \* the status of each row of `sources`
    lock,       \* the call whose transaction holds the row lock
    pending,    \* pendingTokenRequests of each process: its leading call
    call,       \* the local state of each call
    grant,      \* each authorization, and where it was started
    live,       \* the refresh tokens the provider accepts
    issued,     \* how many pairs it has issued
    dropped,    \* the successor of the stored token is lost (history)
    crossed     \* marked between the two saves of a grant (history)

rows == <<cred, source, lock>>
provider == <<live, issued>>
history == <<dropped, crossed>>
vars == <<cred, source, lock, pending, call, grant, live, issued,
          dropped, crossed>>

-----------------------------------------------------------------------------
Status == {"none", "active", "reauth_required"}

(* `fresh`: expiresAt is null or more than a minute away.  `readable`: the *)
(* stored tokens decrypt with the key the processes run with.              *)
Credential == [status: Status, token: Nat, fresh: BOOLEAN, readable: BOOLEAN]

NoCredential == [status |-> "none", token |-> 0, fresh |-> FALSE, readable |-> FALSE]

Stored(token) ==
    [status |-> "active", token |-> token, fresh |-> TRUE, readable |-> TRUE]

(* What a call finds in the row. *)
View(row) == IF row.status = "reauth_required" THEN "dead"
             ELSE IF ~row.fresh THEN "stale"
             ELSE IF row.readable THEN "usable" ELSE "unreadable"

(* `view` is what the call found before it knew whether it leads, `sent`   *)
(* the refresh token it sent and `got` the pair that came back, 0 for      *)
(* invalid_grant.  An expired call waits for the provider after its        *)
(* transaction was ended.  What a call returns is left out: it goes back   *)
(* to idle with a token, a request for a new grant or an error.            *)
Call == [phase: {"idle", "read", "joined", "lock", "ask", "answered", "expired"},
         view: {"none", "dead", "stale", "usable", "unreadable"},
         sent: Nat, got: Nat]

IdleCall == [phase |-> "idle", view |-> "none", sent |-> 0, got |-> 0]

Grant == [phase: {"new", "started", "exchange", "save", "link"},
          home: Processes \cup {Nobody}, token: Nat,
          resources: SUBSET Sources]

NoGrant == [phase |-> "new", home |-> Nobody, token |-> 0,
            resources |-> {}]

CredentialsTypeOK ==
    /\ cred \in Credential
    /\ source \in [Sources -> Status]
    /\ lock \in Calls \cup {Nobody}
    /\ pending \in [Processes -> Calls \cup {Nobody}]
    /\ call \in [Calls -> Call]
    /\ grant \in [Grants -> Grant]
    /\ live \subseteq Nat /\ issued \in Nat
    /\ dropped \in BOOLEAN /\ crossed \in BOOLEAN

Init ==
    /\ cred = NoCredential
    /\ source = [s \in Sources |-> "none"]
    /\ lock = Nobody
    /\ pending = [p \in Processes |-> Nobody]
    /\ call = [c \in Calls |-> IdleCall]
    /\ grant = [g \in Grants |-> NoGrant]
    /\ live = {} /\ issued = 0
    /\ dropped = FALSE /\ crossed = FALSE

-----------------------------------------------------------------------------
(* A call that leads ends: the `finally` takes it out of the map, and the  *)
(* calls of its process that joined it end with the same outcome.          *)
Settled(c) ==
    /\ pending' = [pending EXCEPT ![Home[c]] = Nobody]
    /\ call' = [d \in Calls |->
                  IF d = c \/ (call[d].phase = "joined" /\ Home[d] = Home[c])
                  THEN IdleCall ELSE call[d]]

(* requestAccessToken reads the source with its credential.                *)
ReadSource(c) ==
    /\ call[c].phase = "idle"
    /\ \E s \in Sources : source[s] # "none"
    /\ call' = [call EXCEPT ![c] = [IdleCall EXCEPT !.phase = "read", !.view = View(cred)]]
    /\ UNCHANGED <<rows, pending, grant, provider, history>>

(* Another call of the process leads: wait for its promise.  No caller     *)
(* forces a refresh, so its token is taken as it is.                       *)
JoinRequest(c) ==
    /\ call[c].phase = "read"
    /\ pending[Home[c]] # Nobody
    /\ call' = [call EXCEPT ![c].phase = "joined"]
    /\ UNCHANGED <<rows, pending, grant, provider, history>>

(* Mutant: something is awaited between the look into the map and the      *)
(* entry, so two calls lead.                                               *)
LeadRequestToo(c) ==
    /\ call[c].phase = "read"
    /\ IF call[c].view \in {"dead", "usable"}
       THEN Settled(c)
       ELSE /\ pending' = [pending EXCEPT ![Home[c]] = c]
            /\ call' = [call EXCEPT ![c].phase = "lock"]
    /\ UNCHANGED <<rows, grant, provider, history>>

(* resolveAccessToken: nothing is awaited between the look into the map    *)
(* and the entry, so one call leads.  A view that needs a grant and a      *)
(* token that is fresh and decrypts end the call at once.                  *)
LeadRequest(c) ==
    /\ call[c].phase = "read"
    /\ pending[Home[c]] = Nobody
    /\ IF call[c].view \in {"dead", "usable"}
       THEN Settled(c)
       ELSE /\ pending' = [pending EXCEPT ![Home[c]] = c]
            /\ call' = [call EXCEPT ![c].phase = "lock"]
    /\ UNCHANGED <<rows, grant, provider, history>>

(* Mutant: the second statement of markReauthRequired is missing. *)
MarkCredentialOnly ==
    /\ cred' = [cred EXCEPT !.status = "reauth_required"]
    /\ UNCHANGED <<source, crossed>>

(* markReauthRequired: the credential and every source it supplies.        *)
MarkReauthRequired ==
    /\ cred' = [cred EXCEPT !.status = "reauth_required"]
    /\ source' = [s \in Sources |-> IF source[s] = "none" THEN "none"
                                    ELSE "reauth_required"]
    /\ crossed' = (crossed \/ \E g \in Grants : grant[g].phase = "link")

(* The stored access token did not decrypt, so it is replaced in any case. *)
Forced(c) == call[c].view = "unreadable"

(* Mutant: no FOR UPDATE. *)
ReadWithoutLock(c) ==
    /\ call[c].phase = "lock"
    /\ IF cred.status = "active" /\ cred.readable /\ (Forced(c) \/ ~cred.fresh)
       THEN /\ lock' = c
            /\ call' = [call EXCEPT ![c] = [call[c] EXCEPT !.phase = "ask",
                                                      !.sent = cred.token]]
            /\ UNCHANGED <<cred, source, pending>>
       ELSE /\ Settled(c) /\ UNCHANGED rows
    /\ UNCHANGED <<grant, provider, history>>

(* refreshCredentialAccessToken: the row lock, then the row again.  A row  *)
(* that meanwhile needs a grant or was refreshed ends the call; tokens     *)
(* that do not decrypt are marked; else the refresh token is sent with     *)
(* the lock held.                                                          *)
LockCredential(c) ==
    /\ call[c].phase = "lock"
    /\ lock = Nobody
    /\ \/ /\ cred.status = "reauth_required"
          /\ Settled(c)
          /\ UNCHANGED <<rows, history>>
       \/ /\ cred.status = "active"
          /\ ~cred.readable
          /\ MarkReauthRequired
          /\ Settled(c)
          /\ UNCHANGED <<lock, dropped>>
       \/ /\ cred.status = "active"
          /\ cred.readable /\ cred.fresh /\ ~Forced(c)
          /\ Settled(c)
          /\ UNCHANGED <<rows, history>>
       \/ /\ cred.status = "active"
          /\ cred.readable /\ (Forced(c) \/ ~cred.fresh)
          /\ lock' = c
          /\ call' = [call EXCEPT ![c] = [call[c] EXCEPT !.phase = "ask",
                                                      !.sent = cred.token]]
          /\ UNCHANGED <<cred, source, pending, history>>
    /\ UNCHANGED <<grant, provider>>

(* The provider handles the request: a token it accepts is rotated.        *)
RefreshTokens(c) ==
    /\ call[c].phase = "ask"
    /\ IF call[c].sent \in live
       THEN /\ issued < MaxTokens
            /\ issued' = issued + 1
            /\ live' = (live \ {call[c].sent}) \cup {issued + 1}
            /\ call' = [call EXCEPT ![c] = [call[c] EXCEPT !.phase = "answered",
                                                        !.got = issued + 1]]
       ELSE /\ call' = [call EXCEPT ![c].phase = "answered"]
            /\ UNCHANGED provider
    /\ UNCHANGED <<rows, pending, grant, history>>

(* A request whose answer nobody will store may be handled or not.  Later  *)
(* would be the same as now: until then no other request with that token   *)
(* is handled, or this one changes nothing.  The successor is not kept,    *)
(* because nobody knows it.                                                *)
Sent(calls) == {call[c].sent : c \in {d \in calls : call[d].phase \in {"ask", "expired"}}}

Rotated(calls) == {call[c].sent : c \in {d \in calls : call[d].got # 0}}

Abandoned(calls) ==
    /\ \E handled \in SUBSET (Sent(calls) \cap live) :
          /\ live' = live \ handled
          /\ dropped' = (dropped \/ cred.token \in handled \cup Rotated(calls))
    /\ UNCHANGED issued

(* Mutant: every error of the provider counts as a dead grant. *)
FailMarking(c) ==
    /\ call[c].phase \in {"ask", "expired"}
    /\ Abandoned({c})
    /\ lock' = IF lock = c THEN Nobody ELSE lock
    /\ MarkReauthRequired
    /\ Settled(c)
    /\ UNCHANGED grant

(* An error status or no answer in ten seconds rolls the transaction back; *)
(* a transaction that was ended fails whatever the answer is.              *)
FailRefresh(c) ==
    /\ call[c].phase \in {"ask", "expired"}
    /\ Abandoned({c})
    /\ lock' = IF lock = c THEN Nobody ELSE lock
    /\ Settled(c)
    /\ UNCHANGED <<cred, source, grant, crossed>>

(* Mutant: the rotated refresh token is not written back. *)
FinishUnrotated(c) ==
    /\ call[c].phase = "answered"
    /\ cred' = [cred EXCEPT !.fresh = TRUE]
    /\ lock' = Nobody
    /\ Settled(c)
    /\ UNCHANGED <<source, grant, provider, history>>

(* The transaction commits the new pair, or the mark for invalid_grant.    *)
FinishRefresh(c) ==
    /\ call[c].phase = "answered"
    /\ lock' = Nobody
    /\ Settled(c)
    /\ \/ /\ call[c].got # 0
          /\ cred' = Stored(call[c].got)
          /\ UNCHANGED <<source, history>>
       \/ /\ call[c].got = 0
          /\ MarkReauthRequired
          /\ UNCHANGED dropped
    /\ UNCHANGED <<grant, provider>>

(* Fifteen seconds pass, the wait for the lock included: the transaction   *)
(* is ended and its lock released.  A request to the provider goes on, and *)
(* an answer that came is lost.                                            *)
ExpireTransaction(c) ==
    /\ SlowTransactions
    /\ lock' = IF lock = c THEN Nobody ELSE lock
    /\ \/ /\ call[c].phase = "ask"
          /\ call' = [call EXCEPT ![c].phase = "expired"]
          /\ UNCHANGED <<pending, dropped>>
       \/ /\ call[c].phase \in {"lock", "answered"}
          /\ dropped' = (dropped \/ cred.token \in Rotated({c}))
          /\ Settled(c)
    /\ UNCHANGED <<cred, source, grant, provider, crossed>>

-----------------------------------------------------------------------------
(* startAuthorization: a new state value is remembered in this process,    *)
(* and those that are older than ten minutes go.                           *)
StartAuthorization(g, p, old) ==
    /\ grant[g].phase = "new"
    /\ \A h \in old : grant[h].phase = "started" /\ grant[h].home = p
    /\ grant' = [h \in Grants |->
                   IF h = g THEN [NoGrant EXCEPT !.phase = "started", !.home = p]
                   ELSE IF h \in old THEN NoGrant ELSE grant[h]]
    /\ UNCHANGED <<rows, pending, call, provider, history>>

(* completeAuthorization: the callback takes the state out before the code *)
(* is exchanged.  At another process, or twice, it finds none and ends.    *)
CompleteAuthorization(g, p) ==
    /\ grant[g].phase = "started"
    /\ grant[g].home = p
    /\ grant' = [grant EXCEPT ![g].phase = "exchange"]
    /\ UNCHANGED <<rows, pending, call, provider, history>>

(* What one grant covers: the workspace the person picked in Notion, or    *)
(* every space of the Atlassian sites, which may not be none.              *)
NotionResources == {{s} : s \in Sources}
ConfluenceResources == SUBSET Sources \ {{}}

(* exchangeAuthorizationCode: the tokens, and the resources they cover.    *)
ExchangeCode(g) ==
    /\ grant[g].phase = "exchange"
    /\ issued < MaxTokens
    /\ issued' = issued + 1
    /\ live' = live \cup {issued + 1}
    /\ \E resources \in NotionResources \cup ConfluenceResources :
          grant' = [grant EXCEPT ![g] = [grant[g] EXCEPT !.phase = "save",
                                                         !.token = issued + 1,
                                                         !.resources = resources]]
    /\ UNCHANGED <<rows, pending, call, history>>

(* saveCredential: the upsert waits for the lock of a refresh.             *)
SaveCredential(g) ==
    /\ grant[g].phase = "save"
    /\ lock = Nobody
    /\ cred' = Stored(grant[g].token)
    /\ dropped' = (grant[g].token \notin live) /\ crossed' = FALSE
    /\ grant' = [grant EXCEPT ![g].phase = "link"]
    /\ UNCHANGED <<source, lock, pending, call, provider>>

(* saveOAuthSources, a transaction of its own.                             *)
SaveOAuthSources(g) ==
    /\ grant[g].phase = "link"
    /\ source' = [s \in Sources |-> IF s \in grant[g].resources
                                    THEN "active" ELSE source[s]]
    /\ grant' = [grant EXCEPT ![g] = NoGrant]
    /\ UNCHANGED <<cred, lock, pending, call, provider, history>>

(* The exchange or a save throws, and what is saved stays. *)
FailAuthorization(g) ==
    /\ grant[g].phase \in {"exchange", "save", "link"}
    /\ grant' = [grant EXCEPT ![g] = NoGrant]
    /\ UNCHANGED <<rows, pending, call, provider, history>>

-----------------------------------------------------------------------------
(* The access token nears its end, and the person takes the access back.   *)
ExpireToken ==
    /\ cred.fresh
    /\ cred' = [cred EXCEPT !.fresh = FALSE]
    /\ UNCHANGED <<source, lock, pending, call, grant, provider, history>>

Revoke ==
    /\ live # {}
    /\ live' = {}
    /\ dropped' = TRUE
    /\ UNCHANGED <<rows, pending, call, grant, issued, crossed>>

(* What is lost with the processes of a set: their calls and the maps; the *)
(* database ends their transactions.  A request that was sent may still be *)
(* handled.                                                                *)
Lost(ps) ==
    /\ pending' = [p \in Processes |-> IF p \in ps THEN Nobody ELSE pending[p]]
    /\ call' = [c \in Calls |-> IF Home[c] \in ps THEN IdleCall ELSE call[c]]
    /\ lock' = IF lock # Nobody /\ Home[lock] \in ps THEN Nobody ELSE lock
    /\ grant' = [g \in Grants |-> IF grant[g].home \in ps THEN NoGrant ELSE grant[g]]
    /\ Abandoned({c \in Calls : Home[c] \in ps})
    /\ UNCHANGED <<source, crossed>>

Crash(p) == Lost({p}) /\ UNCHANGED cred

(* Every process restarts with another TOKEN_ENCRYPTION_KEY. *)
ChangeKey ==
    /\ cred.readable
    /\ Lost(Processes)
    /\ cred' = [cred EXCEPT !.readable = FALSE]

CallStep(c) ==
    \/ ReadSource(c) \/ JoinRequest(c) \/ LeadRequest(c)
    \/ LockCredential(c) \/ RefreshTokens(c) \/ FailRefresh(c)
    \/ FinishRefresh(c) \/ ExpireTransaction(c)

Next ==
    \/ \E c \in Calls : CallStep(c)
    \/ \E g \in Grants :
          \/ \E p \in Processes :
                \/ \E old \in SUBSET Grants : StartAuthorization(g, p, old)
                \/ CompleteAuthorization(g, p)
          \/ ExchangeCode(g) \/ SaveCredential(g) \/ SaveOAuthSources(g) \/ FailAuthorization(g)
    \/ ExpireToken \/ Revoke \/ ChangeKey
    \/ \E p \in Processes : Crash(p)

Spec == Init /\ [][Next]_vars

-----------------------------------------------------------------------------
Refreshing(c) == call[c].phase \in {"ask", "answered"}

(* Two calls never refresh under open transactions at once, of one process *)
(* or of two, so a rotating refresh token is not sent twice                *)
(* (token.service.ts, FOR UPDATE).                                         *)
OneOpenRefresh ==
    \A c, d \in Calls : Refreshing(c) /\ Refreshing(d) => c = d

(* The person is asked for a new grant only when the stored one is dead:   *)
(* the provider does not take its refresh token, or it does not decrypt.   *)
(* A call that lost a race against another refresh marks nothing           *)
(* (token.service.ts, the row is read again under the lock).               *)
NoNeedlessReauth ==
    cred.status = "reauth_required" => cred.token \notin live \/ ~cred.readable

(* While the stored credential counts as active, the provider takes its    *)
(* refresh token, or the call that rotated it still has the successor to   *)
(* store, or that successor was lost with an answer, a transaction or a    *)
(* process, or the person revoked the grant.                               *)
StoredGrantIsLive ==
    cred.status = "active" /\ ~dropped =>
        \/ cred.token \in live
        \/ \E c \in Calls : /\ call[c].phase = "answered"
                            /\ call[c].got # 0 /\ call[c].sent = cred.token

(* A source that shows as active has an active credential, across the      *)
(* mark that sets both and the grant that saves one after the other,       *)
(* unless a refresh marked the credential between those two saves.         *)
ActiveSourceHasActiveGrant ==
    \A s \in Sources :
        source[s] = "active" => cred.status = "active" \/ crossed

Leads(c) == call[c].phase \in {"lock", "ask", "answered", "expired"}

(* A process has at most one call that resolves the token, the one in its  *)
(* map, and nobody waits for what is not coming: a call that joined has    *)
(* such an entry to wait for, and the row lock belongs to a call that will *)
(* release it (token.service.ts, pendingTokenRequests and its finally).    *)
WaitersAreServed ==
    /\ \A c \in Calls : Leads(c) <=> pending[Home[c]] = c
    /\ \A c \in Calls : call[c].phase = "joined" => pending[Home[c]] # Nobody
    /\ \A p \in Processes : pending[p] # Nobody => Home[pending[p]] = p
    /\ lock # Nobody => Refreshing(lock)
=============================================================================
