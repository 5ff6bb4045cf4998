------------------------- MODULE CredentialsProofs -------------------------
(***************************************************************************)
(* What holds of the credential of an account for any number of processes, *)
(* of calls that need a token and of authorizations in flight.             *)
(***************************************************************************)
EXTENDS Credentials, TLAPS

-----------------------------------------------------------------------------
(* What a step does to the calls, once for each way a call moves.          *)

(* A call that settles takes those that joined it along, and no other.     *)
LEMMA SettledCalls ==
    ASSUME CredentialsTypeOK, NEW c \in Calls, Settled(c)
    PROVE  /\ call' \in [Calls -> Call]
           /\ pending' \in [Processes -> Calls \cup {Nobody}]
           /\ pending'[Home[c]] = Nobody
           /\ \A p \in Processes : p # Home[c] => pending'[p] = pending[p]
           /\ call'[c] = IdleCall
           /\ \A d \in Calls :
                 \/ call'[d] = call[d]
                 \/ call'[d] = IdleCall /\ (d = c \/ call[d].phase = "joined")
           /\ \A d \in Calls : call[d].phase = "joined" /\ Home[d] = Home[c]
                                  => call'[d] = IdleCall
<1>1. IdleCall \in Call
  BY DEF IdleCall, Call
<1>2. Home[c] \in Processes
  BY HomeAssumption
<1>. QED BY <1>1, <1>2 DEF Settled, CredentialsTypeOK

(* A call that does not settle moves alone. *)
MovesTo(c, phase, view, sent, got) ==
    /\ call' \in [Calls -> Call]
    /\ \A d \in Calls : d # c => call'[d] = call[d]
    /\ call'[c].phase = phase
    /\ call'[c].view = view
    /\ call'[c].sent = sent
    /\ call'[c].got = got

LEMMA CallMoves ==
    ASSUME CredentialsTypeOK, NEW c \in Calls,
           NEW x \in Call, call' = [call EXCEPT ![c] = x]
    PROVE  MovesTo(c, x.phase, x.view, x.sent, x.got)
BY DEF MovesTo, CredentialsTypeOK

LEMMA PhaseMoves ==
    ASSUME CredentialsTypeOK, NEW c \in Calls,
           NEW phase \in {"joined", "lock", "answered", "expired"},
           call' = [call EXCEPT ![c].phase = phase]
    PROVE  MovesTo(c, phase, call[c].view, call[c].sent, call[c].got)
<1> DEFINE x == [call[c] EXCEPT !.phase = phase]
<1>1. call[c] \in Call
  BY DEF CredentialsTypeOK
<1>2. /\ x \in Call /\ x.phase = phase /\ x.view = call[c].view
      /\ x.sent = call[c].sent /\ x.got = call[c].got
  BY <1>1 DEF Call
<1>3. call' = [call EXCEPT ![c] = x]
  OBVIOUS
<1> HIDE DEF x
<1>. QED BY <1>2, <1>3, CallMoves

LEMMA ReadMoves ==
    ASSUME CredentialsTypeOK, NEW c \in Calls, ReadSource(c)
    PROVE  MovesTo(c, "read", View(cred), 0, 0)
<1> DEFINE x == [IdleCall EXCEPT !.phase = "read", !.view = View(cred)]
<1>1. View(cred) \in {"dead", "stale", "usable", "unreadable"}
  BY DEF View
<1>2. /\ x \in Call /\ x.phase = "read" /\ x.view = View(cred)
      /\ x.sent = 0 /\ x.got = 0
  BY <1>1 DEF IdleCall, Call
<1>3. call' = [call EXCEPT ![c] = x]
  BY DEF ReadSource
<1> HIDE DEF x
<1>. QED BY <1>2, <1>3, CallMoves

Asks(c) == [call[c] EXCEPT !.phase = "ask", !.sent = cred.token]

LEMMA AskMoves ==
    ASSUME CredentialsTypeOK, NEW c \in Calls,
           call' = [call EXCEPT ![c] = Asks(c)]
    PROVE  MovesTo(c, "ask", call[c].view, cred.token, call[c].got)
<1>1. call[c] \in Call /\ cred.token \in Nat
  BY DEF CredentialsTypeOK, Credential
<1>2. /\ Asks(c) \in Call /\ Asks(c).phase = "ask"
      /\ Asks(c).view = call[c].view
      /\ Asks(c).sent = cred.token /\ Asks(c).got = call[c].got
  BY <1>1 DEF Call, Asks
<1>. QED BY <1>2, CallMoves

LEMMA RotationMoves ==
    ASSUME CredentialsTypeOK, NEW c \in Calls,
           call' = [call EXCEPT ![c] = [call[c] EXCEPT !.phase = "answered",
                                                        !.got = issued + 1]]
    PROVE  MovesTo(c, "answered", call[c].view, call[c].sent, issued + 1)
<1> DEFINE x == [call[c] EXCEPT !.phase = "answered", !.got = issued + 1]
<1>1. call[c] \in Call /\ issued + 1 \in Nat
  BY DEF CredentialsTypeOK
<1>2. /\ x \in Call /\ x.phase = "answered" /\ x.view = call[c].view
      /\ x.sent = call[c].sent /\ x.got = issued + 1
  BY <1>1 DEF Call
<1>3. call' = [call EXCEPT ![c] = x]
  OBVIOUS
<1> HIDE DEF x
<1>. QED BY <1>2, <1>3, CallMoves

(* A crash takes the calls of its processes. *)
LEMMA LostCalls ==
    ASSUME CredentialsTypeOK, NEW ps \in SUBSET Processes, Lost(ps)
    PROVE  /\ call' \in [Calls -> Call]
           /\ pending' \in [Processes -> Calls \cup {Nobody}]
           /\ lock' \in Calls \cup {Nobody}
           /\ grant' \in [Grants -> Grant]
           /\ live' \subseteq live /\ issued' = issued /\ dropped' \in BOOLEAN
<1>1. IdleCall \in Call /\ NoGrant \in Grant
  BY DEF IdleCall, Call, NoGrant, Grant
<1>. QED BY <1>1 DEF Lost, Abandoned, CredentialsTypeOK

LEMMA AbandonedType ==
    ASSUME CredentialsTypeOK, NEW cs, Abandoned(cs)
    PROVE  live' \subseteq live /\ issued' = issued /\ dropped' \in BOOLEAN
BY DEF Abandoned, CredentialsTypeOK

LEMMA Marked ==
    ASSUME CredentialsTypeOK, MarkReauthRequired
    PROVE  /\ cred' \in Credential /\ cred'.status = "reauth_required"
           /\ cred'.token = cred.token /\ cred'.readable = cred.readable
           /\ source' \in [Sources -> Status]
           /\ \A s \in Sources : source'[s] # "active"
           /\ crossed' \in BOOLEAN
           /\ \A g \in Grants : grant[g].phase = "link" => crossed'
           /\ crossed => crossed'
BY DEF MarkReauthRequired, CredentialsTypeOK, Credential, Status

LEMMA StoredCredential ==
    ASSUME NEW n \in Nat
    PROVE  /\ Stored(n) \in Credential /\ Stored(n).status = "active"
           /\ Stored(n).token = n
BY DEF Stored, Credential, Status

-----------------------------------------------------------------------------
LEMMA TypeStep ==
    ASSUME CredentialsTypeOK, [Next]_vars PROVE CredentialsTypeOK'
<1> USE DEF CredentialsTypeOK
<1>1. ASSUME NEW c \in Calls, ReadSource(c) PROVE CredentialsTypeOK'
  BY <1>1, ReadMoves DEF ReadSource, MovesTo, rows, provider, history
<1>2. ASSUME NEW c \in Calls, JoinRequest(c) PROVE CredentialsTypeOK'
  BY <1>2, PhaseMoves DEF JoinRequest, MovesTo, rows, provider, history
<1>3. ASSUME NEW c \in Calls, LeadRequest(c) PROVE CredentialsTypeOK'
  <2>1. CASE Settled(c)
    BY <1>3, <2>1, SettledCalls DEF LeadRequest, rows, provider, history
  <2>2. CASE ~Settled(c)
    <3>1. /\ pending' = [pending EXCEPT ![Home[c]] = c]
          /\ call' = [call EXCEPT ![c].phase = "lock"]
      BY <1>3, <2>2 DEF LeadRequest
    <3>2. MovesTo(c, "lock", call[c].view, call[c].sent, call[c].got)
      BY <3>1, PhaseMoves
    <3>. QED
      BY <1>3, <3>1, <3>2 DEF LeadRequest, MovesTo, rows, provider, history
  <2>. QED BY <2>1, <2>2
<1>4. ASSUME NEW c \in Calls, LockCredential(c) PROVE CredentialsTypeOK'
  <2>1. CASE Settled(c) /\ UNCHANGED <<rows, history>>
    BY <1>4, <2>1, SettledCalls DEF LockCredential, rows, provider, history
  <2>2. CASE MarkReauthRequired /\ Settled(c) /\ UNCHANGED <<lock, dropped>>
    BY <1>4, <2>2, SettledCalls, Marked DEF LockCredential, provider
  <2>3. CASE /\ lock' = c /\ call' = [call EXCEPT ![c] = Asks(c)]
             /\ UNCHANGED <<cred, source, pending, history>>
    BY <1>4, <2>3, AskMoves DEF LockCredential, MovesTo, provider, history
  <2>. QED BY <1>4, <2>1, <2>2, <2>3 DEF LockCredential, Asks
<1>5. ASSUME NEW c \in Calls, RefreshTokens(c) PROVE CredentialsTypeOK'
  <2>1. CASE call[c].sent \in live
    <3>1. /\ call' = [call EXCEPT ![c] = [call[c] EXCEPT !.phase = "answered",
                                                          !.got = issued + 1]]
          /\ issued' = issued + 1
          /\ live' = (live \ {call[c].sent}) \cup {issued + 1}
      BY <1>5, <2>1 DEF RefreshTokens
    <3>2. call' \in [Calls -> Call]
      BY <3>1, RotationMoves DEF MovesTo
    <3>3. live' \subseteq Nat /\ issued' \in Nat
      BY <3>1
    <3>. QED BY <1>5, <3>2, <3>3 DEF RefreshTokens, rows, history
  <2>2. CASE call[c].sent \notin live
    BY <1>5, <2>2, PhaseMoves
       DEF RefreshTokens, MovesTo, rows, provider, history
  <2>. QED BY <2>1, <2>2
<1>6. ASSUME NEW c \in Calls, FailRefresh(c) PROVE CredentialsTypeOK'
  <2>1. live' \subseteq live /\ issued' = issued /\ dropped' \in BOOLEAN
    BY <1>6, AbandonedType DEF FailRefresh
  <2>. QED BY <1>6, <2>1, SettledCalls DEF FailRefresh
<1>7. ASSUME NEW c \in Calls, FinishRefresh(c) PROVE CredentialsTypeOK'
  <2>1. call[c].got \in Nat
    BY DEF Call
  <2>2. cred' \in Credential /\ source' \in [Sources -> Status]
        /\ dropped' \in BOOLEAN /\ crossed' \in BOOLEAN
    BY <1>7, <2>1, StoredCredential, Marked DEF FinishRefresh, history
  <2>. QED BY <1>7, <2>2, SettledCalls DEF FinishRefresh, provider
<1>8. ASSUME NEW c \in Calls, ExpireTransaction(c) PROVE CredentialsTypeOK'
  <2>1. CASE call' = [call EXCEPT ![c].phase = "expired"]
             /\ UNCHANGED <<pending, dropped>>
    BY <1>8, <2>1, PhaseMoves DEF ExpireTransaction, MovesTo, provider
  <2>2. CASE dropped' = (dropped \/ cred.token \in Rotated({c})) /\ Settled(c)
    BY <1>8, <2>2, SettledCalls DEF ExpireTransaction, provider
  <2>. QED BY <1>8, <2>1, <2>2 DEF ExpireTransaction
<1>g. ASSUME NEW g \in Grants PROVE grant[g] \in Grant /\ NoGrant \in Grant
  BY DEF Grant, NoGrant
<1>9. ASSUME NEW g \in Grants, NEW p \in Processes, NEW old \in SUBSET Grants,
             StartAuthorization(g, p, old)
      PROVE  CredentialsTypeOK'
  <2>1. [NoGrant EXCEPT !.phase = "started", !.home = p] \in Grant
    BY DEF NoGrant, Grant
  <2>2. grant' \in [Grants -> Grant]
    BY <1>9, <2>1, <1>g DEF StartAuthorization
  <2>. QED BY <1>9, <2>2 DEF StartAuthorization, rows, provider, history
<1>10. ASSUME NEW g \in Grants, NEW p \in Processes, CompleteAuthorization(g, p)
       PROVE  CredentialsTypeOK'
  <2>1. [grant[g] EXCEPT !.phase = "exchange"] \in Grant
    BY <1>g DEF Grant
  <2>2. grant' \in [Grants -> Grant]
    BY <1>10, <2>1 DEF CompleteAuthorization
  <2>. QED BY <1>10, <2>2 DEF CompleteAuthorization, rows, provider, history
<1>11. ASSUME NEW g \in Grants, ExchangeCode(g) PROVE CredentialsTypeOK'
  <2>1. PICK resources \in NotionResources \cup ConfluenceResources :
           grant' = [grant EXCEPT ![g] = [grant[g] EXCEPT !.phase = "save",
                                                !.token = issued + 1,
                                                !.resources = resources]]
    BY <1>11 DEF ExchangeCode
  <2>2. resources \in SUBSET Sources
    BY DEF NotionResources, ConfluenceResources
  <2>3. [grant[g] EXCEPT !.phase = "save", !.token = issued + 1,
                         !.resources = resources] \in Grant
    <3>1. grant[g] \in Grant /\ issued + 1 \in Nat
      BY <1>g
    <3>2. \A x \in Grant, n \in Nat :
             [x EXCEPT !.phase = "save", !.token = n,
                       !.resources = resources] \in Grant
      BY <2>2 DEF Grant
    <3>. QED BY <3>1, <3>2
  <2>4. grant' \in [Grants -> Grant]
    BY <2>1, <2>3
  <2>. QED BY <1>11, <2>4 DEF ExchangeCode, rows, history
<1>12. ASSUME NEW g \in Grants, SaveCredential(g) PROVE CredentialsTypeOK'
  <2>1. grant[g].token \in Nat /\ [grant[g] EXCEPT !.phase = "link"] \in Grant
    BY <1>g DEF Grant
  <2>2. grant' \in [Grants -> Grant] /\ cred' \in Credential
    BY <1>12, <2>1, StoredCredential DEF SaveCredential
  <2>. QED BY <1>12, <2>2 DEF SaveCredential, provider
<1>13. ASSUME NEW g \in Grants, SaveOAuthSources(g) PROVE CredentialsTypeOK'
  BY <1>13, <1>g DEF SaveOAuthSources, Status, provider, history
<1>14. ASSUME NEW g \in Grants, FailAuthorization(g) PROVE CredentialsTypeOK'
  BY <1>14, <1>g DEF FailAuthorization, rows, provider, history
<1>15. CASE ExpireToken
  BY <1>15 DEF ExpireToken, Credential, provider, history
<1>16. CASE Revoke
  BY <1>16 DEF Revoke, rows
<1>17. CASE ChangeKey
  <2>1. cred' \in Credential
    BY <1>17 DEF ChangeKey, Credential
  <2>2. Lost(Processes)
    BY <1>17 DEF ChangeKey
  <2>. QED BY <2>1, <2>2, LostCalls DEF Lost
<1>18. ASSUME NEW p \in Processes, Crash(p) PROVE CredentialsTypeOK'
  <2>1. Lost({p}) /\ UNCHANGED cred
    BY <1>18 DEF Crash
  <2>. QED BY <2>1, LostCalls DEF Lost
<1>19. CASE UNCHANGED vars
  BY <1>19 DEF vars
<1>. QED
  BY <1>1, <1>2, <1>3, <1>4, <1>5, <1>6, <1>7, <1>8, <1>9, <1>10, <1>11,
     <1>12, <1>13, <1>14, <1>15, <1>16, <1>17, <1>18, <1>19
     DEF Next, CallStep

(* Every variable keeps its type. *)
THEOREM TypeCorrect == Spec => []CredentialsTypeOK
<1>1. Init => CredentialsTypeOK
  <2>1. NoCredential \in Credential
    BY DEF NoCredential, Credential, Status
  <2>2. IdleCall \in Call /\ NoGrant \in Grant
    BY DEF IdleCall, Call, NoGrant, Grant
  <2> SUFFICES ASSUME Init PROVE CredentialsTypeOK
    OBVIOUS
  <2>3. /\ source \in [Sources -> Status]
        /\ pending \in [Processes -> Calls \cup {Nobody}]
    BY DEF Init, Status
  <2>4. call \in [Calls -> Call] /\ grant \in [Grants -> Grant]
    BY <2>2 DEF Init
  <2>. QED BY <2>1, <2>3, <2>4 DEF Init, CredentialsTypeOK
<1>2. CredentialsTypeOK /\ [Next]_vars => CredentialsTypeOK'
  BY TypeStep
<1>. QED BY <1>1, <1>2, PTL DEF Spec

-----------------------------------------------------------------------------
(* The inductive invariant.  A call that refreshes holds the lock, so the  *)
(* row still holds the token it sent; tokens are numbered as they are      *)
(* issued, so a new one is neither stored, sent nor live; an answer means  *)
(* what it says: invalid_grant was given for a token that is dead for      *)
(* good, and a pair that came back was sent by nobody yet and is live      *)
(* unless the person revoked the grant.                                    *)
LockHeld ==
    \A c \in Calls : Refreshing(c) => lock = c /\ call[c].sent = cred.token

TokensWereIssued ==
    /\ cred.token <= issued
    /\ \A n \in live : n <= issued
    /\ \A c \in Calls : call[c].sent <= issued /\ call[c].got <= issued
    /\ \A g \in Grants : grant[g].token <= issued

AnswersBelongToAnswered ==
    \A c \in Calls : call[c].got # 0 => call[c].phase = "answered"

DeadAnswers ==
    \A c \in Calls : call[c].phase = "answered" /\ call[c].got = 0
                        => call[c].sent \notin live

FreshAnswers ==
    \A c \in Calls : call[c].got # 0
        => /\ dropped \/ call[c].got \in live
           /\ \A d \in Calls : call[d].sent # call[c].got

LinkedIsActive ==
    \A g \in Grants : grant[g].phase = "link"
                         => cred.status = "active" \/ crossed

LockInv == LockHeld /\ WaitersAreServed

TokenInv == TokensWereIssued /\ AnswersBelongToAnswered /\ DeadAnswers

SourceInv == LinkedIsActive /\ ActiveSourceHasActiveGrant

SuccessorInv == FreshAnswers /\ StoredGrantIsLive

-----------------------------------------------------------------------------
(* The entries of the maps, apart from the row lock. *)
MapsServe ==
    /\ \A c \in Calls : Leads(c) <=> pending[Home[c]] = c
    /\ \A c \in Calls : call[c].phase = "joined" => pending[Home[c]] # Nobody
    /\ \A p \in Processes : pending[p] # Nobody => Home[pending[p]] = p

LockIsUsed == lock # Nobody => Refreshing(lock)

LEMMA LockInvParts == LockInv <=> LockHeld /\ MapsServe /\ LockIsUsed
BY DEF LockInv, WaitersAreServed, MapsServe, LockIsUsed

LEMMA SettledMaps ==
    ASSUME CredentialsTypeOK, MapsServe, NEW c \in Calls, Settled(c),
           Leads(c) \/ pending[Home[c]] = Nobody
    PROVE  MapsServe'
<1>1. /\ call' \in [Calls -> Call]
      /\ pending'[Home[c]] = Nobody
      /\ \A p \in Processes : p # Home[c] => pending'[p] = pending[p]
      /\ call'[c] = IdleCall
      /\ \A d \in Calls :
            \/ call'[d] = call[d]
            \/ call'[d] = IdleCall /\ (d = c \/ call[d].phase = "joined")
      /\ \A d \in Calls : call[d].phase = "joined" /\ Home[d] = Home[c]
                             => call'[d] = IdleCall
  BY SettledCalls
<1>2. \A d \in Calls : Home[d] \in Processes
  BY HomeAssumption
<1>3. IdleCall.phase = "idle"
  BY DEF IdleCall
<1>4. ASSUME NEW d \in Calls PROVE Leads(d)' <=> pending'[Home[d]] = d
  <2>1. CASE d = c
    BY <1>1, <1>3, <2>1, HomeAssumption DEF Leads
  <2>2. CASE d # c
    <3>1. Leads(d)' <=> Leads(d)
      BY <1>1, <1>3, <2>2 DEF Leads
    <3>2. Home[d] = Home[c] => ~Leads(d) /\ pending'[Home[d]] # d
      BY <1>1, <2>2, HomeAssumption DEF MapsServe
    <3>3. Home[d] # Home[c] => pending'[Home[d]] = pending[Home[d]]
      BY <1>1, <1>2
    <3>. QED BY <3>1, <3>2, <3>3 DEF MapsServe
  <2>. QED BY <2>1, <2>2
<1>5. ASSUME NEW d \in Calls, call'[d].phase = "joined"
      PROVE  pending'[Home[d]] # Nobody
  <2>1. call'[d] = call[d] /\ Home[d] # Home[c]
    BY <1>1, <1>3, <1>5
  <2>. QED BY <1>1, <1>2, <1>5, <2>1 DEF MapsServe
<1>6. ASSUME NEW p \in Processes, pending'[p] # Nobody PROVE Home[pending'[p]] = p
  BY <1>1, <1>6 DEF MapsServe
<1>. QED BY <1>4, <1>5, <1>6 DEF MapsServe

LEMMA LockStep ==
    ASSUME CredentialsTypeOK, CredentialsTypeOK', LockInv, [Next]_vars
    PROVE  LockInv'
<1>0. /\ LockHeld /\ MapsServe /\ LockIsUsed
      /\ Nobody \notin Calls /\ \A d \in Calls : Home[d] \in Processes
      /\ lock \in Calls \cup {Nobody}
  BY LockInvParts, HomeAssumption DEF CredentialsTypeOK
<1>n. NoCredential.token = 0 /\ IdleCall.phase = "idle"
  BY DEF NoCredential, IdleCall
<1>a. ASSUME UNCHANGED <<call, pending, lock>>, cred'.token = cred.token
      PROVE  LockInv'
  BY <1>0, <1>a DEF LockHeld, Refreshing, LockInv, WaitersAreServed, Leads
<1>b. ASSUME NEW c \in Calls, Settled(c), lock' = IF lock = c THEN Nobody ELSE lock,
             cred'.token = cred.token \/ Refreshing(c),
             Leads(c) \/ pending[Home[c]] = Nobody
      PROVE  LockInv'
  <2>1. MapsServe'
    BY <1>0, <1>b, SettledMaps
  <2>2. \A d \in Calls : \/ call'[d] = call[d] /\ d # c
                         \/ call'[d] = IdleCall
                               /\ (d = c \/ call[d].phase = "joined")
    BY <1>b, SettledCalls
  <2>3. LockHeld'
    BY <1>0, <1>b, <1>n, <2>2 DEF LockHeld, Refreshing
  <2>4. LockIsUsed'
    BY <1>0, <1>b, <1>n, <2>2 DEF LockIsUsed, Refreshing
  <2>. QED BY <2>1, <2>3, <2>4, LockInvParts DEF LockInv, WaitersAreServed, MapsServe, LockIsUsed
<1>1. ASSUME NEW c \in Calls, ReadSource(c) PROVE LockInv'
  <2>1. MovesTo(c, "read", View(cred), 0, 0) /\ call[c].phase = "idle"
        /\ UNCHANGED <<cred, lock, pending>>
    BY <1>1, ReadMoves DEF ReadSource, rows
  <2>. QED
    BY <1>0, <2>1 DEF MovesTo, LockHeld, Refreshing, LockInv, WaitersAreServed,
                      MapsServe, LockIsUsed, Leads
<1>2. ASSUME NEW c \in Calls, JoinRequest(c) PROVE LockInv'
  <2>1. /\ MovesTo(c, "joined", call[c].view, call[c].sent, call[c].got)
        /\ call[c].phase = "read" /\ pending[Home[c]] # Nobody
        /\ UNCHANGED <<cred, lock, pending>>
    BY <1>2, PhaseMoves DEF JoinRequest, rows
  <2>. QED
    BY <1>0, <2>1 DEF MovesTo, LockHeld, Refreshing, LockInv, WaitersAreServed,
                      MapsServe, LockIsUsed, Leads
<1>3. ASSUME NEW c \in Calls, LeadRequest(c) PROVE LockInv'
  <2>0. call[c].phase = "read" /\ pending[Home[c]] = Nobody
        /\ UNCHANGED <<cred, lock>>
    BY <1>3 DEF LeadRequest, rows
  <2>1. CASE Settled(c)
    <3>1. lock # c
      BY <1>0, <2>0 DEF LockIsUsed, Refreshing
    <3>. QED BY <1>b, <2>0, <2>1, <3>1
  <2>2. CASE ~Settled(c)
    <3>1. /\ pending' = [pending EXCEPT ![Home[c]] = c]
          /\ call' = [call EXCEPT ![c].phase = "lock"]
      BY <1>3, <2>2 DEF LeadRequest
    <3>2. MovesTo(c, "lock", call[c].view, call[c].sent, call[c].got)
      BY <3>1, PhaseMoves
    <3>3. /\ pending'[Home[c]] = c
          /\ \A p \in Processes : p # Home[c] => pending'[p] = pending[p]
      BY <1>0, <3>1 DEF CredentialsTypeOK
    <3>4. MapsServe'
      <4>1. ASSUME NEW d \in Calls PROVE Leads(d)' <=> pending'[Home[d]] = d
        <5>1. d = c => Leads(d)' /\ pending'[Home[d]] = d
          BY <3>2, <3>3 DEF MovesTo, Leads
        <5>2. d # c => /\ Leads(d)' <=> Leads(d)
                       /\ Home[d] = Home[c] => ~Leads(d) /\ pending'[Home[d]] # d
                       /\ Home[d] # Home[c] => pending'[Home[d]] = pending[Home[d]]
          BY <1>0, <2>0, <3>2, <3>3 DEF MovesTo, Leads, MapsServe
        <5>. QED BY <1>0, <5>1, <5>2 DEF MapsServe
      <4>2. ASSUME NEW d \in Calls, call'[d].phase = "joined"
            PROVE  pending'[Home[d]] # Nobody
        <5>1. d # c /\ call[d].phase = "joined"
          BY <3>2, <4>2 DEF MovesTo
        <5>. QED BY <1>0, <2>0, <3>3, <5>1 DEF MapsServe
      <4>3. ASSUME NEW p \in Processes, pending'[p] # Nobody
            PROVE  Home[pending'[p]] = p
        BY <1>0, <3>3, <4>3 DEF MapsServe
      <4>. QED BY <4>1, <4>2, <4>3 DEF MapsServe
    <3>5. LockHeld' /\ LockIsUsed'
      BY <1>0, <2>0, <3>2 DEF MovesTo, LockHeld, LockIsUsed, Refreshing
    <3>. QED BY <3>4, <3>5 DEF LockInv, WaitersAreServed, MapsServe, LockIsUsed
  <2>. QED BY <2>1, <2>2
<1>4. ASSUME NEW c \in Calls, LockCredential(c) PROVE LockInv'
  <2>0. call[c].phase = "lock" /\ lock = Nobody
    BY <1>4 DEF LockCredential
  <2>1. CASE Settled(c) /\ lock' = lock /\ cred'.token = cred.token
    BY <1>0, <1>b, <2>0, <2>1 DEF Leads
  <2>2. CASE /\ lock' = c /\ call' = [call EXCEPT ![c] = Asks(c)]
             /\ UNCHANGED <<cred, source, pending, history>>
    <3>1. MovesTo(c, "ask", call[c].view, cred.token, call[c].got)
      BY <2>2, AskMoves
    <3>2. LockHeld' /\ LockIsUsed'
      BY <1>0, <2>0, <2>2, <3>1 DEF MovesTo, LockHeld, LockIsUsed, Refreshing
    <3>3. MapsServe'
      BY <1>0, <2>0, <2>2, <3>1 DEF MovesTo, MapsServe, Leads
    <3>. QED BY <3>2, <3>3 DEF LockInv, WaitersAreServed, MapsServe, LockIsUsed
  <2>. QED BY <1>4, <2>1, <2>2, Marked DEF LockCredential, Asks, rows
<1>5. ASSUME NEW c \in Calls, RefreshTokens(c) PROVE LockInv'
  <2>0. call[c].phase = "ask" /\ UNCHANGED <<cred, lock, pending>>
    BY <1>5 DEF RefreshTokens, rows
  <2>1. PICK got : MovesTo(c, "answered", call[c].view, call[c].sent, got)
    BY <1>5, RotationMoves, PhaseMoves DEF RefreshTokens
  <2>2. LockHeld' /\ LockIsUsed'
    BY <1>0, <2>0, <2>1 DEF MovesTo, LockHeld, LockIsUsed, Refreshing
  <2>3. MapsServe'
    BY <1>0, <2>0, <2>1 DEF MovesTo, MapsServe, Leads
  <2>. QED BY <2>2, <2>3 DEF LockInv, WaitersAreServed, MapsServe, LockIsUsed
<1>6. ASSUME NEW c \in Calls, FailRefresh(c) PROVE LockInv'
  BY <1>6, <1>b DEF FailRefresh, Leads
<1>7. ASSUME NEW c \in Calls, FinishRefresh(c) PROVE LockInv'
  <2>1. Refreshing(c) /\ lock = c /\ Leads(c)
    BY <1>0, <1>7 DEF FinishRefresh, LockHeld, Refreshing, Leads
  <2>2. Settled(c) /\ lock' = Nobody
    BY <1>7 DEF FinishRefresh
  <2>. QED BY <1>b, <2>1, <2>2
<1>8. ASSUME NEW c \in Calls, ExpireTransaction(c) PROVE LockInv'
  <2>0. lock' = (IF lock = c THEN Nobody ELSE lock) /\ cred' = cred
    BY <1>8 DEF ExpireTransaction
  <2>1. CASE call[c].phase = "ask" /\ call' = [call EXCEPT ![c].phase = "expired"]
             /\ UNCHANGED pending
    <3>1. MovesTo(c, "expired", call[c].view, call[c].sent, call[c].got)
      BY <2>1, PhaseMoves
    <3>2. LockHeld' /\ LockIsUsed'
      BY <1>0, <2>0, <2>1, <3>1 DEF MovesTo, LockHeld, LockIsUsed, Refreshing
    <3>3. MapsServe'
      BY <1>0, <2>0, <2>1, <3>1 DEF MovesTo, MapsServe, Leads
    <3>. QED BY <3>2, <3>3 DEF LockInv, WaitersAreServed, MapsServe, LockIsUsed
  <2>2. CASE call[c].phase \in {"lock", "answered"} /\ Settled(c)
    BY <1>b, <2>0, <2>2 DEF Leads
  <2>. QED BY <1>8, <2>1, <2>2 DEF ExpireTransaction
<1>9. ASSUME NEW g \in Grants PROVE
        \/ \E p \in Processes : \/ CompleteAuthorization(g, p)
                                \/ \E old \in SUBSET Grants : StartAuthorization(g, p, old)
        \/ ExchangeCode(g) \/ SaveOAuthSources(g) \/ FailAuthorization(g)
        => LockInv'
  BY <1>a DEF CompleteAuthorization, StartAuthorization, ExchangeCode,
              SaveOAuthSources, FailAuthorization, rows
<1>10. ASSUME NEW g \in Grants, SaveCredential(g) PROVE LockInv'
  <2>1. lock = Nobody /\ UNCHANGED <<call, pending, lock>>
    BY <1>10 DEF SaveCredential
  <2>. QED
    BY <1>0, <2>1 DEF LockHeld, Refreshing, LockInv, WaitersAreServed, MapsServe,
                      LockIsUsed, Leads
<1>11. CASE ExpireToken \/ Revoke \/ UNCHANGED vars
  <2>1. cred'.token = cred.token
    BY <1>11 DEF ExpireToken, Revoke, rows, vars, CredentialsTypeOK, Credential
  <2>. QED BY <1>11, <1>a, <2>1 DEF ExpireToken, Revoke, rows, vars
<1>12. ASSUME NEW ps \in SUBSET Processes, Lost(ps), cred'.token = cred.token
       PROVE  LockInv'
  <2>1. /\ \A p \in Processes : pending'[p] = IF p \in ps THEN Nobody ELSE pending[p]
        /\ \A d \in Calls : call'[d] = IF Home[d] \in ps THEN IdleCall ELSE call[d]
        /\ lock' = IF lock # Nobody /\ Home[lock] \in ps THEN Nobody ELSE lock
    BY <1>12 DEF Lost
  <2>2. LockHeld' /\ LockIsUsed'
    BY <1>0, <1>n, <1>12, <2>1 DEF LockHeld, LockIsUsed, Refreshing
  <2>3. MapsServe'
    BY <1>0, <1>n, <2>1 DEF MapsServe, Leads
  <2>. QED BY <2>2, <2>3 DEF LockInv, WaitersAreServed, MapsServe, LockIsUsed
<1>13. CASE ChangeKey
  <2>1. cred'.token = cred.token
    BY <1>13 DEF ChangeKey, CredentialsTypeOK, Credential
  <2>. QED BY <1>12, <1>13, <2>1 DEF ChangeKey
<1>14. ASSUME NEW p \in Processes, Crash(p) PROVE LockInv'
  BY <1>12, <1>14 DEF Crash
<1>. QED
  BY <1>1, <1>2, <1>3, <1>4, <1>5, <1>6, <1>7, <1>8, <1>9, <1>10, <1>11,
     <1>13, <1>14 DEF Next, CallStep

(* A call refreshes or it has no answer, and it sent what the row holds.   *)
LEMMA RefreshHolds ==
    ASSUME LockInv, NEW c \in Calls, call[c].phase \in {"ask", "answered"}
    PROVE  /\ lock = c /\ call[c].sent = cred.token
           /\ \A d \in Calls : call[d].phase \in {"ask", "answered"} => d = c
BY DEF LockInv, LockHeld, Refreshing

LEMMA NobodyRefreshes ==
    ASSUME LockInv, lock = Nobody
    PROVE  \A d \in Calls : call[d].phase \notin {"ask", "answered"}
BY HomeAssumption DEF LockInv, LockHeld, Refreshing

-----------------------------------------------------------------------------
(* What the tokens are.                                                    *)
LEMMA TokenStep ==
    ASSUME CredentialsTypeOK, CredentialsTypeOK', LockInv, TokenInv, [Next]_vars
    PROVE  TokenInv'
<1> DEFINE Known == /\ \A n \in live : n <= issued
                    /\ \A c \in Calls : /\ call[c].sent <= issued
                                        /\ call[c].got <= issued
                                        /\ call[c].got # 0 => call[c].phase = "answered"
                                        /\ call[c].phase = "answered" /\ call[c].got = 0
                                              => call[c].sent \notin live
           GrantsKnown == \A g \in Grants : grant[g].token <= issued
           NextKnown == Known' /\ GrantsKnown' /\ cred'.token <= issued'
<1>0. /\ Known /\ GrantsKnown /\ cred.token <= issued
      /\ issued \in Nat /\ cred.token \in Nat
  BY DEF TokenInv, TokensWereIssued, AnswersBelongToAnswered, DeadAnswers,
         CredentialsTypeOK, Credential
<1>n. /\ IdleCall.phase = "idle" /\ IdleCall.got = 0 /\ IdleCall.sent = 0
      /\ NoGrant.token = 0
  BY DEF IdleCall, NoGrant
<1>i. ASSUME Known', GrantsKnown', cred'.token <= issued'
      PROVE  TokenInv'
  BY <1>i DEF TokenInv, TokensWereIssued, AnswersBelongToAnswered, DeadAnswers
<1>a. ASSUME live' \subseteq live, issued' = issued,
             \A d \in Calls : call'[d] = call[d] \/ call'[d] = IdleCall
      PROVE  Known'
  BY <1>0, <1>n, <1>a
<1>b. ASSUME NEW c \in Calls, NEW phase, NEW view, NEW sent, NEW got,
             MovesTo(c, phase, view, sent, got),
             live' \subseteq live, issued' = issued,
             sent <= issued, got <= issued, got # 0 => phase = "answered",
             phase = "answered" /\ got = 0 => sent \notin live
      PROVE  Known'
  <2>1. ASSUME NEW d \in Calls
        PROVE  /\ call'[d].sent <= issued /\ call'[d].got <= issued
               /\ call'[d].got # 0 => call'[d].phase = "answered"
               /\ call'[d].phase = "answered" /\ call'[d].got = 0
                     => call'[d].sent \notin live
    BY <1>0, <1>b DEF MovesTo
  <2>. QED BY <1>0, <1>b, <2>1
<1> HIDE DEF Known, GrantsKnown
<1>g. UNCHANGED <<grant, issued>> => GrantsKnown'
  BY <1>0 DEF GrantsKnown
<1>s. ASSUME NEW c \in Calls, Settled(c)
      PROVE  \A d \in Calls : call'[d] = call[d] \/ call'[d] = IdleCall
  BY <1>s, SettledCalls
<1>c. \A d \in Calls : /\ call[d].sent <= issued /\ call[d].got <= issued
                       /\ call[d].phase # "answered" => call[d].got = 0
  BY <1>0 DEF Known
<1>1. ASSUME NEW c \in Calls, ReadSource(c) PROVE NextKnown
  <2>1. MovesTo(c, "read", View(cred), 0, 0) /\ UNCHANGED <<cred, grant, live, issued>>
    BY <1>1, ReadMoves DEF ReadSource, rows, provider
  <2>. QED BY <1>0, <1>b, <1>g, <2>1
<1>2. ASSUME NEW c \in Calls, JoinRequest(c) PROVE NextKnown
  <2>1. /\ MovesTo(c, "joined", call[c].view, call[c].sent, call[c].got)
        /\ call[c].phase = "read" /\ UNCHANGED <<cred, grant, live, issued>>
    BY <1>2, PhaseMoves DEF JoinRequest, rows, provider
  <2>. QED BY <1>0, <1>b, <1>c, <1>g, <2>1
<1>3. ASSUME NEW c \in Calls, LeadRequest(c) PROVE NextKnown
  <2>0. call[c].phase = "read" /\ UNCHANGED <<cred, grant, live, issued>>
    BY <1>3 DEF LeadRequest, rows, provider
  <2>1. CASE Settled(c)
    BY <1>0, <1>a, <1>s, <1>g, <2>0, <2>1
  <2>2. CASE call' = [call EXCEPT ![c].phase = "lock"]
    <3>1. MovesTo(c, "lock", call[c].view, call[c].sent, call[c].got)
      BY <2>2, PhaseMoves
    <3>. QED BY <1>0, <1>b, <1>c, <1>g, <2>0, <3>1
  <2>. QED BY <1>3, <2>1, <2>2 DEF LeadRequest
<1>4. ASSUME NEW c \in Calls, LockCredential(c) PROVE NextKnown
  <2>0. call[c].phase = "lock" /\ UNCHANGED <<grant, live, issued>>
    BY <1>4 DEF LockCredential, provider
  <2>1. CASE Settled(c) /\ cred'.token = cred.token
    BY <1>0, <1>a, <1>s, <1>g, <2>0, <2>1
  <2>2. CASE call' = [call EXCEPT ![c] = Asks(c)] /\ UNCHANGED cred
    <3>1. MovesTo(c, "ask", call[c].view, cred.token, call[c].got)
      BY <2>2, AskMoves
    <3>. QED BY <1>0, <1>b, <1>c, <1>g, <2>0, <2>2, <3>1
  <2>. QED BY <1>4, <2>1, <2>2, Marked DEF LockCredential, Asks, rows
<1>5. ASSUME NEW c \in Calls, RefreshTokens(c) PROVE NextKnown
  <2>0. call[c].phase = "ask" /\ UNCHANGED <<grant, cred>>
    BY <1>5 DEF RefreshTokens, rows
  <2>1. CASE call[c].sent \in live
    <3>1. /\ MovesTo(c, "answered", call[c].view, call[c].sent, issued + 1)
          /\ issued' = issued + 1
          /\ live' = (live \ {call[c].sent}) \cup {issued + 1}
      BY <1>5, <2>1, RotationMoves DEF RefreshTokens
    <3>2. Known'
      <4>1. \A n \in live' : n <= issued + 1
        BY <1>0, <3>1 DEF Known, CredentialsTypeOK
      <4>2. ASSUME NEW d \in Calls
            PROVE  /\ call'[d].sent <= issued + 1 /\ call'[d].got <= issued + 1
                   /\ call'[d].got # 0 => call'[d].phase = "answered"
                   /\ call'[d].phase = "answered" /\ call'[d].got = 0
                         => call'[d].sent \notin live'
        <5>1. call[d].sent \in Nat /\ call[d].got \in Nat
          BY DEF CredentialsTypeOK, Call
        <5>2. CASE d = c
          BY <1>0, <1>c, <3>1, <5>1, <5>2 DEF MovesTo
        <5>3. CASE d # c
          BY <1>0, <1>c, <3>1, <5>1, <5>3 DEF MovesTo, Known
        <5>. QED BY <5>2, <5>3
      <4>. QED BY <3>1, <4>1, <4>2 DEF Known
    <3>3. GrantsKnown'
      <4>1. \A g \in Grants : grant[g].token \in Nat
        BY DEF CredentialsTypeOK, Grant
      <4>. QED BY <1>0, <2>0, <3>1, <4>1 DEF GrantsKnown
    <3>. QED BY <1>0, <2>0, <3>1, <3>2, <3>3
  <2>2. CASE call[c].sent \notin live
    <3>1. /\ MovesTo(c, "answered", call[c].view, call[c].sent, call[c].got)
          /\ UNCHANGED <<live, issued>>
      BY <1>5, <2>2, PhaseMoves DEF RefreshTokens, provider
    <3>. QED BY <1>0, <1>b, <1>c, <1>g, <2>0, <2>2, <3>1
  <2>. QED BY <2>1, <2>2
<1>6. ASSUME NEW c \in Calls, FailRefresh(c) PROVE NextKnown
  BY <1>0, <1>6, <1>a, <1>s, <1>g, AbandonedType DEF FailRefresh
<1>7. ASSUME NEW c \in Calls, FinishRefresh(c) PROVE NextKnown
  <2>0. Settled(c) /\ UNCHANGED <<grant, live, issued>>
    BY <1>7 DEF FinishRefresh, provider
  <2>1. cred'.token <= issued
    <3>1. call[c].got \in Nat
      BY DEF CredentialsTypeOK, Call
    <3>. QED BY <1>0, <1>c, <1>7, <3>1, Marked, StoredCredential DEF FinishRefresh
  <2>. QED BY <1>0, <1>a, <1>s, <1>g, <2>0, <2>1
<1>8. ASSUME NEW c \in Calls, ExpireTransaction(c) PROVE NextKnown
  <2>0. UNCHANGED <<cred, grant, live, issued>>
    BY <1>8 DEF ExpireTransaction, provider
  <2>1. CASE call[c].phase = "ask" /\ call' = [call EXCEPT ![c].phase = "expired"]
    <3>1. MovesTo(c, "expired", call[c].view, call[c].sent, call[c].got)
      BY <2>1, PhaseMoves
    <3>. QED BY <1>0, <1>b, <1>c, <1>g, <2>0, <2>1, <3>1
  <2>2. CASE Settled(c)
    BY <1>0, <1>a, <1>s, <1>g, <2>0, <2>2
  <2>. QED BY <1>8, <2>1, <2>2 DEF ExpireTransaction
<1>h. ASSUME UNCHANGED <<call, live, issued>>, cred'.token <= issued,
             \A g \in Grants : grant'[g].token <= issued
      PROVE  NextKnown
  BY <1>0, <1>h DEF Known, GrantsKnown
<1>k. \A g \in Grants : grant[g].token <= issued /\ grant[g].token \in Nat
  BY <1>0 DEF GrantsKnown, CredentialsTypeOK, Grant
<1>9. ASSUME NEW g \in Grants, NEW p \in Processes, NEW old \in SUBSET Grants,
             StartAuthorization(g, p, old)
      PROVE  NextKnown
  <2>1. [NoGrant EXCEPT !.phase = "started", !.home = p].token = 0
    BY DEF NoGrant
  <2>2. \A h \in Grants : grant'[h].token \in {0, grant[h].token}
    BY <1>9, <1>n, <2>1 DEF StartAuthorization
  <2>3. \A h \in Grants : grant'[h].token <= issued
    BY <1>0, <1>k, <2>2
  <2>. QED BY <1>0, <1>9, <1>h, <2>3 DEF StartAuthorization, rows, provider
<1>10. ASSUME NEW g \in Grants, NEW p \in Processes, CompleteAuthorization(g, p)
       PROVE  NextKnown
  <2>1. \A h \in Grants : grant'[h].token = grant[h].token
    BY <1>10 DEF CompleteAuthorization, CredentialsTypeOK, Grant
  <2>. QED
    BY <1>0, <1>10, <1>h, <1>k, <2>1 DEF CompleteAuthorization, rows, provider
<1>11. ASSUME NEW g \in Grants, ExchangeCode(g) PROVE NextKnown
  <2>1. PICK resources :
           grant' = [grant EXCEPT ![g] = [grant[g] EXCEPT !.phase = "save",
                                                !.token = issued + 1,
                                                !.resources = resources]]
    BY <1>11 DEF ExchangeCode
  <2>2. [grant[g] EXCEPT !.phase = "save", !.token = issued + 1,
                         !.resources = resources].token = issued + 1
    BY DEF CredentialsTypeOK, Grant
  <2>3. \A h \in Grants : grant'[h].token \in {grant[h].token, issued + 1}
    BY <2>1, <2>2 DEF CredentialsTypeOK
  <2>4. /\ issued' = issued + 1 /\ live' = live \cup {issued + 1}
        /\ UNCHANGED <<cred, call>>
    BY <1>11 DEF ExchangeCode, rows
  <2>5. GrantsKnown'
    BY <1>0, <1>k, <2>3, <2>4 DEF GrantsKnown
  <2>6. \A n \in live' : n <= issued + 1
    BY <1>0, <2>4 DEF Known, CredentialsTypeOK
  <2>7. \A d \in Calls : call[d].sent \in Nat /\ call[d].got \in Nat
    BY DEF CredentialsTypeOK, Call
  <2>8. Known'
    BY <1>0, <2>4, <2>6, <2>7 DEF Known
  <2>. QED BY <1>0, <2>4, <2>5, <2>8
<1>12. ASSUME NEW g \in Grants, SaveCredential(g) PROVE NextKnown
  <2>1. \A h \in Grants : grant'[h].token = grant[h].token
    BY <1>12 DEF SaveCredential, CredentialsTypeOK, Grant
  <2>2. cred'.token = grant[g].token
    BY <1>12, <1>k, StoredCredential DEF SaveCredential
  <2>. QED BY <1>12, <1>h, <1>k, <2>1, <2>2 DEF SaveCredential, provider
<1>13. ASSUME NEW g \in Grants, SaveOAuthSources(g) \/ FailAuthorization(g)
       PROVE  NextKnown
  <2>1. \A h \in Grants : grant'[h].token \in {0, grant[h].token}
    BY <1>13, <1>n DEF SaveOAuthSources, FailAuthorization, CredentialsTypeOK
  <2>2. \A h \in Grants : grant'[h].token <= issued
    BY <1>0, <1>k, <2>1
  <2>. QED
    BY <1>0, <1>13, <1>h, <2>2
       DEF SaveOAuthSources, FailAuthorization, rows, provider
<1>14. ASSUME ExpireToken \/ UNCHANGED vars PROVE NextKnown
  <2>1. cred'.token = cred.token /\ UNCHANGED <<call, live, issued, grant>>
    BY <1>14 DEF ExpireToken, vars, provider, CredentialsTypeOK, Credential
  <2>2. cred'.token <= issued /\ \A g \in Grants : grant'[g].token <= issued
    BY <1>0, <1>k, <2>1
  <2>. QED BY <1>h, <2>1, <2>2
<1>15. ASSUME Revoke PROVE NextKnown
  <2>1. live' \subseteq live /\ UNCHANGED <<call, issued, grant, cred>>
    BY <1>15 DEF Revoke, rows
  <2>2. Known'
    BY <1>a, <2>1
  <2>. QED BY <1>0, <1>g, <2>1, <2>2
<1>16. ASSUME NEW ps \in SUBSET Processes, Lost(ps), cred'.token = cred.token
       PROVE  NextKnown
  <2>1. /\ \A d \in Calls : call'[d] = call[d] \/ call'[d] = IdleCall
        /\ \A h \in Grants : grant'[h].token \in {0, grant[h].token}
        /\ live' \subseteq live /\ issued' = issued
    BY <1>16, <1>n DEF Lost, Abandoned
  <2>2. GrantsKnown'
    BY <1>0, <1>k, <2>1 DEF GrantsKnown
  <2>. QED BY <1>0, <1>16, <1>a, <2>1, <2>2
<1>17. ASSUME ChangeKey PROVE NextKnown
  <2>1. cred'.token = cred.token
    BY <1>17 DEF ChangeKey, CredentialsTypeOK, Credential
  <2>2. Lost(Processes)
    BY <1>17 DEF ChangeKey
  <2>. QED BY <1>16, <2>1, <2>2
<1>18. ASSUME NEW p \in Processes, Crash(p) PROVE NextKnown
  BY <1>16, <1>18 DEF Crash
<1> HIDE DEF NextKnown
<1>19. NextKnown
  BY <1>1, <1>2, <1>3, <1>4, <1>5, <1>6, <1>7, <1>8, <1>9, <1>10, <1>11,
     <1>12, <1>13, <1>14, <1>15, <1>17, <1>18 DEF Next, CallStep
<1>. QED BY <1>i, <1>19 DEF NextKnown

-----------------------------------------------------------------------------
(* What a step does to the row of the credential: it stores a pair, marks  *)
(* the row for one of two reasons, or leaves status and token alone.       *)
RowKept == /\ cred'.status = cred.status /\ cred'.token = cred.token
           /\ cred'.readable => cred.readable

MarksUnreadable(c) ==
    /\ LockCredential(c)
    /\ ~cred.readable
    /\ MarkReauthRequired

MarksDead(c) ==
    /\ FinishRefresh(c)
    /\ call[c].got = 0
    /\ MarkReauthRequired

LEMMA RowSteps ==
    ASSUME CredentialsTypeOK, [Next]_vars
    PROVE  \/ RowKept
           \/ \E c \in Calls : \/ MarksUnreadable(c) \/ MarksDead(c)
                               \/ /\ FinishRefresh(c) /\ call[c].got # 0
                                  /\ cred' = Stored(call[c].got)
                                  /\ UNCHANGED <<source, history>>
           \/ \E g \in Grants : SaveCredential(g)
<1>1. cred' = cred => RowKept
  BY DEF RowKept
<1>2. ASSUME NEW c \in Calls, CallStep(c)
      PROVE  \/ cred' = cred
             \/ MarksUnreadable(c) \/ MarksDead(c)
             \/ /\ FinishRefresh(c) /\ call[c].got # 0
                /\ cred' = Stored(call[c].got) /\ UNCHANGED <<source, history>>
  <2>1. CASE LockCredential(c)
    BY <2>1 DEF LockCredential, MarksUnreadable, rows
  <2>2. CASE FinishRefresh(c)
    BY <2>2 DEF FinishRefresh, MarksDead
  <2>3. CASE \/ ReadSource(c) \/ JoinRequest(c) \/ LeadRequest(c)
             \/ RefreshTokens(c) \/ FailRefresh(c) \/ ExpireTransaction(c)
    BY <2>3 DEF ReadSource, JoinRequest, LeadRequest, RefreshTokens,
                FailRefresh, ExpireTransaction, rows
  <2>. QED BY <1>2, <2>1, <2>2, <2>3 DEF CallStep
<1>3. ASSUME NEW g \in Grants,
             \/ \E p \in Processes :
                   \/ \E old \in SUBSET Grants : StartAuthorization(g, p, old)
                   \/ CompleteAuthorization(g, p)
             \/ ExchangeCode(g) \/ SaveOAuthSources(g) \/ FailAuthorization(g)
      PROVE  cred' = cred
  BY <1>3 DEF StartAuthorization, CompleteAuthorization, ExchangeCode,
              SaveOAuthSources, FailAuthorization, rows
<1>4. ExpireToken \/ ChangeKey => RowKept
  BY DEF ExpireToken, ChangeKey, RowKept, CredentialsTypeOK, Credential
<1>5. \/ Revoke \/ UNCHANGED vars \/ \E p \in Processes : Crash(p)
      => cred' = cred
  BY DEF Revoke, vars, Crash, rows
<1>. QED BY <1>1, <1>2, <1>3, <1>4, <1>5 DEF Next

(* Only a new pair becomes live. *)
LEMMA LiveSteps ==
    ASSUME CredentialsTypeOK, [Next]_vars
    PROVE  live' \subseteq live \cup {issued + 1}
<1>1. ASSUME NEW c \in Calls, CallStep(c) PROVE live' \subseteq live \cup {issued + 1}
  <2>1. CASE RefreshTokens(c)
    BY <2>1 DEF RefreshTokens, provider
  <2>2. CASE FailRefresh(c)
    BY <2>2 DEF FailRefresh, Abandoned
  <2>3. CASE \/ ReadSource(c) \/ JoinRequest(c) \/ LeadRequest(c)
             \/ LockCredential(c) \/ FinishRefresh(c) \/ ExpireTransaction(c)
    BY <2>3 DEF ReadSource, JoinRequest, LeadRequest, LockCredential,
                FinishRefresh, ExpireTransaction, provider
  <2>. QED BY <1>1, <2>1, <2>2, <2>3 DEF CallStep
<1>2. ASSUME NEW g \in Grants,
             \/ \E p \in Processes :
                   \/ \E old \in SUBSET Grants : StartAuthorization(g, p, old)
                   \/ CompleteAuthorization(g, p)
             \/ ExchangeCode(g) \/ SaveCredential(g) \/ SaveOAuthSources(g)
             \/ FailAuthorization(g)
      PROVE  live' \subseteq live \cup {issued + 1}
  BY <1>2 DEF StartAuthorization, CompleteAuthorization, ExchangeCode,
              SaveCredential, SaveOAuthSources, FailAuthorization, provider
<1>3. ASSUME NEW ps, Lost(ps) PROVE live' \subseteq live
  BY <1>3 DEF Lost, Abandoned
<1>4. ExpireToken \/ Revoke \/ UNCHANGED vars => live' \subseteq live
  BY DEF ExpireToken, Revoke, provider, vars
<1>. QED BY <1>1, <1>2, <1>3, <1>4 DEF Next, ChangeKey, Crash

LEMMA ReauthStep ==
    ASSUME CredentialsTypeOK, LockInv, TokenInv, NoNeedlessReauth, [Next]_vars
    PROVE  NoNeedlessReauth'
<1>1. live' \subseteq live \cup {issued + 1} /\ cred.token # issued + 1
  BY LiveSteps DEF TokenInv, TokensWereIssued, CredentialsTypeOK, Credential
<1>2. RowKept => NoNeedlessReauth'
  BY <1>1 DEF RowKept, NoNeedlessReauth
<1>3. ASSUME NEW c \in Calls, MarksUnreadable(c) PROVE NoNeedlessReauth'
  BY <1>3, Marked DEF MarksUnreadable, NoNeedlessReauth
<1>4. ASSUME NEW c \in Calls, MarksDead(c) PROVE NoNeedlessReauth'
  <2>1. call[c].phase = "answered" /\ call[c].got = 0
    BY <1>4 DEF MarksDead, FinishRefresh
  <2>2. cred.token \notin live
    BY <2>1, RefreshHolds DEF TokenInv, DeadAnswers
  <2>. QED BY <1>1, <1>4, <2>2, Marked DEF MarksDead, NoNeedlessReauth
<1>5. ASSUME NEW n \in Nat, cred' = Stored(n) PROVE NoNeedlessReauth'
  BY <1>5, StoredCredential DEF NoNeedlessReauth
<1>6. ASSUME NEW g \in Grants, SaveCredential(g) PROVE NoNeedlessReauth'
  BY <1>5, <1>6 DEF SaveCredential, CredentialsTypeOK, Grant
<1>7. \A c \in Calls : call[c].got \in Nat
  BY DEF CredentialsTypeOK, Call
<1>. QED BY <1>2, <1>3, <1>4, <1>5, <1>6, <1>7, RowSteps

-----------------------------------------------------------------------------
LEMMA SourceStep ==
    ASSUME CredentialsTypeOK, SourceInv, [Next]_vars PROVE SourceInv'
<1>1. CASE UNCHANGED <<source, crossed>> /\ RowKept
           /\ \A g \in Grants : grant'[g].phase = "link" => grant[g].phase = "link"
  BY <1>1 DEF RowKept, SourceInv, LinkedIsActive, ActiveSourceHasActiveGrant
<1>2. CASE MarkReauthRequired /\ UNCHANGED grant
  BY <1>2, Marked DEF SourceInv, LinkedIsActive, ActiveSourceHasActiveGrant
<1>3. ASSUME NEW n \in Nat, cred' = Stored(n) PROVE SourceInv'
  BY <1>3, StoredCredential DEF SourceInv, LinkedIsActive, ActiveSourceHasActiveGrant
<1>4. ASSUME NEW c \in Calls, CallStep(c) PROVE SourceInv'
  <2>1. CASE LockCredential(c)
    BY <1>1, <1>2, <2>1 DEF LockCredential, rows, history, RowKept
  <2>2. CASE FinishRefresh(c)
    <3>1. call[c].got \in Nat
      BY DEF CredentialsTypeOK, Call
    <3>. QED BY <1>2, <1>3, <2>2, <3>1 DEF FinishRefresh
  <2>3. CASE \/ ReadSource(c) \/ JoinRequest(c) \/ LeadRequest(c)
             \/ RefreshTokens(c) \/ FailRefresh(c) \/ ExpireTransaction(c)
    <3>1. UNCHANGED <<source, crossed, grant, cred>>
      BY <2>3 DEF ReadSource, JoinRequest, LeadRequest, RefreshTokens,
                  FailRefresh, ExpireTransaction, rows, history
    <3>. QED BY <1>1, <3>1 DEF RowKept
  <2>. QED BY <1>4, <2>1, <2>2, <2>3 DEF CallStep
<1>n. NoGrant.phase = "new"
  BY DEF NoGrant
<1>5. ASSUME NEW g \in Grants, NEW p \in Processes, NEW old \in SUBSET Grants,
             StartAuthorization(g, p, old)
      PROVE  SourceInv'
  <2>1. [NoGrant EXCEPT !.phase = "started", !.home = p].phase = "started"
    BY DEF NoGrant
  <2>2. \A h \in Grants : grant'[h].phase = "link" => grant[h].phase = "link"
    BY <1>5, <1>n, <2>1 DEF StartAuthorization
  <2>. QED BY <1>1, <1>5, <2>2 DEF StartAuthorization, rows, history, RowKept
<1>6. ASSUME NEW g \in Grants, NEW p \in Processes, CompleteAuthorization(g, p)
      PROVE  SourceInv'
  <2>1. \A h \in Grants : grant'[h].phase = "link" => grant[h].phase = "link"
    BY <1>6 DEF CompleteAuthorization, CredentialsTypeOK, Grant
  <2>. QED BY <1>1, <1>6, <2>1 DEF CompleteAuthorization, rows, history, RowKept
<1>7. ASSUME NEW g \in Grants, ExchangeCode(g) PROVE SourceInv'
  <2>1. PICK resources :
           grant' = [grant EXCEPT ![g] = [grant[g] EXCEPT !.phase = "save",
                                                !.token = issued + 1,
                                                !.resources = resources]]
    BY <1>7 DEF ExchangeCode
  <2>2. [grant[g] EXCEPT !.phase = "save", !.token = issued + 1,
                         !.resources = resources].phase = "save"
    BY DEF CredentialsTypeOK, Grant
  <2>3. \A h \in Grants : grant'[h].phase = "link" => grant[h].phase = "link"
    BY <2>1, <2>2 DEF CredentialsTypeOK
  <2>. QED BY <1>1, <1>7, <2>3 DEF ExchangeCode, rows, history, RowKept
<1>8. ASSUME NEW g \in Grants, SaveCredential(g) PROVE SourceInv'
  <2>1. grant[g].token \in Nat
    BY DEF CredentialsTypeOK, Grant
  <2>. QED BY <1>3, <1>8, <2>1 DEF SaveCredential
<1>9. ASSUME NEW g \in Grants, SaveOAuthSources(g) PROVE SourceInv'
  <2>1. cred.status = "active" \/ crossed
    BY <1>9 DEF SaveOAuthSources, SourceInv, LinkedIsActive
  <2>2. UNCHANGED <<cred, crossed>>
    BY <1>9 DEF SaveOAuthSources, history
  <2>. QED BY <2>1, <2>2 DEF SourceInv, LinkedIsActive, ActiveSourceHasActiveGrant
<1>10. ASSUME NEW g \in Grants, FailAuthorization(g) PROVE SourceInv'
  <2>1. \A h \in Grants : grant'[h].phase = "link" => grant[h].phase = "link"
    BY <1>10, <1>n DEF FailAuthorization, CredentialsTypeOK
  <2>. QED BY <1>1, <1>10, <2>1 DEF FailAuthorization, rows, history, RowKept
<1>11. ASSUME ExpireToken \/ Revoke \/ UNCHANGED vars PROVE SourceInv'
  <2>1. RowKept
    BY <1>11 DEF ExpireToken, Revoke, rows, vars, RowKept, CredentialsTypeOK,
                 Credential
  <2>2. UNCHANGED <<source, crossed, grant>>
    BY <1>11 DEF ExpireToken, Revoke, rows, vars, history
  <2>. QED BY <1>1, <2>1, <2>2
<1>12. ASSUME NEW ps, Lost(ps), RowKept PROVE SourceInv'
  <2>1. \A h \in Grants : grant'[h].phase = "link" => grant[h].phase = "link"
    BY <1>12, <1>n DEF Lost
  <2>. QED BY <1>1, <1>12, <2>1 DEF Lost
<1>13. ASSUME ChangeKey \/ \E p \in Processes : Crash(p) PROVE SourceInv'
  <2>1. RowKept
    BY <1>13 DEF ChangeKey, Crash, RowKept, CredentialsTypeOK, Credential
  <2>. QED BY <1>12, <1>13, <2>1 DEF ChangeKey, Crash
<1>. QED
  BY <1>4, <1>5, <1>6, <1>7, <1>8, <1>9, <1>10, <1>11, <1>13 DEF Next

-----------------------------------------------------------------------------
(* The successor of the stored token.  Until it is stored, only the call   *)
(* that rotated it knows it.                                               *)
Waiting(c) == /\ call[c].phase = "answered" /\ call[c].got # 0
              /\ call[c].sent = cred.token

LEMMA SentTokens ==
    ASSUME CredentialsTypeOK, NEW cs \in SUBSET Calls, Abandoned(cs)
    PROVE  /\ live' \subseteq live /\ issued' = issued /\ dropped => dropped'
           /\ \A n \in live \ live' :
                 \E c \in cs : /\ call[c].phase \in {"ask", "expired"}
                               /\ call[c].sent = n
           /\ cred.token \in live \ live' => dropped'
           /\ \A c \in cs : Waiting(c) => dropped'
BY DEF Abandoned, Sent, Rotated, Waiting

LEMMA SuccessorStep ==
    ASSUME CredentialsTypeOK, CredentialsTypeOK', LockInv, TokenInv,
           SuccessorInv, [Next]_vars
    PROVE  SuccessorInv'
<1>0. /\ \A c \in Calls : call[c].got # 0 =>
            /\ call[c].phase = "answered"
            /\ dropped \/ call[c].got \in live
            /\ \A d \in Calls : call[d].sent # call[c].got
      /\ cred.status = "active" /\ ~dropped
            => cred.token \in live \/ \E c \in Calls : Waiting(c)
  BY DEF SuccessorInv, FreshAnswers, StoredGrantIsLive, Waiting, TokenInv,
         AnswersBelongToAnswered
<1>n. IdleCall.phase = "idle" /\ IdleCall.got = 0 /\ IdleCall.sent = 0
  BY DEF IdleCall
<1>i. ASSUME \A c \in Calls : call'[c].got # 0 =>
                /\ dropped' \/ call'[c].got \in live'
                /\ \A d \in Calls : call'[d].sent # call'[c].got,
             cred'.status = "active" /\ ~dropped'
                => cred'.token \in live' \/ \E c \in Calls : Waiting(c)'
      PROVE  SuccessorInv'
  BY <1>i DEF SuccessorInv, FreshAnswers, StoredGrantIsLive, Waiting
<1>a. ASSUME cred'.token = cred.token,
             cred'.status = "active" => cred.status = "active",
             live \subseteq live', dropped' = dropped,
             \A d \in Calls :
                \/ call'[d] = call[d]
                \/ /\ call[d].got = 0 /\ call'[d].got = 0
                   /\ \/ call'[d].sent \in {0, call[d].sent}
                      \/ \A c \in Calls : call[c].got = 0
      PROVE  SuccessorInv'
  <2>1. ASSUME NEW c \in Calls, call'[c].got # 0
        PROVE  /\ dropped' \/ call'[c].got \in live'
               /\ \A d \in Calls : call'[d].sent # call'[c].got
    BY <1>0, <1>a, <2>1
  <2>2. \A c \in Calls : Waiting(c) => Waiting(c)'
    BY <1>a DEF Waiting
  <2>. QED BY <1>0, <1>a, <1>i, <2>1, <2>2
<1>s. ASSUME NEW c \in Calls, Settled(c), call[c].got = 0
      PROVE  \A d \in Calls :
                \/ call'[d] = call[d]
                \/ call[d].got = 0 /\ call'[d].got = 0 /\ call'[d].sent = 0
  BY <1>0, <1>n, <1>s, SettledCalls
<1>b. ASSUME NEW cs \in SUBSET Calls, Abandoned(cs),
             cred'.token = cred.token, cred'.status = cred.status,
             \A d \in cs : call'[d] = IdleCall,
             \A d \in Calls \ cs :
                \/ call'[d] = call[d]
                \/ call'[d] = IdleCall /\ call[d].phase = "joined"
      PROVE  SuccessorInv'
  <2>0. /\ dropped => dropped'
        /\ \A n \in live : n \in live' \/ \E d \in Calls : call[d].sent = n
        /\ cred.token \in live => cred.token \in live' \/ dropped'
        /\ \A c \in cs : Waiting(c) => dropped'
    <3>1. dropped => dropped'
      BY <1>b DEF Abandoned
    <3>4. ASSUME cred.token \in live \ live' PROVE dropped'
      BY <1>b, <3>4, SentTokens
    <3>3. ASSUME NEW n \in live \ live' PROVE \E c \in cs : call[c].sent = n
      BY <1>b, SentTokens
    <3>2. \A c \in cs : Waiting(c) => dropped'
      BY <1>b, SentTokens
    <3>. QED BY <3>1, <3>2, <3>3, <3>4
  <2>1. ASSUME NEW c \in Calls, call'[c].got # 0
        PROVE  /\ dropped' \/ call'[c].got \in live'
               /\ \A d \in Calls : call'[d].sent # call'[c].got
    <3>1. call'[c] = call[c]
      BY <1>b, <1>n, <2>1
    <3>2. \A d \in Calls : call'[d] = call[d] \/ call'[d] = IdleCall
      BY <1>b
    <3>. QED BY <1>0, <1>n, <2>0, <2>1, <3>1, <3>2
  <2>2. ASSUME NEW c \in Calls, Waiting(c) PROVE dropped' \/ Waiting(c)'
    <3>1. CASE c \in cs
      BY <2>0, <2>2, <3>1
    <3>2. CASE c \notin cs
      BY <1>b, <2>2, <3>2 DEF Waiting
    <3>. QED BY <3>1, <3>2
  <2>3. ~dropped' => ~dropped /\ (cred.token \in live => cred.token \in live')
    BY <2>0
  <2>. QED BY <1>0, <1>b, <1>i, <2>1, <2>2, <2>3
<1>1. ASSUME NEW c \in Calls, ReadSource(c) PROVE SuccessorInv'
  <2>1. /\ MovesTo(c, "read", View(cred), 0, 0) /\ call[c].phase = "idle"
        /\ UNCHANGED <<cred, live, dropped>>
    BY <1>1, ReadMoves DEF ReadSource, rows, provider, history
  <2>. QED BY <1>0, <1>a, <2>1 DEF MovesTo
<1>2. ASSUME NEW c \in Calls, JoinRequest(c) PROVE SuccessorInv'
  <2>1. /\ MovesTo(c, "joined", call[c].view, call[c].sent, call[c].got)
        /\ call[c].phase = "read" /\ UNCHANGED <<cred, live, dropped>>
    BY <1>2, PhaseMoves DEF JoinRequest, rows, provider, history
  <2>. QED BY <1>0, <1>a, <2>1 DEF MovesTo
<1>3. ASSUME NEW c \in Calls, LeadRequest(c) PROVE SuccessorInv'
  <2>0. call[c].phase = "read" /\ UNCHANGED <<cred, live, dropped>>
    BY <1>3 DEF LeadRequest, rows, provider, history
  <2>1. CASE Settled(c)
    BY <1>0, <1>a, <1>s, <2>0, <2>1
  <2>2. CASE call' = [call EXCEPT ![c].phase = "lock"]
    <3>1. MovesTo(c, "lock", call[c].view, call[c].sent, call[c].got)
      BY <2>2, PhaseMoves
    <3>. QED BY <1>0, <1>a, <2>0, <3>1 DEF MovesTo
  <2>. QED BY <1>3, <2>1, <2>2 DEF LeadRequest
<1>4. ASSUME NEW c \in Calls, LockCredential(c) PROVE SuccessorInv'
  <2>0. call[c].phase = "lock" /\ lock = Nobody /\ UNCHANGED <<live, dropped>>
    BY <1>4 DEF LockCredential, rows, provider, history
  <2>1. CASE Settled(c) /\ (cred' = cred \/ MarkReauthRequired)
    BY <1>0, <1>a, <1>s, <2>0, <2>1, Marked
  <2>2. CASE call' = [call EXCEPT ![c] = Asks(c)] /\ UNCHANGED cred
    <3>1. MovesTo(c, "ask", call[c].view, cred.token, call[c].got)
      BY <2>2, AskMoves
    <3>2. \A d \in Calls : call[d].got = 0
      BY <1>0, <2>0, NobodyRefreshes
    <3>. QED BY <1>a, <2>0, <2>2, <3>1, <3>2 DEF MovesTo
  <2>. QED BY <1>4, <2>1, <2>2 DEF LockCredential, Asks, rows
<1>5. ASSUME NEW c \in Calls, RefreshTokens(c) PROVE SuccessorInv'
  <2>0. call[c].phase = "ask" /\ UNCHANGED <<cred, dropped>>
    BY <1>5 DEF RefreshTokens, rows, history
  <2>1. CASE call[c].sent \in live
    <3>1. /\ MovesTo(c, "answered", call[c].view, call[c].sent, issued + 1)
          /\ live' = (live \ {call[c].sent}) \cup {issued + 1}
      BY <1>5, <2>1, RotationMoves DEF RefreshTokens
    <3>2. call[c].sent = cred.token /\ \A d \in Calls : call[d].got = 0
      BY <1>0, <2>0, RefreshHolds
    <3>3. \A d \in Calls : call[d].sent <= issued /\ call[d].sent \in Nat
      BY DEF TokenInv, TokensWereIssued, CredentialsTypeOK, Call
    <3>4. \A d \in Calls : call'[d].sent # issued + 1
      BY <3>1, <3>3 DEF MovesTo, CredentialsTypeOK
    <3>5. \A d \in Calls : call'[d].got # 0 => call'[d].got = issued + 1
      BY <3>1, <3>2 DEF MovesTo
    <3>6. Waiting(c)'
      BY <2>0, <3>1, <3>2 DEF MovesTo, Waiting, CredentialsTypeOK
    <3>. QED BY <1>i, <3>1, <3>4, <3>5, <3>6
  <2>2. CASE call[c].sent \notin live
    <3>1. /\ MovesTo(c, "answered", call[c].view, call[c].sent, call[c].got)
          /\ UNCHANGED live
      BY <1>5, <2>2, PhaseMoves DEF RefreshTokens, provider
    <3>. QED BY <1>0, <1>a, <2>0, <3>1 DEF MovesTo
  <2>. QED BY <2>1, <2>2
<1>6. ASSUME NEW c \in Calls, FailRefresh(c) PROVE SuccessorInv'
  <2>1. Abandoned({c}) /\ Settled(c) /\ UNCHANGED cred
    BY <1>6 DEF FailRefresh
  <2>2. /\ call'[c] = IdleCall
        /\ \A d \in Calls \ {c} : \/ call'[d] = call[d]
                                  \/ call'[d] = IdleCall /\ call[d].phase = "joined"
    BY <2>1, SettledCalls
  <2>. QED BY <1>b, <2>1, <2>2
<1>7. ASSUME NEW c \in Calls, FinishRefresh(c) PROVE SuccessorInv'
  <2>0. call[c].phase = "answered" /\ Settled(c) /\ UNCHANGED <<live, dropped>>
    BY <1>7 DEF FinishRefresh, provider, history
  <2>1. CASE call[c].got = 0
    BY <1>7, <1>a, <1>s, <2>0, <2>1, Marked DEF FinishRefresh
  <2>2. CASE call[c].got # 0
    <3>1. cred'.token = call[c].got
      BY <1>7, <2>2, StoredCredential DEF FinishRefresh, CredentialsTypeOK, Call
    <3>2. \A d \in Calls : call'[d].got = 0
      BY <1>0, <1>n, <2>0, SettledCalls, RefreshHolds
    <3>. QED BY <1>0, <1>i, <2>0, <2>2, <3>1, <3>2
  <2>. QED BY <2>1, <2>2
<1>8. ASSUME NEW c \in Calls, ExpireTransaction(c) PROVE SuccessorInv'
  <2>0. UNCHANGED <<cred, live>>
    BY <1>8 DEF ExpireTransaction, provider
  <2>1. CASE call[c].phase = "ask" /\ call' = [call EXCEPT ![c].phase = "expired"]
             /\ UNCHANGED dropped
    <3>1. MovesTo(c, "expired", call[c].view, call[c].sent, call[c].got)
      BY <2>1, PhaseMoves
    <3>. QED BY <1>0, <1>a, <2>0, <2>1, <3>1 DEF MovesTo
  <2>2. CASE dropped' = (dropped \/ cred.token \in Rotated({c})) /\ Settled(c)
    <3>1. CASE call[c].got = 0
      <4>1. dropped' = dropped
        BY <2>2, <3>1 DEF Rotated, CredentialsTypeOK
      <4>. QED BY <1>a, <1>s, <2>0, <2>2, <3>1, <4>1
    <3>2. CASE call[c].got # 0
      <4>1. call[c].sent = cred.token /\ \A d \in Calls : call'[d].got = 0
        BY <1>0, <1>n, <2>2, <3>2, SettledCalls, RefreshHolds
      <4>2. dropped'
        BY <2>2, <3>2, <4>1 DEF Rotated
      <4>. QED BY <1>i, <4>1, <4>2
    <3>. QED BY <3>1, <3>2
  <2>. QED BY <1>8, <2>1, <2>2 DEF ExpireTransaction
<1>9. ASSUME NEW g \in Grants,
             \/ \E p \in Processes :
                   \/ \E old \in SUBSET Grants : StartAuthorization(g, p, old)
                   \/ CompleteAuthorization(g, p)
             \/ ExchangeCode(g) \/ SaveOAuthSources(g) \/ FailAuthorization(g)
      PROVE  SuccessorInv'
  <2>1. UNCHANGED <<cred, call, dropped>> /\ live \subseteq live'
    BY <1>9 DEF StartAuthorization, CompleteAuthorization, ExchangeCode,
                SaveOAuthSources, FailAuthorization, rows, provider, history
  <2>. QED BY <1>a, <2>1
<1>10. ASSUME NEW g \in Grants, SaveCredential(g) PROVE SuccessorInv'
  <2>1. \A d \in Calls : call'[d].got = 0
    BY <1>0, <1>10, NobodyRefreshes DEF SaveCredential
  <2>2. cred'.token = grant[g].token
    BY <1>10, StoredCredential DEF SaveCredential, CredentialsTypeOK, Grant
  <2>. QED BY <1>10, <1>i, <2>1, <2>2 DEF SaveCredential, provider
<1>11. ASSUME ExpireToken \/ UNCHANGED vars PROVE SuccessorInv'
  <2>1. /\ cred'.token = cred.token /\ cred'.status = cred.status
        /\ UNCHANGED <<call, live, dropped>>
    BY <1>11 DEF ExpireToken, vars, provider, history, CredentialsTypeOK, Credential
  <2>. QED BY <1>a, <2>1
<1>12. ASSUME Revoke PROVE SuccessorInv'
  <2>1. dropped' /\ UNCHANGED call
    BY <1>12 DEF Revoke
  <2>. QED BY <1>0, <1>i, <2>1
<1>13. ASSUME NEW ps \in SUBSET Processes, Lost(ps),
              cred'.token = cred.token, cred'.status = cred.status
       PROVE  SuccessorInv'
  <2> DEFINE cs == {c \in Calls : Home[c] \in ps}
  <2>1. /\ Abandoned(cs) /\ \A d \in cs : call'[d] = IdleCall
        /\ \A d \in Calls \ cs : call'[d] = call[d]
    BY <1>13 DEF Lost
  <2>2. cs \in SUBSET Calls
    OBVIOUS
  <2> HIDE DEF cs
  <2>. QED BY <1>13, <1>b, <2>1, <2>2
<1>14. ASSUME ChangeKey \/ \E p \in Processes : Crash(p) PROVE SuccessorInv'
  <2>1. cred'.token = cred.token /\ cred'.status = cred.status
    BY <1>14 DEF ChangeKey, Crash, CredentialsTypeOK, Credential
  <2>. QED BY <1>13, <1>14, <2>1 DEF ChangeKey, Crash
<1>. QED
  BY <1>1, <1>2, <1>3, <1>4, <1>5, <1>6, <1>7, <1>8, <1>9, <1>10, <1>11,
     <1>12, <1>14 DEF Next, CallStep

-----------------------------------------------------------------------------
CredInv == LockInv /\ TokenInv /\ NoNeedlessReauth /\ SourceInv /\ SuccessorInv

LEMMA CredInvHolds == Spec => []CredInv
<1>1. Init => CredInv
  <2> SUFFICES ASSUME Init PROVE CredInv
    OBVIOUS
  <2>1. /\ \A c \in Calls : /\ call[c].phase = "idle" /\ call[c].got = 0
                            /\ call[c].sent = 0
        /\ \A g \in Grants : grant[g].phase = "new" /\ grant[g].token = 0
        /\ cred.status = "none" /\ cred.token = 0 /\ live = {} /\ issued = 0
        /\ \A s \in Sources : source[s] = "none"
        /\ lock = Nobody /\ \A p \in Processes : pending[p] = Nobody
    BY DEF Init, IdleCall, NoGrant, NoCredential
  <2>2. LockInv
    BY <2>1, HomeAssumption DEF LockInv, LockHeld, Refreshing, WaitersAreServed, Leads
  <2>3. TokenInv
    BY <2>1 DEF TokenInv, TokensWereIssued, AnswersBelongToAnswered, DeadAnswers
  <2>4. NoNeedlessReauth /\ SourceInv
    BY <2>1 DEF NoNeedlessReauth, SourceInv, LinkedIsActive, ActiveSourceHasActiveGrant
  <2>5. SuccessorInv
    BY <2>1 DEF SuccessorInv, FreshAnswers, StoredGrantIsLive
  <2>. QED BY <2>2, <2>3, <2>4, <2>5 DEF CredInv
<1>2. CredentialsTypeOK /\ CredentialsTypeOK' /\ CredInv /\ [Next]_vars => CredInv'
  <2>1. CredentialsTypeOK /\ CredentialsTypeOK' /\ CredInv /\ [Next]_vars
           => LockInv' /\ TokenInv' /\ NoNeedlessReauth'
    BY LockStep, TokenStep, ReauthStep DEF CredInv
  <2>2. CredentialsTypeOK /\ CredentialsTypeOK' /\ CredInv /\ [Next]_vars
           => SourceInv' /\ SuccessorInv'
    BY SourceStep, SuccessorStep DEF CredInv
  <2>. QED BY <2>1, <2>2 DEF CredInv
<1>. QED BY <1>1, <1>2, TypeCorrect, PTL DEF Spec

(* The row lock lets one call at a time ask the provider for a new pair,   *)
(* of however many processes (FOR UPDATE in refreshCredentialAccessToken). *)
THEOREM RefreshesAreAlone == Spec => []OneOpenRefresh
<1>1. CredInv => OneOpenRefresh
  BY DEF CredInv, LockInv, LockHeld, OneOpenRefresh
<1>. QED BY <1>1, CredInvHolds, PTL

(* Each process has one call that resolves the token, those that joined    *)
(* have one to wait for, and the lock has an owner (pendingTokenRequests). *)
THEOREM WaitersAreAlwaysServed == Spec => []WaitersAreServed
<1>1. CredInv => WaitersAreServed
  BY DEF CredInv, LockInv
<1>. QED BY <1>1, CredInvHolds, PTL

(* Nobody is asked to grant access again while the stored grant works      *)
(* (markReauthRequired).                                                   *)
THEOREM ReauthIsNeverNeedless == Spec => []NoNeedlessReauth
<1>1. CredInv => NoNeedlessReauth
  BY DEF CredInv
<1>. QED BY <1>1, CredInvHolds, PTL

(* A source shows as active only with an active credential, but for a mark *)
(* between the two saves of a grant (completeAuthorization).               *)
THEOREM ActiveSourcesAreGranted == Spec => []ActiveSourceHasActiveGrant
<1>1. CredInv => ActiveSourceHasActiveGrant
  BY DEF CredInv, SourceInv
<1>. QED BY <1>1, CredInvHolds, PTL

(* A credential that counts as active can be refreshed, or the call that   *)
(* rotated its token still knows the successor, unless an error lost it    *)
(* (refreshCredentialAccessToken).                                         *)
THEOREM StoredGrantStaysLive == Spec => []StoredGrantIsLive
<1>1. CredInv => StoredGrantIsLive
  BY DEF CredInv, SuccessorInv
<1>. QED BY <1>1, CredInvHolds, PTL
=============================================================================
