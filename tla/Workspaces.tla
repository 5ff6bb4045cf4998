----------------------------- MODULE Workspaces -----------------------------
(***************************************************************************)
(* The membership of one workspace: workspaces/workspaces.service.ts       *)
(* (createWorkspace, joinWorkspace, leaveWorkspace) and the MCP tokens     *)
(* that hang off a membership (mcp/mcp-token.service.ts).                  *)
(*                                                                         *)
(* Joining and leaving are transactions of several statements at READ      *)
(* COMMITTED.  A statement is an action; what a transaction wrote becomes  *)
(* visible, all at once, with its last action.  The row lock each takes on *)
(* the workspace is what orders them: FOR UPDATE excludes every other      *)
(* holder, FOR KEY SHARE only FOR UPDATE.                                  *)
(***************************************************************************)
EXTENDS Integers

CONSTANTS
    People,         \* the signed-in people
    Nobody,         \* the person of a request that is not in flight
    Requests,       \* the requests that can be in flight
    MaxMemberships  \* bound on the membership rows ever created

ASSUME NobodyAssumption == Nobody \notin People
ASSUME MembershipsAssumption == MaxMemberships \in Nat

VARIABLES
    stage,      \* the row of `workspaces` is unborn, open or deleted
    member,     \* the id of each person's membership, 0 for none
    lastId,     \* how many membership ids have been assigned
    tokens,     \* the membership ids that hold an MCP token
    updating,   \* the requests that lock the workspace FOR UPDATE
    sharing,    \* the requests that lock it FOR KEY SHARE
    request     \* the local state of each request

vars == <<stage, member, lastId, tokens, updating, sharing, request>>

Request ==
    [phase: {"idle", "lock", "upsert", "remove", "count", "delete", "mint"},
     person: People \cup {Nobody},
     isLastMember: BOOLEAN,   \* what the person confirmed
     membershipId: Nat]

Idle == [phase |-> "idle", person |-> Nobody, isLastMember |-> FALSE,
         membershipId |-> 0]

WorkspaceTypeOK ==
    /\ stage \in {"unborn", "open", "deleted"}
    /\ member \in [People -> Nat]
    /\ lastId \in Nat
    /\ tokens \in SUBSET Nat
    /\ updating \in SUBSET Requests
    /\ sharing \in SUBSET Requests
    /\ request \in [Requests -> Request]

Members == {p \in People : member[p] # 0}

Init ==
    /\ stage = "unborn"
    /\ member = [p \in People |-> 0]
    /\ lastId = 0
    /\ tokens = {}
    /\ updating = {} /\ sharing = {}
    /\ request = [q \in Requests |-> Idle]

-----------------------------------------------------------------------------
Goto(q, phase) == request' = [request EXCEPT ![q] = [@ EXCEPT !.phase = phase]]

(* The request of q is done; its locks go. *)
End(q) == /\ request' = [request EXCEPT ![q] = Idle]
          /\ updating' = updating \ {q}
          /\ sharing' = sharing \ {q}

Begin(q, p, phase, isLastMember, membershipId) ==
    /\ request[q].phase = "idle"
    /\ request' = [request EXCEPT ![q] =
                     [phase |-> phase, person |-> p,
                      isLastMember |-> isLastMember,
                      membershipId |-> membershipId]]

NewMembership(p) ==
    /\ lastId < MaxMemberships
    /\ lastId' = lastId + 1
    /\ member' = [member EXCEPT ![p] = lastId + 1]

(* createWorkspace writes the workspace and its first membership together. *)
CreateWorkspace(p) ==
    /\ stage = "unborn"
    /\ stage' = "open"
    /\ NewMembership(p)
    /\ UNCHANGED <<tokens, updating, sharing, request>>

(* joinWorkspace finds the workspace by its code ...                       *)
FindByCode(q, p) ==
    /\ stage = "open"
    /\ Begin(q, p, "lock", FALSE, 0)
    /\ UNCHANGED <<stage, member, lastId, tokens, updating, sharing>>

(* Mutant: a join takes no lock. *)
JoinUnlocked(q) ==
    /\ request[q].phase = "lock"
    /\ Goto(q, "upsert")
    /\ UNCHANGED <<stage, member, lastId, tokens, updating, sharing>>

(* ... locks its row, which may be gone by now ...                         *)
LockForJoin(q) ==
    /\ request[q].phase = "lock"
    /\ updating = {}
    /\ IF stage = "open"
       THEN Goto(q, "upsert") /\ sharing' = sharing \cup {q}
            /\ updating' = updating
       ELSE End(q)
    /\ UNCHANGED <<stage, member, lastId, tokens>>

(* ... and upserts the membership: a member keeps the one they have.       *)
CommitJoin(q) ==
    /\ request[q].phase = "upsert"
    /\ IF member[request[q].person] = 0
       THEN NewMembership(request[q].person)
       ELSE UNCHANGED <<member, lastId>>
    /\ End(q)
    /\ UNCHANGED <<stage, tokens>>

(* leaveWorkspace locks the row FOR UPDATE; a workspace that is gone is    *)
(* not found. *)
LockForLeave(q, p, isLastMember) ==
    /\ stage = "open"
    /\ updating = {} /\ sharing = {}
    /\ Begin(q, p, "remove", isLastMember, 0)
    /\ updating' = {q}
    /\ UNCHANGED <<stage, member, lastId, tokens, sharing>>

(* It deletes the membership, which only its transaction sees yet; a       *)
(* person without one is refused.                                          *)
RemoveMembership(q) ==
    /\ request[q].phase = "remove"
    /\ IF member[request[q].person] = 0
       THEN End(q)
       ELSE Goto(q, "count") /\ UNCHANGED <<updating, sharing>>
    /\ UNCHANGED <<stage, member, lastId, tokens>>

HasOtherMembers(q) == Members \ {request[q].person} # {}

(* Mutant: the leave trusts what the person confirmed. *)
CountSkipped(q) ==
    LET p == request[q].person
    IN  /\ request[q].phase = "count"
        /\ IF request[q].isLastMember
           THEN /\ Goto(q, "delete")
                /\ UNCHANGED <<member, tokens, updating, sharing>>
           ELSE /\ member' = [member EXCEPT ![p] = 0]
                /\ tokens' = tokens \ {member[p]}
                /\ End(q)
        /\ UNCHANGED <<stage, lastId>>

(* Mutant: the last leave deletes, whatever the person confirmed. *)
CountUnconfirmed(q) ==
    LET p == request[q].person
    IN  /\ request[q].phase = "count"
        /\ IF HasOtherMembers(q)
           THEN /\ member' = [member EXCEPT ![p] = 0]
                /\ tokens' = tokens \ {member[p]}
                /\ End(q)
           ELSE /\ Goto(q, "delete")
                /\ UNCHANGED <<member, tokens, updating, sharing>>
        /\ UNCHANGED <<stage, lastId>>

(* It counts the members that are left.  A count that contradicts what the *)
(* person confirmed rolls the leave back; otherwise it commits, with the   *)
(* tokens of the membership, or goes on to delete the workspace.           *)
CountMembers(q) ==
    LET p == request[q].person
    IN  /\ request[q].phase = "count"
        /\ \/ /\ HasOtherMembers(q) = request[q].isLastMember
              /\ End(q)
              /\ UNCHANGED <<member, tokens>>
           \/ /\ HasOtherMembers(q) /\ ~request[q].isLastMember
              /\ member' = [member EXCEPT ![p] = 0]
              /\ tokens' = tokens \ {member[p]}
              /\ End(q)
           \/ /\ ~HasOtherMembers(q) /\ request[q].isLastMember
              /\ Goto(q, "delete")
              /\ UNCHANGED <<member, tokens, updating, sharing>>
        /\ UNCHANGED <<stage, lastId>>

(* The last member is gone, and the cascade takes what the workspace held. *)
DeleteWorkspace(q) ==
    /\ request[q].phase = "delete"
    /\ stage' = "deleted"
    /\ member' = [p \in People |-> 0]
    /\ tokens' = {}
    /\ End(q)
    /\ UNCHANGED lastId

(* A statement throws, a lock or a transaction times out, or the process   *)
(* stops: Postgres rolls the transaction back.                             *)
RollBack(q) ==
    /\ request[q].phase # "idle"
    /\ End(q)
    /\ UNCHANGED <<stage, member, lastId, tokens>>

-----------------------------------------------------------------------------
(* createMcpToken reads the membership ...                                 *)
FindMembership(q, p) ==
    /\ member[p] # 0
    /\ Begin(q, p, "mint", FALSE, member[p])
    /\ UNCHANGED <<stage, member, lastId, tokens, updating, sharing>>

(* The membership is deleted in a transaction that has not ended: the      *)
(* insert waits for it.                                                    *)
BeingRemoved(p) == \E q \in updating : /\ request[q].phase \in {"count", "delete"}
                                       /\ request[q].person = p

(* Mutant: no foreign key. *)
MintUnchecked(q) ==
    /\ request[q].phase = "mint"
    /\ tokens' = tokens \cup {request[q].membershipId}
    /\ End(q)
    /\ UNCHANGED <<stage, member, lastId>>

(* ... and inserts the token under its id.  The foreign key refuses a      *)
(* membership that is gone.                                                *)
CreateMcpToken(q) ==
    LET x == request[q]
    IN  /\ x.phase = "mint"
        /\ ~BeingRemoved(x.person)
        /\ member[x.person] = x.membershipId
        /\ tokens' = tokens \cup {x.membershipId}
        /\ End(q)
        /\ UNCHANGED <<stage, member, lastId>>

(* deleteMcpToken. *)
DeleteMcpToken(p) ==
    /\ member[p] \in tokens
    /\ tokens' = tokens \ {member[p]}
    /\ UNCHANGED <<stage, member, lastId, updating, sharing, request>>

Next ==
    \/ \E p \in People : CreateWorkspace(p) \/ DeleteMcpToken(p)
    \/ \E q \in Requests :
          \/ \E p \in People :
                \/ FindByCode(q, p) \/ FindMembership(q, p)
                \/ \E last \in BOOLEAN : LockForLeave(q, p, last)
          \/ LockForJoin(q) \/ CommitJoin(q)
          \/ RemoveMembership(q) \/ CountMembers(q) \/ DeleteWorkspace(q)
          \/ CreateMcpToken(q) \/ RollBack(q)

Spec == Init /\ [][Next]_vars

-----------------------------------------------------------------------------
(* A workspace always has a member: of two people who leave at once, the   *)
(* second one learns that they are now the last (leaveWorkspace).          *)
NeverMemberless == stage = "open" => Members # {}

(* Nobody loses a workspace to somebody else's leave: it is deleted only   *)
(* by its one remaining member, who confirmed that it would be.            *)
DeletionIsConfirmed ==
    [][stage = "open" /\ stage' = "deleted" =>
          \E q \in Requests : /\ request[q].isLastMember
                              /\ Members = {request[q].person}]_vars

(* A token always belongs to a present member: neither leaving nor         *)
(* rejoining leaves one of the old membership behind.                      *)
TokensBelongToMembers == tokens \subseteq {member[p] : p \in Members}

(* Each join and each leave takes effect in one step, as Membership says.  *)
M == INSTANCE Membership WITH members <- Members

ImplementsMembership == M!Spec
=============================================================================
