-------------------------- MODULE WorkspacesProofs --------------------------
(***************************************************************************)
(* What holds of the membership of a workspace for any number of people    *)
(* and of requests in flight.                                              *)
(***************************************************************************)
EXTENDS Workspaces, TLAPS

-----------------------------------------------------------------------------
(* The inductive invariant.  A request holds a lock exactly while it is in *)
(* the phases that need one, an exclusive lock stands alone, and only an   *)
(* open workspace can be locked.                                           *)
LocksMatchPhases ==
    \A q \in Requests :
        /\ q \in updating <=> request[q].phase \in {"remove", "count", "delete"}
        /\ q \in sharing <=> request[q].phase = "upsert"
        /\ request[q].phase # "idle" => request[q].person \in People

LocksExclude ==
    /\ \A q, s \in updating : q = s
    /\ updating # {} => sharing = {}
    /\ updating # {} \/ sharing # {} => stage = "open"

(* What a leave has read stays true until it ends, because nobody else can *)
(* change the members meanwhile.                                           *)
LeaveReadsLast ==
    \A q \in Requests :
        /\ request[q].phase \in {"count", "delete"}
              => member[request[q].person] # 0
        /\ request[q].phase = "delete"
              => request[q].isLastMember /\ Members = {request[q].person}

MembersNeedWorkspace == stage # "open" => \A p \in People : member[p] = 0

MemberInv == /\ LocksMatchPhases
             /\ LocksExclude
             /\ LeaveReadsLast
             /\ MembersNeedWorkspace
             /\ NeverMemberless

MintsHoldMembership ==
    \A q \in Requests : request[q].phase = "mint" => request[q].membershipId # 0

TokenInv == MintsHoldMembership /\ TokensBelongToMembers

-----------------------------------------------------------------------------
LEMMA IdleIsRequest == Idle \in Request
BY DEF Idle, Request

LEMMA Moved ==
    ASSUME WorkspaceTypeOK, NEW q \in Requests,
           NEW phase \in {"upsert", "count", "delete"}, Goto(q, phase)
    PROVE  \E x \in Request :
              /\ request' = [request EXCEPT ![q] = x]
              /\ x.phase = phase
              /\ x.person = request[q].person
              /\ x.isLastMember = request[q].isLastMember
<1> DEFINE x == [request[q] EXCEPT !.phase = phase]
<1>1. request[q] \in Request
  BY DEF WorkspaceTypeOK
<1>2. /\ x \in Request /\ x.phase = phase
      /\ x.person = request[q].person
      /\ x.isLastMember = request[q].isLastMember
  BY <1>1 DEF Request
<1>3. request' = [request EXCEPT ![q] = x]
  BY DEF Goto
<1> HIDE DEF x
<1>. QED BY <1>2, <1>3

LEMMA JoinBegun ==
    ASSUME WorkspaceTypeOK, NEW q \in Requests, NEW p \in People,
           FindByCode(q, p)
    PROVE  /\ request[q].phase = "idle"
           /\ \E x \in Request :
                 /\ request' = [request EXCEPT ![q] = x]
                 /\ x.phase = "lock" /\ x.person = p
<1> DEFINE x == [phase |-> "lock", person |-> p, isLastMember |-> FALSE,
                 membershipId |-> 0]
<1>1. x \in Request /\ x.phase = "lock" /\ x.person = p
  BY DEF Request
<1>2. request[q].phase = "idle" /\ request' = [request EXCEPT ![q] = x]
  BY DEF Begin, FindByCode
<1> HIDE DEF x
<1>. QED BY <1>1, <1>2

LEMMA MintBegun ==
    ASSUME WorkspaceTypeOK, NEW q \in Requests, NEW p \in People,
           FindMembership(q, p)
    PROVE  /\ request[q].phase = "idle"
           /\ \E x \in Request :
                 /\ request' = [request EXCEPT ![q] = x]
                 /\ x.phase = "mint" /\ x.person = p
                 /\ x.membershipId = member[p]
<1> DEFINE x == [phase |-> "mint", person |-> p, isLastMember |-> FALSE,
                 membershipId |-> member[p]]
<1>1. /\ x \in Request /\ x.phase = "mint" /\ x.person = p
      /\ x.membershipId = member[p]
  BY DEF Request, WorkspaceTypeOK
<1>2. request[q].phase = "idle" /\ request' = [request EXCEPT ![q] = x]
  BY DEF Begin, FindMembership
<1> HIDE DEF x
<1>. QED BY <1>1, <1>2

LEMMA LeaveBegun ==
    ASSUME WorkspaceTypeOK, NEW q \in Requests, NEW p \in People,
           NEW last \in BOOLEAN, Begin(q, p, "remove", last, 0)
    PROVE  /\ request[q].phase = "idle"
           /\ \E x \in Request :
                 /\ request' = [request EXCEPT ![q] = x]
                 /\ x.phase = "remove" /\ x.person = p
<1> DEFINE x == [phase |-> "remove", person |-> p, isLastMember |-> last,
                 membershipId |-> 0]
<1>1. x \in Request /\ x.phase = "remove" /\ x.person = p
  BY DEF Request
<1>2. request[q].phase = "idle" /\ request' = [request EXCEPT ![q] = x]
  BY DEF Begin
<1> HIDE DEF x
<1>. QED BY <1>1, <1>2

LEMMA TypeStep == ASSUME WorkspaceTypeOK, [Next]_vars PROVE WorkspaceTypeOK'
<1> USE DEF WorkspaceTypeOK
<1>0. ASSUME NEW q \in Requests, End(q)
      PROVE  /\ request' \in [Requests -> Request]
             /\ updating' \in SUBSET Requests /\ sharing' \in SUBSET Requests
  BY <1>0, IdleIsRequest DEF End
<1>a. ASSUME NEW p, NewMembership(p)
      PROVE  lastId' \in Nat /\ member' \in [People -> Nat]
  <2>1. lastId' \in Nat /\ lastId + 1 \in Nat
    BY <1>a DEF NewMembership
  <2>2. \A x \in Nat : [member EXCEPT ![p] = x] \in [People -> Nat]
    OBVIOUS
  <2>. QED BY <1>a, <2>1, <2>2 DEF NewMembership
<1>1. ASSUME NEW p \in People, CreateWorkspace(p) PROVE WorkspaceTypeOK'
  BY <1>1, <1>a DEF CreateWorkspace
<1>2. ASSUME NEW p \in People, DeleteMcpToken(p) PROVE WorkspaceTypeOK'
  BY <1>2 DEF DeleteMcpToken
<1>3. ASSUME NEW q \in Requests, NEW p \in People, FindByCode(q, p)
      PROVE WorkspaceTypeOK'
  <2>1. PICK x \in Request : request' = [request EXCEPT ![q] = x]
    BY <1>3, JoinBegun
  <2>. QED BY <1>3, <2>1 DEF FindByCode
<1>4. ASSUME NEW q \in Requests, NEW p \in People, FindMembership(q, p)
      PROVE WorkspaceTypeOK'
  <2>1. PICK x \in Request : request' = [request EXCEPT ![q] = x]
    BY <1>4, MintBegun
  <2>. QED BY <1>4, <2>1 DEF FindMembership
<1>5. ASSUME NEW q \in Requests, NEW p \in People, NEW last \in BOOLEAN,
             LockForLeave(q, p, last)
      PROVE WorkspaceTypeOK'
  BY <1>5, LeaveBegun DEF LockForLeave
<1>6. ASSUME NEW q \in Requests, LockForJoin(q) PROVE WorkspaceTypeOK'
  <2>1. CASE stage = "open"
    BY <1>6, <2>1, Moved DEF LockForJoin
  <2>2. CASE stage # "open"
    BY <1>6, <2>2, <1>0 DEF LockForJoin
  <2>. QED BY <2>1, <2>2
<1>7. ASSUME NEW q \in Requests, CommitJoin(q) PROVE WorkspaceTypeOK'
  <2>1. CASE member[request[q].person] = 0
    <3>1. NewMembership(request[q].person)
      BY <1>7, <2>1 DEF CommitJoin
    <3>2. lastId' \in Nat /\ member' \in [People -> Nat]
      BY <3>1, <1>a
    <3>. QED BY <1>7, <1>0, <3>2 DEF CommitJoin
  <2>2. CASE member[request[q].person] # 0
    BY <1>7, <2>2, <1>0 DEF CommitJoin
  <2>. QED BY <2>1, <2>2
<1>8. ASSUME NEW q \in Requests, RemoveMembership(q) PROVE WorkspaceTypeOK'
  <2>1. CASE member[request[q].person] = 0
    BY <1>8, <2>1, <1>0 DEF RemoveMembership
  <2>2. CASE member[request[q].person] # 0
    BY <1>8, <2>2, Moved DEF RemoveMembership
  <2>. QED BY <2>1, <2>2
<1>9. ASSUME NEW q \in Requests, CountMembers(q) PROVE WorkspaceTypeOK'
  <2>1. CASE End(q) /\ UNCHANGED <<member, tokens>>
    BY <1>9, <2>1, <1>0 DEF CountMembers
  <2>2. CASE /\ member' = [member EXCEPT ![request[q].person] = 0]
             /\ tokens' = tokens \ {member[request[q].person]}
             /\ End(q)
    BY <1>9, <2>2, <1>0 DEF CountMembers
  <2>3. CASE /\ Goto(q, "delete")
             /\ UNCHANGED <<member, tokens, updating, sharing>>
    BY <1>9, <2>3, Moved DEF CountMembers
  <2>. QED BY <1>9, <2>1, <2>2, <2>3 DEF CountMembers
<1>10. ASSUME NEW q \in Requests, DeleteWorkspace(q) PROVE WorkspaceTypeOK'
  BY <1>10, <1>0 DEF DeleteWorkspace
<1>11. ASSUME NEW q \in Requests, CreateMcpToken(q) PROVE WorkspaceTypeOK'
  <2>1. request[q].membershipId \in Nat
    BY DEF Request
  <2>. QED BY <1>11, <2>1, <1>0 DEF CreateMcpToken
<1>12. ASSUME NEW q \in Requests, RollBack(q) PROVE WorkspaceTypeOK'
  BY <1>12, <1>0 DEF RollBack
<1>13. CASE UNCHANGED vars
  BY <1>13 DEF vars
<1>. QED BY <1>1, <1>2, <1>3, <1>4, <1>5, <1>6, <1>7, <1>8, <1>9, <1>10,
            <1>11, <1>12, <1>13 DEF Next

(* Every variable keeps its type.                                          *)
THEOREM WorkspaceTypeCorrect == Spec => []WorkspaceTypeOK
<1>1. Init => WorkspaceTypeOK
  BY IdleIsRequest DEF Init, WorkspaceTypeOK
<1>. QED BY <1>1, TypeStep, PTL DEF Spec

-----------------------------------------------------------------------------
(* A request that ends gives its locks back and leaves the others alone.   *)
LEMMA Ended ==
    ASSUME WorkspaceTypeOK, LocksMatchPhases, NEW q \in Requests, End(q)
    PROVE  /\ LocksMatchPhases'
           /\ request'[q].phase = "idle"
           /\ \A s \in Requests : s # q => request'[s] = request[s]
<1>1. /\ request'[q] = Idle
      /\ \A s \in Requests : s # q => request'[s] = request[s]
  BY DEF End, WorkspaceTypeOK
<1>2. request'[q].phase = "idle"
  BY <1>1 DEF Idle
<1>3. ASSUME NEW s \in Requests
      PROVE  /\ s \in updating'
                   <=> request'[s].phase \in {"remove", "count", "delete"}
             /\ s \in sharing' <=> request'[s].phase = "upsert"
             /\ request'[s].phase # "idle" => request'[s].person \in People
  BY <1>1, <1>2 DEF End, LocksMatchPhases
<1>. QED BY <1>1, <1>2, <1>3 DEF LocksMatchPhases

(* Ending a request disturbs nothing when it changes nothing else.         *)
LEMMA EndKeepsInv ==
    ASSUME WorkspaceTypeOK, MemberInv, NEW q \in Requests, End(q),
           UNCHANGED <<stage, member>>
    PROVE  MemberInv'
<1>1. LocksMatchPhases'
  BY Ended DEF MemberInv
<1>2. LocksExclude'
  BY DEF MemberInv, LocksExclude, End
<1>3. LeaveReadsLast'
  BY Ended DEF MemberInv, LeaveReadsLast, Members
<1>4. MembersNeedWorkspace' /\ NeverMemberless'
  BY DEF MemberInv, MembersNeedWorkspace, NeverMemberless, Members
<1>. QED BY <1>1, <1>2, <1>3, <1>4 DEF MemberInv

(* A request that starts without a lock disturbs nothing either.           *)
LEMMA BeginKeepsInv ==
    ASSUME WorkspaceTypeOK, MemberInv, NEW q \in Requests, NEW x \in Request,
           request[q].phase = "idle",
           request' = [request EXCEPT ![q] = x],
           x.phase \in {"lock", "mint"}, x.person \in People,
           UNCHANGED <<stage, member, updating, sharing>>
    PROVE  MemberInv'
<1>1. /\ request'[q] = x
      /\ \A s \in Requests : s # q => request'[s] = request[s]
  BY DEF WorkspaceTypeOK
<1>2. LocksMatchPhases'
  BY <1>1 DEF MemberInv, LocksMatchPhases
<1>3. LocksExclude'
  BY DEF MemberInv, LocksExclude
<1>4. LeaveReadsLast'
  BY <1>1 DEF MemberInv, LeaveReadsLast, Members
<1>5. MembersNeedWorkspace' /\ NeverMemberless'
  BY DEF MemberInv, MembersNeedWorkspace, NeverMemberless, Members
<1>. QED BY <1>2, <1>3, <1>4, <1>5 DEF MemberInv

(* While nobody holds the workspace FOR UPDATE no leave has read anything. *)
LEMMA NobodyLeaves ==
    ASSUME LocksMatchPhases, updating = {}, NEW q \in Requests
    PROVE  request[q].phase \notin {"remove", "count", "delete"}
BY DEF LocksMatchPhases

LEMMA CreateKeepsInv ==
    ASSUME WorkspaceTypeOK, MemberInv, NEW p \in People, CreateWorkspace(p)
    PROVE  MemberInv'
<1>1. /\ stage = "unborn" /\ stage' = "open"
      /\ UNCHANGED <<updating, sharing, request>>
      /\ updating = {} /\ sharing = {}
  BY DEF CreateWorkspace, MemberInv, LocksExclude
<1>2. member'[p] # 0
  BY DEF CreateWorkspace, NewMembership, WorkspaceTypeOK
<1>3. LocksMatchPhases'
  BY <1>1 DEF MemberInv, LocksMatchPhases
<1>4. LocksExclude'
  BY <1>1 DEF LocksExclude
<1>5. LeaveReadsLast'
  BY <1>1, NobodyLeaves DEF MemberInv, LeaveReadsLast
<1>6. MembersNeedWorkspace' /\ NeverMemberless'
  BY <1>1, <1>2 DEF MembersNeedWorkspace, NeverMemberless, Members
<1>. QED BY <1>3, <1>4, <1>5, <1>6 DEF MemberInv

LEMMA LockForLeaveKeepsInv ==
    ASSUME WorkspaceTypeOK, MemberInv, NEW q \in Requests, NEW p \in People,
           NEW last \in BOOLEAN, LockForLeave(q, p, last)
    PROVE  MemberInv'
<1>1. /\ stage = "open" /\ updating = {} /\ sharing = {} /\ updating' = {q}
      /\ UNCHANGED <<stage, member, sharing>>
      /\ Begin(q, p, "remove", last, 0)
  BY DEF LockForLeave
<1>2. PICK x \in Request : /\ request' = [request EXCEPT ![q] = x]
                           /\ x.phase = "remove" /\ x.person = p
  BY <1>1, LeaveBegun
<1>3. /\ request'[q] = x
      /\ \A s \in Requests : s # q => request'[s] = request[s]
  BY <1>2 DEF WorkspaceTypeOK
<1>4. LocksMatchPhases'
  BY <1>1, <1>2, <1>3 DEF MemberInv, LocksMatchPhases
<1>5. LocksExclude'
  BY <1>1 DEF LocksExclude
<1>6. LeaveReadsLast'
  BY <1>1, <1>2, <1>3, NobodyLeaves DEF MemberInv, LeaveReadsLast, Members
<1>7. MembersNeedWorkspace' /\ NeverMemberless'
  BY <1>1 DEF MemberInv, MembersNeedWorkspace, NeverMemberless, Members
<1>. QED BY <1>4, <1>5, <1>6, <1>7 DEF MemberInv

LEMMA LockForJoinKeepsInv ==
    ASSUME WorkspaceTypeOK, MemberInv, NEW q \in Requests, LockForJoin(q)
    PROVE  MemberInv'
<1>1. CASE stage # "open"
  BY <1>1, EndKeepsInv DEF LockForJoin
<1>2. CASE stage = "open"
  <2>1. /\ updating = {} /\ updating' = {} /\ sharing' = sharing \cup {q}
        /\ UNCHANGED <<stage, member>>
        /\ request[q].phase = "lock" /\ Goto(q, "upsert")
    BY <1>2 DEF LockForJoin
  <2>2. PICK x \in Request : /\ request' = [request EXCEPT ![q] = x]
                             /\ x.phase = "upsert"
                             /\ x.person = request[q].person
    BY <2>1, Moved
  <2>3. /\ request'[q] = x
        /\ \A s \in Requests : s # q => request'[s] = request[s]
    BY <2>2 DEF WorkspaceTypeOK
  <2>4. LocksMatchPhases'
    BY <2>1, <2>2, <2>3 DEF MemberInv, LocksMatchPhases
  <2>5. LocksExclude'
    BY <1>2, <2>1 DEF LocksExclude
  <2>6. LeaveReadsLast'
    BY <2>1, <2>2, <2>3, NobodyLeaves DEF MemberInv, LeaveReadsLast
  <2>7. MembersNeedWorkspace' /\ NeverMemberless'
    BY <2>1 DEF MemberInv, MembersNeedWorkspace, NeverMemberless, Members
  <2>. QED BY <2>4, <2>5, <2>6, <2>7 DEF MemberInv
<1>. QED BY <1>1, <1>2

LEMMA CommitJoinKeepsInv ==
    ASSUME WorkspaceTypeOK, MemberInv, NEW q \in Requests, CommitJoin(q)
    PROVE  MemberInv'
<1>1. /\ request[q].phase = "upsert" /\ End(q) /\ UNCHANGED stage
      /\ request[q].person \in People
  BY DEF CommitJoin, MemberInv, LocksMatchPhases
<1>2. CASE member[request[q].person] # 0
  BY <1>1, <1>2, EndKeepsInv DEF CommitJoin
<1>3. CASE member[request[q].person] = 0
  <2>1. q \in sharing /\ updating = {} /\ stage = "open"
    BY <1>1 DEF MemberInv, LocksMatchPhases, LocksExclude
  <2>2. member'[request[q].person] # 0
    BY <1>1, <1>3 DEF CommitJoin, NewMembership, WorkspaceTypeOK
  <2>3. LocksMatchPhases'
    BY <1>1, Ended DEF MemberInv
  <2>4. updating' = {}
    BY <1>1, <2>1 DEF End
  <2>5. LocksExclude'
    BY <1>1, <2>1, <2>4 DEF LocksExclude
  <2>6. ASSUME NEW s \in Requests
        PROVE  request'[s].phase \notin {"count", "delete"}
    BY <2>3, <2>4 DEF LocksMatchPhases
  <2>7. LeaveReadsLast'
    BY <2>6 DEF LeaveReadsLast
  <2>8. MembersNeedWorkspace' /\ NeverMemberless'
    BY <1>1, <2>1, <2>2 DEF MembersNeedWorkspace, NeverMemberless, Members
  <2>. QED BY <2>3, <2>5, <2>7, <2>8 DEF MemberInv
<1>. QED BY <1>2, <1>3

(* What a leave does not give up, it holds alone.                          *)
LEMMA LeavesAlone ==
    ASSUME MemberInv, NEW q \in Requests,
           request[q].phase \in {"remove", "count", "delete"}
    PROVE  /\ stage = "open" /\ updating = {q} /\ sharing = {}
           /\ request[q].person \in People
           /\ \A s \in Requests : s # q => request[s].phase
                                       \notin {"remove", "count", "delete"}
BY DEF MemberInv, LocksMatchPhases, LocksExclude

(* A leave that moves on, with its lock and with what it read.             *)
LEMMA MoveKeepsInv ==
    ASSUME WorkspaceTypeOK, MemberInv, NEW q \in Requests,
           NEW phase \in {"count", "delete"}, Goto(q, phase),
           request[q].phase \in {"remove", "count"},
           UNCHANGED <<stage, member, updating, sharing>>,
           member[request[q].person] # 0,
           phase = "delete" => /\ request[q].isLastMember
                               /\ Members = {request[q].person}
    PROVE  MemberInv'
<1>1. PICK x \in Request : /\ request' = [request EXCEPT ![q] = x]
                           /\ x.phase = phase
                           /\ x.person = request[q].person
                           /\ x.isLastMember = request[q].isLastMember
  BY Moved
<1>2. /\ request'[q] = x
      /\ \A s \in Requests : s # q => request'[s] = request[s]
  BY <1>1 DEF WorkspaceTypeOK
<1>3. LocksMatchPhases'
  BY <1>1, <1>2, LeavesAlone DEF MemberInv, LocksMatchPhases
<1>4. LocksExclude'
  BY DEF MemberInv, LocksExclude
<1>5. LeaveReadsLast'
  <2>1. ASSUME NEW s \in Requests, s # q
        PROVE  request'[s].phase \notin {"count", "delete"}
    BY <1>2, <2>1, LeavesAlone
  <2>2. member'[request'[q].person] # 0
    BY <1>1, <1>2
  <2>3. ASSUME request'[q].phase = "delete"
        PROVE  request'[q].isLastMember
    BY <1>1, <1>2, <2>3
  <2>4. ASSUME request'[q].phase = "delete"
        PROVE  Members' = {request'[q].person}
    BY <1>1, <1>2, <2>4 DEF Members
  <2>. QED BY <2>1, <2>2, <2>3, <2>4 DEF LeaveReadsLast
<1>6. MembersNeedWorkspace' /\ NeverMemberless'
  BY DEF MemberInv, MembersNeedWorkspace, NeverMemberless, Members
<1>. QED BY <1>3, <1>4, <1>5, <1>6 DEF MemberInv

LEMMA RemoveKeepsInv ==
    ASSUME WorkspaceTypeOK, MemberInv, NEW q \in Requests, RemoveMembership(q)
    PROVE  MemberInv'
<1>1. CASE member[request[q].person] = 0
  BY <1>1, EndKeepsInv DEF RemoveMembership
<1>2. CASE member[request[q].person] # 0
  BY <1>2, MoveKeepsInv DEF RemoveMembership
<1>. QED BY <1>1, <1>2

LEMMA CountKeepsInv ==
    ASSUME WorkspaceTypeOK, MemberInv, NEW q \in Requests, CountMembers(q)
    PROVE  MemberInv'
<1> DEFINE p == request[q].person
<1>1. request[q].phase = "count" /\ UNCHANGED stage /\ p \in People
  BY LeavesAlone DEF CountMembers
<1>2. CASE End(q) /\ UNCHANGED member
  BY <1>1, <1>2, EndKeepsInv
<1>3. CASE HasOtherMembers(q) /\ member' = [member EXCEPT ![p] = 0] /\ End(q)
  <2>1. LocksMatchPhases'
    BY <1>3, Ended DEF MemberInv
  <2>2. updating' = {} /\ sharing' = {}
    BY <1>1, <1>3, LeavesAlone DEF End
  <2>3. LocksExclude'
    BY <2>2 DEF LocksExclude
  <2>4. LeaveReadsLast'
    BY <2>1, <2>2 DEF LocksMatchPhases, LeaveReadsLast
  <2>5. PICK o \in People : o # p /\ member[o] # 0
    BY <1>3 DEF HasOtherMembers, Members
  <2>6. member'[o] # 0
    BY <1>3, <2>5 DEF WorkspaceTypeOK
  <2>7. NeverMemberless' /\ MembersNeedWorkspace'
    BY <1>1, <2>6, LeavesAlone
       DEF NeverMemberless, MembersNeedWorkspace, Members
  <2>. QED BY <2>1, <2>3, <2>4, <2>7 DEF MemberInv
<1>4. CASE /\ ~HasOtherMembers(q) /\ request[q].isLastMember
           /\ Goto(q, "delete")
           /\ UNCHANGED <<member, updating, sharing>>
  <2>1. member[p] # 0
    BY <1>1 DEF MemberInv, LeaveReadsLast
  <2>2. Members = {p}
    BY <1>1, <1>4, <2>1 DEF HasOtherMembers, Members
  <2>. QED BY <1>1, <1>4, <2>1, <2>2, MoveKeepsInv
<1>. QED BY <1>1, <1>2, <1>3, <1>4 DEF CountMembers

LEMMA DeleteKeepsInv ==
    ASSUME WorkspaceTypeOK, MemberInv, NEW q \in Requests, DeleteWorkspace(q)
    PROVE  MemberInv'
<1>1. /\ request[q].phase = "delete" /\ stage' = "deleted" /\ End(q)
      /\ member' = [p \in People |-> 0]
  BY DEF DeleteWorkspace
<1>2. LocksMatchPhases'
  BY <1>1, Ended DEF MemberInv
<1>3. updating' = {} /\ sharing' = {}
  BY <1>1, LeavesAlone DEF End
<1>4. LocksExclude'
  BY <1>3 DEF LocksExclude
<1>5. LeaveReadsLast'
  BY <1>2, <1>3 DEF LocksMatchPhases, LeaveReadsLast
<1>6. MembersNeedWorkspace' /\ NeverMemberless'
  BY <1>1 DEF MembersNeedWorkspace, NeverMemberless
<1>. QED BY <1>2, <1>4, <1>5, <1>6 DEF MemberInv

LEMMA MemberStep ==
    ASSUME WorkspaceTypeOK, MemberInv, [Next]_vars PROVE MemberInv'
<1>1. ASSUME NEW p \in People, CreateWorkspace(p) PROVE MemberInv'
  BY <1>1, CreateKeepsInv
<1>2. ASSUME UNCHANGED <<stage, member, updating, sharing, request>>
      PROVE  MemberInv'
  BY <1>2 DEF MemberInv, LocksMatchPhases, LocksExclude, LeaveReadsLast,
              MembersNeedWorkspace, NeverMemberless, Members
<1>3. ASSUME NEW p \in People, DeleteMcpToken(p) PROVE MemberInv'
  BY <1>2, <1>3 DEF DeleteMcpToken
<1>4. ASSUME NEW q \in Requests, NEW p \in People, FindByCode(q, p)
      PROVE MemberInv'
  <2>1. UNCHANGED <<stage, member, updating, sharing>>
    BY <1>4 DEF FindByCode
  <2>. QED BY <1>4, <2>1, JoinBegun, BeginKeepsInv
<1>5. ASSUME NEW q \in Requests, NEW p \in People, FindMembership(q, p)
      PROVE MemberInv'
  <2>1. UNCHANGED <<stage, member, updating, sharing>>
    BY <1>5 DEF FindMembership
  <2>. QED BY <1>5, <2>1, MintBegun, BeginKeepsInv
<1>6. ASSUME NEW q \in Requests, NEW p \in People, NEW last \in BOOLEAN,
             LockForLeave(q, p, last)
      PROVE MemberInv'
  BY <1>6, LockForLeaveKeepsInv
<1>7. ASSUME NEW q \in Requests, CreateMcpToken(q) PROVE MemberInv'
  BY <1>7, EndKeepsInv DEF CreateMcpToken
<1>8. ASSUME NEW q \in Requests, RollBack(q) PROVE MemberInv'
  BY <1>8, EndKeepsInv DEF RollBack
<1>9. CASE UNCHANGED vars
  BY <1>2, <1>9 DEF vars
<1>. QED BY <1>1, <1>3, <1>4, <1>5, <1>6, <1>7, <1>8, <1>9,
            LockForJoinKeepsInv, CommitJoinKeepsInv, RemoveKeepsInv,
            CountKeepsInv, DeleteKeepsInv DEF Next

LEMMA MemberInvHolds == Spec => [](WorkspaceTypeOK /\ MemberInv)
<1>1. Init => MemberInv
  BY DEF Init, Idle, MemberInv, LocksMatchPhases, LocksExclude,
         LeaveReadsLast, MembersNeedWorkspace, NeverMemberless
<1>2. WorkspaceTypeOK /\ MemberInv /\ [Next]_vars => MemberInv'
  BY MemberStep
<1>. QED BY <1>1, <1>2, WorkspaceTypeCorrect, PTL DEF Spec

(* A workspace always has a member, however many people leave at once.     *)
THEOREM WorkspaceIsNeverMemberless == Spec => []NeverMemberless
BY MemberInvHolds, PTL DEF MemberInv

(* A workspace is deleted only by its one remaining member, who confirmed  *)
(* that it would be.                                                       *)
THEOREM DeletionIsAlwaysConfirmed == Spec => DeletionIsConfirmed
<1> DEFINE Confirmed == \E q \in Requests : /\ request[q].isLastMember
                                            /\ Members = {request[q].person}
<1>1. ASSUME MemberInv, [Next]_vars, stage = "open", stage' = "deleted"
      PROVE  Confirmed
  <2>1. PICK q \in Requests : DeleteWorkspace(q)
    BY <1>1 DEF Next, vars, CreateWorkspace, DeleteMcpToken, FindByCode,
                FindMembership, LockForLeave, LockForJoin, CommitJoin,
                RemoveMembership, CountMembers, CreateMcpToken, RollBack
  <2>. QED BY <1>1, <2>1 DEF DeleteWorkspace, MemberInv, LeaveReadsLast
<1>2. MemberInv /\ [Next]_vars
         => [stage = "open" /\ stage' = "deleted" => Confirmed]_vars
  BY <1>1
<1>. QED BY <1>2, MemberInvHolds, PTL DEF Spec, DeletionIsConfirmed

-----------------------------------------------------------------------------
(* A request that mints a token holds the id of a membership.              *)
LEMMA MintsStep ==
    ASSUME WorkspaceTypeOK, MintsHoldMembership, [Next]_vars
    PROVE  MintsHoldMembership'
<1>1. ASSUME NEW q \in Requests, NEW x,
             request' = [request EXCEPT ![q] = x],
             x.phase = "mint" => x.membershipId # 0
      PROVE  MintsHoldMembership'
  BY <1>1 DEF WorkspaceTypeOK, MintsHoldMembership
<1>2. ASSUME NEW q \in Requests, End(q) PROVE MintsHoldMembership'
  BY <1>1, <1>2 DEF End, Idle
<1>3. ASSUME NEW q \in Requests, NEW phase \in {"upsert", "count", "delete"},
             Goto(q, phase)
      PROVE  MintsHoldMembership'
  <2>1. PICK x \in Request : request' = [request EXCEPT ![q] = x]
                             /\ x.phase = phase
    BY <1>3, Moved
  <2>. QED BY <1>1, <2>1
<1>4. ASSUME UNCHANGED request PROVE MintsHoldMembership'
  BY <1>4 DEF MintsHoldMembership
<1>5. ASSUME NEW q \in Requests, NEW p \in People, FindByCode(q, p)
      PROVE  MintsHoldMembership'
  <2>1. PICK x \in Request : request' = [request EXCEPT ![q] = x]
                             /\ x.phase = "lock"
    BY <1>5, JoinBegun
  <2>. QED BY <1>1, <2>1
<1>6. ASSUME NEW q \in Requests, NEW p \in People, FindMembership(q, p)
      PROVE  MintsHoldMembership'
  <2>1. PICK x \in Request : request' = [request EXCEPT ![q] = x]
                             /\ x.membershipId = member[p]
    BY <1>6, MintBegun
  <2>. QED BY <1>1, <1>6, <2>1 DEF FindMembership
<1>7. ASSUME NEW q \in Requests, NEW p \in People, NEW last \in BOOLEAN,
             LockForLeave(q, p, last)
      PROVE  MintsHoldMembership'
  <2>1. Begin(q, p, "remove", last, 0)
    BY <1>7 DEF LockForLeave
  <2>2. PICK x \in Request : request' = [request EXCEPT ![q] = x]
                             /\ x.phase = "remove"
    BY <2>1, LeaveBegun
  <2>. QED BY <1>1, <2>2
<1>. QED BY <1>2, <1>3, <1>4, <1>5, <1>6, <1>7
         DEF Next, vars, CreateWorkspace, DeleteMcpToken, LockForJoin,
             CommitJoin, RemoveMembership, CountMembers, DeleteWorkspace,
             CreateMcpToken, RollBack

LEMMA TokensStep ==
    ASSUME WorkspaceTypeOK, MemberInv, TokenInv, [Next]_vars
    PROVE  TokensBelongToMembers'
<1> USE DEF TokenInv, TokensBelongToMembers, Members
<1>1. ASSUME tokens' \subseteq tokens, UNCHANGED member
      PROVE  TokensBelongToMembers'
  BY <1>1
<1>2. ASSUME NEW p \in People, CreateWorkspace(p)
      PROVE  TokensBelongToMembers'
  BY <1>2 DEF CreateWorkspace, MemberInv, MembersNeedWorkspace
<1>3. ASSUME NEW q \in Requests, CommitJoin(q) PROVE TokensBelongToMembers'
  <2>1. CASE member[request[q].person] # 0
    BY <1>1, <1>3, <2>1 DEF CommitJoin
  <2>2. CASE member[request[q].person] = 0
    <3>1. /\ UNCHANGED tokens
          /\ member' = [member EXCEPT ![request[q].person] = lastId + 1]
      BY <1>3, <2>2 DEF CommitJoin, NewMembership
    <3>2. ASSUME NEW o \in People, member[o] # 0
          PROVE  member'[o] = member[o]
      BY <2>2, <3>1, <3>2 DEF WorkspaceTypeOK
    <3>. QED BY <3>1, <3>2
  <2>. QED BY <2>1, <2>2
<1>4. ASSUME NEW q \in Requests, CountMembers(q) PROVE TokensBelongToMembers'
  <2> DEFINE p == request[q].person
  <2>1. CASE UNCHANGED <<member, tokens>>
    BY <1>1, <2>1
  <2>2. CASE member' = [member EXCEPT ![p] = 0] /\ tokens' = tokens \ {member[p]}
    <3>1. ASSUME NEW o \in People, o # p PROVE member'[o] = member[o]
      BY <2>2, <3>1 DEF WorkspaceTypeOK
    <3>. QED BY <2>2, <3>1
  <2>. QED BY <1>4, <2>1, <2>2 DEF CountMembers
<1>5. ASSUME NEW q \in Requests, CreateMcpToken(q)
      PROVE TokensBelongToMembers'
  <2>1. request[q].person \in People /\ request[q].membershipId # 0
    BY <1>5 DEF CreateMcpToken, MemberInv, LocksMatchPhases,
                MintsHoldMembership
  <2>. QED BY <1>5, <2>1 DEF CreateMcpToken
<1>6. ASSUME NEW q \in Requests, DeleteWorkspace(q)
      PROVE TokensBelongToMembers'
  BY <1>6 DEF DeleteWorkspace
<1>. QED BY <1>1, <1>2, <1>3, <1>4, <1>5, <1>6
         DEF Next, vars, DeleteMcpToken, FindByCode, FindMembership,
             LockForLeave, LockForJoin, RemoveMembership, RollBack

(* No token outlives the membership it was minted for.                     *)
THEOREM TokensAlwaysBelongToMembers == Spec => []TokensBelongToMembers
<1>1. Init => TokenInv
  BY DEF Init, Idle, TokenInv, MintsHoldMembership, TokensBelongToMembers
<1>2. WorkspaceTypeOK /\ MemberInv /\ TokenInv /\ [Next]_vars => TokenInv'
  BY MintsStep, TokensStep DEF TokenInv
<1>3. TokenInv => TokensBelongToMembers
  BY DEF TokenInv
<1>. QED BY <1>1, <1>2, <1>3, MemberInvHolds, PTL DEF Spec

-----------------------------------------------------------------------------
(* A transaction takes effect with its commit, as one step of Membership;  *)
(* every other step leaves the members as they were.                       *)
LEMMA MembershipStep ==
    ASSUME WorkspaceTypeOK, MemberInv, [Next]_vars PROVE [M!Next]_(M!vars)
<1>1. ASSUME UNCHANGED <<stage, member>> PROVE [M!Next]_(M!vars)
  BY <1>1 DEF M!vars, Members
<1>2. ASSUME NEW p \in People, CreateWorkspace(p) PROVE M!Open(p)
  <2>1. \A o \in People : member[o] = 0
    BY <1>2 DEF CreateWorkspace, MemberInv, MembersNeedWorkspace
  <2>2. member' = [member EXCEPT ![p] = lastId + 1] /\ lastId + 1 # 0
    BY <1>2 DEF CreateWorkspace, NewMembership, WorkspaceTypeOK
  <2>3. \A o \in People : member'[o] # 0 <=> o = p
    BY <2>1, <2>2 DEF WorkspaceTypeOK
  <2>. QED BY <1>2, <2>3 DEF M!Open, Members, CreateWorkspace
<1>3. ASSUME NEW q \in Requests, CommitJoin(q) PROVE [M!Next]_(M!vars)
  <2> DEFINE p == request[q].person
  <2>1. CASE member[p] # 0
    BY <1>1, <1>3, <2>1 DEF CommitJoin
  <2>2. CASE member[p] = 0
    <3>1. /\ p \in People /\ UNCHANGED stage /\ stage = "open"
          /\ member' = [member EXCEPT ![p] = lastId + 1] /\ lastId + 1 # 0
      BY <1>3, <2>2 DEF CommitJoin, NewMembership, MemberInv, WorkspaceTypeOK,
                        LocksMatchPhases, LocksExclude
    <3>2. \A o \in People : member'[o] # 0 <=> member[o] # 0 \/ o = p
      BY <3>1 DEF WorkspaceTypeOK
    <3>3. M!Join(p)
      BY <3>1, <3>2 DEF M!Join, Members
    <3>. QED BY <3>1, <3>3 DEF M!Next
  <2>. QED BY <2>1, <2>2
<1>4. ASSUME NEW q \in Requests, CountMembers(q) PROVE [M!Next]_(M!vars)
  <2> DEFINE p == request[q].person
  <2>1. CASE UNCHANGED member
    BY <1>1, <1>4, <2>1 DEF CountMembers
  <2>2. CASE HasOtherMembers(q) /\ member' = [member EXCEPT ![p] = 0]
    <3>1. /\ p \in People /\ UNCHANGED stage /\ stage = "open"
          /\ member[p] # 0
      BY <1>4, LeavesAlone DEF CountMembers, MemberInv, LeaveReadsLast
    <3>2. \A o \in People : member'[o] # 0 <=> member[o] # 0 /\ o # p
      BY <2>2 DEF WorkspaceTypeOK
    <3>3. M!Leave(p)
      BY <2>2, <3>1, <3>2 DEF M!Leave, Members, HasOtherMembers
    <3>. QED BY <3>1, <3>3 DEF M!Next
  <2>. QED BY <1>4, <2>1, <2>2 DEF CountMembers
<1>5. ASSUME NEW q \in Requests, DeleteWorkspace(q) PROVE [M!Next]_(M!vars)
  <2>1. /\ request[q].phase = "delete" /\ stage' = "deleted"
        /\ Members' = {}
    BY <1>5 DEF DeleteWorkspace, Members
  <2>2. /\ stage = "open" /\ request[q].person \in People
        /\ Members = {request[q].person}
    BY <2>1, LeavesAlone DEF MemberInv, LeaveReadsLast
  <2>3. M!Close(request[q].person)
    BY <2>1, <2>2 DEF M!Close
  <2>. QED BY <2>2, <2>3 DEF M!Next
<1>6. ASSUME NEW p \in People, CreateWorkspace(p) PROVE [M!Next]_(M!vars)
  BY <1>2, <1>6 DEF M!Next
<1>. QED BY <1>1, <1>3, <1>4, <1>5, <1>6
         DEF Next, vars, DeleteMcpToken, FindByCode, FindMembership,
             LockForLeave, LockForJoin, RemoveMembership, CreateMcpToken,
             RollBack

(* Joining and leaving, statement by statement, implement the membership   *)
(* in which each is one step.                                              *)
THEOREM WorkspacesImplementMembership == Spec => ImplementsMembership
<1>1. Init => M!Init
  BY DEF Init, M!Init, Members
<1>2. WorkspaceTypeOK /\ MemberInv /\ [Next]_vars => [M!Next]_(M!vars)
  BY MembershipStep
<1>. QED BY <1>1, <1>2, MemberInvHolds, PTL
         DEF Spec, ImplementsMembership, M!Spec
=============================================================================
