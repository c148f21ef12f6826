-------------------------- MODULE WorkspacesProofs --------------------------
(***************************************************************************)
(* Proofs about Workspaces for every set of workspaces, addresses,         *)
(* invitations and workers: RowsInv is inductive, and what follows from it.   *)
(***************************************************************************)
EXTENDS WorkspacesInvariant, TLAPS

USE LowerIsLower, InviteRolesAreRoles, NoneIsNothing, FaultsAreBounded

LEMMA InitRowsInv == Init => RowsInv
<1> SUFFICES ASSUME Init PROVE RowsInv
  OBVIOUS
<1> USE DEF Init, NoInvite, NoRequest
<1>1. TypeOK
  BY DEF TypeOK, Roles, Labels, Replies
<1>2. UsesOK /\ AcceptedMeansMember
  BY DEF UsesOK, AcceptedMeansMember
<1>3. \A w \in Workers : WorkerOK(w)
  BY DEF WorkerOK, RequestOK, TokenOK, ReplacedOK, UsedOK, MemberOK, FounderOK, JoinedOK,
         Using, Founding
<1> QED
  BY <1>1, <1>2, <1>3 DEF RowsInv

(***************************************************************************)
(* Steps of one worker that write no table.                                *)
(***************************************************************************)

\* What a step of w has to keep of the request in flight at another worker.
LEMMA OthersStayOK ==
    ASSUME RowsInv, NEW w \in Workers, NEW v \in Workers \ {w},
           NEW label \in Labels, NEW r \in Request \cup {NoRequest},
           pc' = [pc EXCEPT ![w] = label], req' = [req EXCEPT ![w] = r],
           \A i \in InviteIds : inviteLock[i] = v => inviteLock'[i] = v,
           UNCHANGED tables, WorkerOK(w)'
    PROVE  WorkerOK(v)'
<1> USE DEF tables
<1>0. /\ pc'[w] = label /\ req'[w] = r /\ pc'[v] = pc[v] /\ req'[v] = req[v]
      /\ \A u \in Workers \ {w} : pc'[u] = pc[u] /\ req'[u] = req[u]
  BY DEF RowsInv, TypeOK
<1>1. WorkerOK(v)
  BY DEF RowsInv
<1>2. RequestOK(v)'
  BY <1>0, <1>1 DEF WorkerOK, RequestOK, Using, Founding
<1>3. TokenOK(v)'
  <2>1. CASE r.op = "invite"
    BY <1>0, <1>1, <2>1 DEF WorkerOK, TokenOK
  <2>2. CASE r.op \in {"accept", "join"}
    BY <1>0, <1>1, <2>2 DEF WorkerOK, TokenOK, RequestOK
  <2>3. CASE r.op \in {"register", "none"}
    BY <1>0, <1>1, <2>3 DEF WorkerOK, TokenOK, RequestOK, NoRequest, Request, Ops
  <2> QED
    BY <2>1, <2>2, <2>3 DEF Request, Ops, NoRequest
<1>4. ReplacedOK(v)' /\ UsedOK(v)'
  BY <1>0, <1>1 DEF WorkerOK, RequestOK, ReplacedOK, UsedOK, Using
<1>5. MemberOK(v)'
  BY <1>0, <1>1 DEF WorkerOK, MemberOK, MemberInFlight, IsMember
<1>6. FounderOK(v)'
  BY <1>0, <1>1 DEF WorkerOK, FounderOK, Founding, TenantInFlight
<1>7. JoinedOK(v)'
  BY <1>0, <1>1 DEF WorkerOK, JoinedOK, IsMember
<1> QED
  BY <1>2, <1>3, <1>4, <1>5, <1>6, <1>7 DEF WorkerOK

\* A step that takes worker w to a label and a request fit for it.
LEMMA QuietStep ==
    ASSUME RowsInv, NEW w \in Workers, NEW label \in Labels, NEW r \in Request \cup {NoRequest},
           pc' = [pc EXCEPT ![w] = label], req' = [req EXCEPT ![w] = r],
           reply' \in [Workers -> Replies], faults' \in 0 .. MaxFaults,
           inviteLock' \in [InviteIds -> Workers \cup {None}],
           \A v \in Workers \ {w}, i \in InviteIds : inviteLock[i] = v => inviteLock'[i] = v,
           UNCHANGED tables, WorkerOK(w)'
    PROVE  RowsInv'
<1>1. TypeOK'
  BY DEF RowsInv, TypeOK, tables
<1>2. UsesOK' /\ AcceptedMeansMember'
  BY DEF RowsInv, UsesOK, AcceptedMeansMember, IsMember, tables
<1>3. \A v \in Workers \ {w} : WorkerOK(v)'
  BY OthersStayOK
<1> QED
  BY <1>1, <1>2, <1>3 DEF RowsInv

\* Finish leaves a worker idle, and gives back no lock but its own.
LEMMA FinishFacts ==
    ASSUME RowsInv, NEW w \in Workers, NEW code \in Replies, Finish(w, code)
    PROVE  /\ pc' = [pc EXCEPT ![w] = "idle"] /\ req' = [req EXCEPT ![w] = NoRequest]
           /\ pc'[w] = "idle" /\ req'[w] = NoRequest
           /\ \A v \in Workers \ {w} : pc'[v] = pc[v] /\ req'[v] = req[v]
           /\ pc' \in [Workers -> Labels] /\ req' \in [Workers -> Request \cup {NoRequest}]
           /\ reply' \in [Workers -> Replies]
           /\ inviteLock' \in [InviteIds -> Workers \cup {None}]
           /\ \A v \in Workers \ {w}, i \in InviteIds :
                 inviteLock[i] = v => inviteLock'[i] = v
BY DEF Finish, RowsInv, TypeOK, Labels

\* An idle worker.
LEMMA IdleOK ==
    ASSUME NEW w \in Workers, pc'[w] = "idle", req'[w] = NoRequest
    PROVE  WorkerOK(w)'
BY DEF NoRequest, WorkerOK, RequestOK, TokenOK, ReplacedOK, UsedOK, MemberOK, FounderOK,
       JoinedOK, Using, Founding

LEMMA FinishStep ==
    ASSUME RowsInv, NEW w \in Workers, NEW code \in Replies, Finish(w, code),
           UNCHANGED tables, faults' \in 0 .. MaxFaults
    PROVE  RowsInv'
<1>1. "idle" \in Labels /\ NoRequest \in Request \cup {NoRequest}
  BY DEF Labels
<1>2. /\ pc' = [pc EXCEPT ![w] = "idle"] /\ req' = [req EXCEPT ![w] = NoRequest]
      /\ pc'[w] = "idle" /\ req'[w] = NoRequest
      /\ reply' \in [Workers -> Replies]
      /\ inviteLock' \in [InviteIds -> Workers \cup {None}]
      /\ \A v \in Workers \ {w}, i \in InviteIds :
            inviteLock[i] = v => inviteLock'[i] = v
  BY FinishFacts
<1>3. WorkerOK(w)'
  BY <1>2, IdleOK
<1> QED
  BY <1>1, <1>2, <1>3, QuietStep

LEMMA RefuseStep ==
    ASSUME RowsInv, NEW w \in Workers, NEW code \in Replies, Refuse(w, code)
    PROVE  RowsInv'
BY FinishStep DEF Refuse, RowsInv, TypeOK

\* Begin and Advance as quiet steps.
LEMMA AdvanceStep ==
    ASSUME RowsInv, NEW w \in Workers, NEW label \in Labels, NEW r \in Request,
           Advance(w, label, r), inviteLock' \in [InviteIds -> Workers \cup {None}],
           \A v \in Workers \ {w}, i \in InviteIds : inviteLock[i] = v => inviteLock'[i] = v,
           WorkerOK(w)'
    PROVE  RowsInv'
BY QuietStep DEF Advance, RowsInv, TypeOK

LEMMA BeginStep ==
    ASSUME RowsInv, NEW w \in Workers, NEW r \in Request, Begin(w, r), WorkerOK(w)'
    PROVE  RowsInv'
BY QuietStep DEF Begin, RowsInv, TypeOK, Labels, Replies

\* Shape of the request a worker is serving.
LEMMA RequestShape ==
    ASSUME RowsInv, NEW w \in Workers, pc[w] # "idle"
    PROVE  req[w] \in Request /\ WorkerOK(w)
BY DEF RowsInv, TypeOK, WorkerOK, RequestOK, NoRequest

(***************************************************************************)
(* Requests.                                                               *)
(***************************************************************************)
\* A request that has just begun.
LEMMA NewRequestOK ==
    ASSUME NEW w \in Workers, pc'[w] = "begin", req'[w].old = None, ~req'[w].newUser,
           ~req'[w].newMember, RequestOK(w)', TokenOK(w)'
    PROVE  WorkerOK(w)'
BY DEF WorkerOK, ReplacedOK, UsedOK, MemberOK, FounderOK, JoinedOK, Using, Founding

LEMMA RequestInviteStep ==
    ASSUME RowsInv, NEW w \in Workers, RequestInvite(w)
    PROVE  RowsInv'
<1>1. PICK t \in tenants, e \in Emails, r \in Roles, i \in InviteIds :
         /\ FreshInvite(i)
         /\ Begin(w, [NoRequest EXCEPT !.op = "invite", !.tenant = t, !.email = e,
                                       !.role = TargetRole(r), !.invite = i])
  BY DEF RequestInvite
<1> DEFINE q == [NoRequest EXCEPT !.op = "invite", !.tenant = t, !.email = e,
                                  !.role = TargetRole(r), !.invite = i]
<1>2. TargetRole(r) \in InviteRoles /\ t \in Slugs
  BY DEF TargetRole, RowsInv, TypeOK
<1>3. q \in Request
  BY <1>2 DEF Request, NoRequest, Ops, Roles
<1>4. pc'[w] = "begin" /\ req'[w] = q /\ \A v \in Workers \ {w} : req'[v] = req[v]
  BY <1>1 DEF Begin, RowsInv, TypeOK
<1>5. WorkerOK(w)'
  <2>1. UNCHANGED invites
    BY <1>1 DEF Begin, tables
  <2>2. RequestOK(w)'
    BY <1>2, <1>4 DEF NoRequest, RequestOK
  <2>3. TokenOK(w)'
    BY <1>1, <1>4, <2>1 DEF NoRequest, FreshInvite, TokenOK
  <2> QED
    BY <1>4, <2>2, <2>3, NewRequestOK DEF NoRequest
<1> QED
  BY <1>1, <1>3, <1>5, BeginStep

LEMMA RequestAcceptStep ==
    ASSUME RowsInv, NEW w \in Workers, RequestAccept(w)
    PROVE  RowsInv'
<1>1. PICK i \in InviteIds, p \in BOOLEAN :
         /\ invites[i].state # "none"
         /\ Begin(w, [NoRequest EXCEPT !.op = "accept", !.invite = i, !.password = p])
  BY DEF RequestAccept
<1> DEFINE q == [NoRequest EXCEPT !.op = "accept", !.invite = i, !.password = p]
<1>2. q \in Request
  BY DEF Request, NoRequest, Ops, Roles
<1>3. pc'[w] = "begin" /\ req'[w] = q
  BY <1>1 DEF Begin, RowsInv, TypeOK
<1>4. WorkerOK(w)'
  <2>1. UNCHANGED invites
    BY <1>1 DEF Begin, tables
  <2>2. RequestOK(w)' /\ TokenOK(w)'
    BY <1>1, <1>3, <2>1 DEF NoRequest, RequestOK, TokenOK
  <2> QED
    BY <1>3, <2>2, NewRequestOK DEF NoRequest
<1> QED
  BY <1>1, <1>2, <1>4, BeginStep

LEMMA RequestJoinStep ==
    ASSUME RowsInv, NEW w \in Workers, RequestJoin(w)
    PROVE  RowsInv'
<1>1. PICK i \in InviteIds, e \in Emails :
         /\ invites[i].state # "none"
         /\ Begin(w, [NoRequest EXCEPT !.op = "join", !.invite = i, !.email = e])
  BY DEF RequestJoin
<1> DEFINE q == [NoRequest EXCEPT !.op = "join", !.invite = i, !.email = e]
<1>2. q \in Request
  BY DEF Request, NoRequest, Ops, Roles
<1>3. pc'[w] = "begin" /\ req'[w] = q
  BY <1>1 DEF Begin, RowsInv, TypeOK
<1>4. WorkerOK(w)'
  <2>1. UNCHANGED invites
    BY <1>1 DEF Begin, tables
  <2>2. RequestOK(w)' /\ TokenOK(w)'
    BY <1>1, <1>3, <2>1 DEF NoRequest, RequestOK, TokenOK
  <2> QED
    BY <1>3, <2>2, NewRequestOK DEF NoRequest
<1> QED
  BY <1>1, <1>2, <1>4, BeginStep

LEMMA RequestRegisterStep ==
    ASSUME RowsInv, NEW w \in Workers, RequestRegister(w)
    PROVE  RowsInv'
<1>1. PICK t \in Slugs, e \in Emails :
         Begin(w, [NoRequest EXCEPT !.op = "register", !.tenant = t, !.email = e,
                                    !.role = "tenant_admin"])
  BY DEF RequestRegister
<1> DEFINE q == [NoRequest EXCEPT !.op = "register", !.tenant = t, !.email = e,
                                  !.role = "tenant_admin"]
<1>2. q \in Request
  BY DEF Request, NoRequest, Ops, Roles
<1>3. pc'[w] = "begin" /\ req'[w] = q
  BY <1>1 DEF Begin, RowsInv, TypeOK
<1>4. WorkerOK(w)'
  <2>1. RequestOK(w)' /\ TokenOK(w)'
    BY <1>3 DEF NoRequest, RequestOK, TokenOK
  <2> QED
    BY <1>3, <2>1, NewRequestOK DEF NoRequest
<1> QED
  BY <1>1, <1>2, <1>4, BeginStep

(***************************************************************************)
(* Queries that write nothing: createInvitation.                           *)
(***************************************************************************)
LEMMA KeepsLocks ==
    ASSUME RowsInv, NEW w \in Workers, UNCHANGED inviteLock
    PROVE  /\ inviteLock' \in [InviteIds -> Workers \cup {None}]
           /\ \A v \in Workers \ {w}, i \in InviteIds :
                 inviteLock[i] = v => inviteLock'[i] = v
BY DEF RowsInv, TypeOK

\* createInvitation goes on, and may have found an invitation to replace.
LEMMA InviteAdvanceStep ==
    ASSUME RowsInv, NEW w \in Workers, req[w].op = "invite", pc[w] # "idle",
           NEW label \in {"account", "checked", "written"},
           Advance(w, label, req[w]), UNCHANGED inviteLock, req[w].old = None
    PROVE  RowsInv'
<1>1. req[w] \in Request /\ WorkerOK(w)
  BY RequestShape
<1>2. pc'[w] = label /\ req' = req
  BY DEF Advance, RowsInv, TypeOK
<1>3. WorkerOK(w)'
  BY <1>1, <1>2 DEF Advance, tables, WorkerOK, RequestOK, TokenOK, ReplacedOK, UsedOK, MemberOK,
     FounderOK, JoinedOK, Using, Founding
<1> QED
  BY <1>1, <1>3, KeepsLocks, AdvanceStep DEF Labels

LEMMA FindInviteeStep ==
    ASSUME RowsInv, NEW w \in Workers, FindInvitee(w)
    PROVE  RowsInv'
<1>1. req[w].old = None /\ pc[w] # "idle" /\ req[w].op = "invite"
  BY DEF FindInvitee, At, RowsInv, WorkerOK, ReplacedOK
<1> QED
  BY <1>1, InviteAdvanceStep DEF FindInvitee

LEMMA CheckMemberStep ==
    ASSUME RowsInv, NEW w \in Workers, CheckMember(w)
    PROVE  RowsInv'
<1>1. req[w].old = None /\ pc[w] # "idle" /\ req[w].op = "invite"
  BY DEF CheckMember, At, RowsInv, WorkerOK, ReplacedOK
<1>2. CASE Refuse(w, "conflict")
  BY <1>2, RefuseStep DEF Replies
<1>3. CASE Advance(w, "checked", req[w]) /\ UNCHANGED inviteLock
  BY <1>1, <1>3, InviteAdvanceStep
<1> QED
  BY <1>2, <1>3 DEF CheckMember

LEMMA FindPendingStep ==
    ASSUME RowsInv, NEW w \in Workers, FindPending(w)
    PROVE  RowsInv'
<1> USE DEF FindPending
<1>1. req[w].old = None /\ pc[w] # "idle" /\ req[w].op = "invite"
  BY DEF At, RowsInv, WorkerOK, ReplacedOK
<1>2. CASE Advance(w, "written", req[w])
  BY <1>1, <1>2, InviteAdvanceStep
<1>3. ASSUME NEW i \in PendingFor(req[w].tenant, req[w].email),
             Advance(w, "replacing", [req[w] EXCEPT !.old = i])
      PROVE  RowsInv'
  <2> DEFINE r == [req[w] EXCEPT !.old = i]
  <2>1. req[w] \in Request /\ WorkerOK(w) /\ i \in InviteIds /\ invites[i].state = "pending"
    BY <1>1, RequestShape DEF PendingFor
  <2>2. r \in Request
    BY <2>1 DEF Request
  <2>3. pc'[w] = "replacing" /\ req'[w] = r
        /\ \A v \in Workers \ {w} : req'[v] = req[v]
    BY <1>3 DEF Advance, RowsInv, TypeOK
  <2>4. UNCHANGED invites
    BY <1>3 DEF Advance, tables
  <2>5. /\ r.op = "invite" /\ r.tenant = req[w].tenant /\ r.email = req[w].email
        /\ r.role = req[w].role /\ r.invite = req[w].invite /\ r.old = i
        /\ r.newUser = req[w].newUser /\ r.newMember = req[w].newMember
    BY <1>1, <2>1 DEF Request
  <2>6. RequestOK(w)' /\ TokenOK(w)'
    BY <1>1, <2>1, <2>3, <2>4, <2>5 DEF WorkerOK, RequestOK, TokenOK, Using, Founding
  <2>7. /\ ReplacedOK(w)' /\ UsedOK(w)' /\ MemberOK(w)' /\ FounderOK(w)' /\ JoinedOK(w)'
    BY <1>1, <2>1, <2>3, <2>4, <2>5 DEF WorkerOK, RequestOK, ReplacedOK, UsedOK, MemberOK,
       FounderOK, JoinedOK, Using, Founding
  <2>8. WorkerOK(w)'
    BY <2>6, <2>7 DEF WorkerOK
  <2> QED
    BY <1>3, <2>2, <2>8, KeepsLocks, AdvanceStep DEF Labels
<1> QED
  BY <1>2, <1>3

LEMMA DeletePendingStep ==
    ASSUME RowsInv, NEW w \in Workers, DeletePending(w), ~AwaitsRow(w)
    PROVE  RowsInv'
<1> USE DEF DeletePending, AwaitsRow
<1>1. /\ req[w].op = "invite" /\ pc[w] = "replacing" /\ req[w] \in Request /\ WorkerOK(w)
  BY RequestShape DEF At
<1>2. pc'[w] = "written" /\ req' = req /\ UNCHANGED invites
  BY DEF Advance, RowsInv, TypeOK, tables
<1>3. /\ inviteLock' \in [InviteIds -> Workers \cup {None}]
      /\ \A v \in Workers \ {w}, i \in InviteIds : inviteLock[i] = v => inviteLock'[i] = v
  BY DEF RowsInv, TypeOK
<1>4. RequestOK(w)' /\ TokenOK(w)'
  BY <1>1, <1>2 DEF WorkerOK, RequestOK, TokenOK, Using, Founding
<1>5. ReplacedOK(w)'
  <2>1. CASE req[w].old = None
    BY <1>2, <2>1 DEF ReplacedOK
  <2>2. CASE req[w].old # None
    <3>1. req[w].old \in InviteIds /\ invites[req[w].old].state # "none"
      BY <1>1, <2>2 DEF WorkerOK, ReplacedOK
    <3>2. invites[req[w].old].state \in {"pending", "accepted", "deleted"}
      BY <3>1 DEF RowsInv, TypeOK, Invite, NoInvite
    <3>3. inviteLock'[req[w].old] = w \/ invites[req[w].old].state = "deleted"
      BY <3>1, <3>2 DEF InviteExists, RowsInv, TypeOK
    <3> QED
      BY <1>1, <1>2, <3>1, <3>3 DEF ReplacedOK
  <2> QED
    BY <2>1, <2>2
<1>6. UsedOK(w)' /\ MemberOK(w)' /\ FounderOK(w)' /\ JoinedOK(w)'
  BY <1>1, <1>2 DEF WorkerOK, RequestOK, UsedOK, MemberOK, FounderOK, JoinedOK, Using, Founding
<1>7. WorkerOK(w)'
  BY <1>4, <1>5, <1>6 DEF WorkerOK
<1> QED
  BY <1>1, <1>3, <1>7, AdvanceStep DEF Labels

(***************************************************************************)
(* acceptInvitation and the flow with a token.                             *)
(***************************************************************************)

\* The checks that open both.
LEMMA RefuseInviteStep ==
    ASSUME RowsInv, NEW w \in Workers, RefuseInvite(w)
    PROVE  RowsInv'
BY RefuseStep DEF RefuseInvite, Replies

LEMMA KeepInviteLockedStep ==
    ASSUME RowsInv, NEW w \in Workers, req[w].op \in {"accept", "join"}, CanUse(w), ~AwaitsRow(w),
           NEW e \in Emails,
           KeepInviteLocked(w, e), Lower[invites[req[w].invite].email] = Lower[e],
           req[w].op = "accept" => invites[req[w].invite].email = e
    PROVE  RowsInv'
<1> DEFINE i == req[w].invite
           r == [req[w] EXCEPT !.tenant = invites[i].tenant, !.role = invites[i].role,
                               !.email = e]
<1> USE DEF KeepInviteLocked
<1>1. /\ pc[w] = "begin" /\ inviteLock[i] = None
      /\ invites[i].state = "pending" /\ req[w] \in Request /\ WorkerOK(w)
  BY RequestShape DEF CanUse, InviteSelected, AwaitsRow, LocksInvite, InviteLockFree
<1>2. i \in InviteIds /\ invites[i] \in Invite
  BY <1>1 DEF WorkerOK, RequestOK, RowsInv, TypeOK, NoInvite
<1>3. /\ r \in Request /\ r.op = req[w].op /\ r.tenant = invites[i].tenant
      /\ r.role = invites[i].role /\ r.email = e /\ r.invite = i /\ r.old = req[w].old
      /\ r.newUser = req[w].newUser /\ r.newMember = req[w].newMember
  BY <1>1, <1>2 DEF Request, Invite, Roles
<1>4. ~req[w].newUser /\ ~req[w].newMember /\ req[w].old = None
  BY <1>1 DEF WorkerOK, RequestOK, ReplacedOK, Using, Founding
<1>5. pc'[w] = "locked" /\ req'[w] = r /\ UNCHANGED invites
  BY DEF Advance, RowsInv, TypeOK, tables
<1>6. /\ inviteLock' \in [InviteIds -> Workers \cup {None}] /\ inviteLock'[i] = w
      /\ \A v \in Workers \ {w}, j \in InviteIds : inviteLock[j] = v => inviteLock'[j] = v
  BY <1>1, <1>2 DEF RowsInv, TypeOK
<1>7. RequestOK(w)' /\ TokenOK(w)'
  BY <1>1, <1>2, <1>3, <1>4, <1>5 DEF RequestOK, TokenOK, Using, Founding
<1>8. ReplacedOK(w)' /\ UsedOK(w)'
  BY <1>1, <1>3, <1>4, <1>5, <1>6 DEF ReplacedOK, UsedOK
<1>9. MemberOK(w)' /\ FounderOK(w)' /\ JoinedOK(w)'
  BY <1>1, <1>3, <1>4, <1>5 DEF MemberOK, FounderOK, JoinedOK, Founding
<1>10. WorkerOK(w)'
  BY <1>7, <1>8, <1>9 DEF WorkerOK
<1> HIDE DEF i, r
<1>11. Advance(w, "locked", r)
  BY DEF i, r
<1> QED
  BY <1>3, <1>6, <1>10, <1>11, AdvanceStep DEF Labels

LEMMA LockForAcceptStep ==
    ASSUME RowsInv, NEW w \in Workers, LockForAccept(w), ~AwaitsRow(w)
    PROVE  RowsInv'
<1>1. CASE RefuseInvite(w)
  BY <1>1, RefuseInviteStep
<1>2. CASE CanUse(w) /\ KeepInviteLocked(w, invites[req[w].invite].email)
  <2>1. req[w].op = "accept" /\ pc[w] = "begin" /\ invites[req[w].invite].state = "pending"
    BY <1>2 DEF LockForAccept, CanUse, InviteSelected
  <2>2. invites[req[w].invite].email \in Emails
    BY <2>1 DEF RowsInv, WorkerOK, RequestOK, TypeOK, NoInvite, Invite
  <2> QED
    BY <1>2, <2>1, <2>2, KeepInviteLockedStep
<1> QED
  BY <1>1, <1>2 DEF LockForAccept

LEMMA LockForJoinStep ==
    ASSUME RowsInv, NEW w \in Workers, LockForJoin(w), ~AwaitsRow(w)
    PROVE  RowsInv'
<1>1. CASE RefuseInvite(w)
  BY <1>1, RefuseInviteStep
<1>2. CASE Refuse(w, "forbidden")
  BY <1>2, RefuseStep DEF Replies
<1>3. CASE /\ CanUse(w) /\ EmailMatches(req[w].invite, req[w].email)
           /\ KeepInviteLocked(w, req[w].email)
  <2>1. req[w].op = "join" /\ req[w].email \in Emails
    BY DEF LockForJoin, RowsInv, WorkerOK, RequestOK
  <2> QED
    BY <1>3, <2>1, KeepInviteLockedStep DEF EmailMatches
<1> QED
  BY <1>1, <1>2, <1>3 DEF LockForJoin

(***************************************************************************)
(* The INSERTs of the three ways into a workspace, and what is looked up   *)
(* before them.                                                            *)
(***************************************************************************)

\* A handler past its first lock or INSERT goes on, and may have inserted a user or a
\* membership.
LEMMA EnterStep ==
    ASSUME RowsInv, NEW w \in Workers, Using(w) \/ Founding(w), pc[w] # "idle",
           NEW label \in {"no_account", "account", "unjoined", "joined"},
           NEW user \in BOOLEAN, NEW member \in BOOLEAN,
           Advance(w, label, [req[w] EXCEPT !.newUser = user, !.newMember = member]),
           UNCHANGED inviteLock,
           member => \/ req[w].newMember
                     \/ ~IsMember(req[w].tenant, req[w].email) /\ ~MemberInFlight(w),
           label = "joined" => member \/ IsMember(req[w].tenant, req[w].email)
    PROVE  RowsInv'
<1> DEFINE r == [req[w] EXCEPT !.newUser = user, !.newMember = member]
<1>1. req[w] \in Request /\ WorkerOK(w)
  BY RequestShape
<1>2. /\ r \in Request /\ r.op = req[w].op /\ r.tenant = req[w].tenant /\ r.role = req[w].role
      /\ r.email = req[w].email /\ r.invite = req[w].invite /\ r.old = req[w].old
      /\ r.newUser = user /\ r.newMember = member
  BY <1>1 DEF Request
<1>3. /\ pc'[w] = label /\ req'[w] = r /\ UNCHANGED tables
      /\ \A v \in Workers \ {w} : pc'[v] = pc[v] /\ req'[v] = req[v]
  BY DEF Advance, RowsInv, TypeOK
<1> HIDE DEF r
<1>4. RequestOK(w)' /\ TokenOK(w)' /\ ReplacedOK(w)' /\ UsedOK(w)'
  BY <1>1, <1>2, <1>3 DEF WorkerOK, RequestOK, TokenOK, ReplacedOK, UsedOK, Using, Founding, tables
<1>5. MemberOK(w)'
  BY <1>1, <1>2, <1>3 DEF WorkerOK, MemberOK, MemberInFlight, IsMember, tables
<1>6. FounderOK(w)'
  BY <1>1, <1>2, <1>3 DEF WorkerOK, FounderOK, Founding, Using, TenantInFlight, tables
<1>7. JoinedOK(w)'
  BY <1>2, <1>3 DEF JoinedOK, IsMember, tables
<1>8. WorkerOK(w)'
  BY <1>4, <1>5, <1>6, <1>7 DEF WorkerOK
<1>9. Advance(w, label, r)
  BY DEF r
<1> QED
  BY <1>2, <1>8, <1>9, KeepsLocks, AdvanceStep DEF Labels

\* The same with nothing inserted.
LEMMA LookUpStep ==
    ASSUME RowsInv, NEW w \in Workers, Using(w) \/ Founding(w), pc[w] # "idle",
           NEW label \in {"no_account", "account", "unjoined", "joined"},
           Advance(w, label, req[w]), UNCHANGED inviteLock,
           label = "joined" => IsMember(req[w].tenant, req[w].email)
    PROVE  RowsInv'
<1>1. req[w] \in Request
  BY RequestShape
<1>2. /\ req[w].newUser \in BOOLEAN /\ req[w].newMember \in BOOLEAN
      /\ req[w] = [req[w] EXCEPT !.newUser = req[w].newUser, !.newMember = req[w].newMember]
  BY <1>1 DEF Request
<1>3. Advance(w, label,
              [req[w] EXCEPT !.newUser = req[w].newUser, !.newMember = req[w].newMember])
  BY <1>2
<1> QED
  BY <1>2, <1>3, EnterStep

LEMMA InsertUserStep ==
    ASSUME RowsInv, NEW w \in Workers, Using(w) \/ Founding(w), pc[w] # "idle", InsertUser(w)
    PROVE  RowsInv'
<1>1. CASE Refuse(w, "duplicate")
  BY <1>1, RefuseStep DEF Replies
<1>2. CASE Advance(w, "account", [req[w] EXCEPT !.newUser = TRUE]) /\ UNCHANGED inviteLock
  <2>1. req[w] \in Request
    BY RequestShape
  <2>2. /\ req[w].newMember \in BOOLEAN
        /\ [req[w] EXCEPT !.newUser = TRUE]
              = [req[w] EXCEPT !.newUser = TRUE, !.newMember = req[w].newMember]
    BY <2>1 DEF Request
  <2> QED
    BY <1>2, <2>2, EnterStep
<1> QED
  BY <1>1, <1>2 DEF InsertUser

LEMMA InsertMemberStep ==
    ASSUME RowsInv, NEW w \in Workers, Using(w) \/ Founding(w), pc[w] # "idle", InsertMember(w),
           ~MemberInFlight(w)
    PROVE  RowsInv'
<1>1. CASE Refuse(w, "duplicate")
  BY <1>1, RefuseStep DEF Replies
<1>2. CASE /\ ~IsMember(req[w].tenant, req[w].email)
           /\ Advance(w, "joined", [req[w] EXCEPT !.newMember = TRUE])
           /\ UNCHANGED inviteLock
  <2>1. req[w] \in Request
    BY RequestShape
  <2>2. /\ req[w].newUser \in BOOLEAN
        /\ [req[w] EXCEPT !.newMember = TRUE]
              = [req[w] EXCEPT !.newUser = req[w].newUser, !.newMember = TRUE]
    BY <2>1 DEF Request
  <2> QED
    BY <1>2, <2>2, EnterStep
<1> QED
  BY <1>1, <1>2 DEF InsertMember

LEMMA FindAccountStep ==
    ASSUME RowsInv, NEW w \in Workers, FindAccount(w)
    PROVE  RowsInv'
<1>1. CASE Refuse(w, "invalid")
  BY <1>1, RefuseStep DEF Replies
<1>2. CASE /\ Advance(w, IF req[w].email \in users THEN "account" ELSE "no_account", req[w])
           /\ UNCHANGED inviteLock
  <2>1. Using(w) /\ pc[w] # "idle"
    BY DEF FindAccount, At, Using
  <2> QED
    BY <1>2, <2>1, LookUpStep
<1> QED
  BY <1>1, <1>2 DEF FindAccount

LEMMA FindMembershipStep ==
    ASSUME RowsInv, NEW w \in Workers, FindMembership(w)
    PROVE  RowsInv'
<1>1. Using(w) /\ pc[w] # "idle"
  BY DEF FindMembership, At, Using
<1> QED
  BY <1>1, LookUpStep DEF FindMembership, AlreadyIn

LEMMA InsertSteps ==
    ASSUME RowsInv, NEW w \in Workers, ~AwaitsKey(w),
           \/ CreateAccount(w) \/ JoinAccount(w) \/ RegisterAccount(w)
           \/ AddMembership(w) \/ JoinMembership(w) \/ RegisterMembership(w)
    PROVE  RowsInv'
<1>1. CASE CreateAccount(w) \/ JoinAccount(w) \/ RegisterAccount(w)
  BY <1>1, InsertUserStep DEF CreateAccount, JoinAccount, RegisterAccount, At, Using, Founding
<1>2. CASE AddMembership(w) \/ JoinMembership(w) \/ RegisterMembership(w)
  <2>1. (Using(w) \/ Founding(w)) /\ pc[w] # "idle" /\ InsertMember(w) /\ InsertsMember(w)
    BY <1>2 DEF AddMembership, JoinMembership, RegisterMembership, InsertsMember, At, Using,
       Founding
  <2> QED
    BY <2>1, InsertMemberStep DEF AwaitsKey
<1> QED
  BY <1>1, <1>2

LEMMA InsertTenantStep ==
    ASSUME RowsInv, NEW w \in Workers, InsertTenant(w), ~AwaitsKey(w)
    PROVE  RowsInv'
<1> USE DEF InsertTenant
<1>1. CASE Refuse(w, "duplicate")
  BY <1>1, RefuseStep DEF Replies
<1>2. CASE /\ req[w].tenant \notin tenants
           /\ Advance(w, "named", req[w])
           /\ UNCHANGED inviteLock
  <2>1. req[w].op = "register" /\ pc[w] = "begin" /\ req[w] \in Request /\ WorkerOK(w)
    BY RequestShape DEF At
  <2>2. /\ pc'[w] = "named" /\ req' = req /\ UNCHANGED tables
        /\ \A v \in Workers \ {w} : pc'[v] = pc[v]
    BY <1>2 DEF Advance, RowsInv, TypeOK
  <2>3. RequestOK(w)' /\ TokenOK(w)' /\ ReplacedOK(w)' /\ UsedOK(w)' /\ JoinedOK(w)'
    BY <2>1, <2>2 DEF WorkerOK, RequestOK, TokenOK, ReplacedOK, UsedOK, JoinedOK, Using, Founding,
       tables
  <2>4. MemberOK(w)'
    BY <2>1, <2>2 DEF WorkerOK, RequestOK, MemberOK, Using, Founding
  <2>5. FounderOK(w)'
    BY <1>2, <2>1, <2>2 DEF FounderOK, AwaitsKey, TenantInFlight, tables
  <2>6. WorkerOK(w)'
    BY <2>3, <2>4, <2>5 DEF WorkerOK
  <2> QED
    BY <1>2, <2>1, <2>6, KeepsLocks, AdvanceStep DEF Labels
<1> QED
  BY <1>1, <1>2

(***************************************************************************)
(* Commits.                                                                *)
(***************************************************************************)

\* What is left to show of a COMMIT: that it keeps the tables in order, and what the
\* other workers know of them.
LEMMA CommitStep ==
    ASSUME RowsInv, NEW w \in Workers, Commit(w),
           tenants' \subseteq Slugs, users' \subseteq Emails,
           members' \in [Slugs -> [Emails -> Roles \cup {"none"}]],
           invites' \in [InviteIds -> Invite \cup {NoInvite}],
           UsesOK', AcceptedMeansMember', \A v \in Workers \ {w} : WorkerOK(v)'
    PROVE  RowsInv'
<1>1. PICK code \in Replies : Finish(w, code)
  BY DEF Commit, Replies
<1>2. faults' \in 0 .. MaxFaults
  BY DEF Commit, RowsInv, TypeOK
<1>3. TypeOK'
  BY <1>1, <1>2, FinishFacts DEF TypeOK
<1>4. WorkerOK(w)'
  BY <1>1, FinishFacts, IdleOK
<1> QED
  BY <1>3, <1>4 DEF RowsInv

LEMMA CommitFacts ==
    ASSUME RowsInv, NEW w \in Workers, Commit(w)
    PROVE  /\ pc'[w] = "idle" /\ req'[w] = NoRequest
           /\ \A v \in Workers \ {w} : pc'[v] = pc[v] /\ req'[v] = req[v]
           /\ \A v \in Workers \ {w}, i \in InviteIds :
                 inviteLock[i] = v => inviteLock'[i] = v
<1>1. PICK code \in Replies : Finish(w, code)
  BY DEF Commit, Replies
<1> QED
  BY <1>1, FinishFacts

LEMMA CommitInviteStep ==
    ASSUME RowsInv, NEW w \in Workers, CommitInvite(w)
    PROVE  RowsInv'
<1> DEFINE new == [state |-> "pending", tenant |-> req[w].tenant, email |-> req[w].email,
                   role |-> req[w].role, expired |-> FALSE, uses |-> 0]
           i == req[w].invite
           o == req[w].old
<1>1. /\ req[w].op = "invite" /\ pc[w] = "written" /\ WorkerOK(w) /\ Commit(w)
      /\ UNCHANGED <<tenants, users, members>>
      /\ invites' = [Replaced(o) EXCEPT ![i] = new]
  BY RequestShape DEF CommitInvite, At
<1>2. i \in InviteIds /\ invites[i].state = "none" /\ new \in Invite
  BY <1>1 DEF WorkerOK, RequestOK, TokenOK, Invite
<1>3. o # None => /\ o \in InviteIds /\ invites[o].state # "none" /\ invites[o] \in Invite
                  /\ inviteLock[o] = w \/ invites[o].state = "deleted"
  BY <1>1 DEF WorkerOK, ReplacedOK, RowsInv, TypeOK, NoInvite
<1>4. /\ invites'[i] = new
      /\ o # None => invites'[o] = [invites[o] EXCEPT !.state = "deleted"]
      /\ \A j \in InviteIds \ {i, o} : invites'[j] = invites[j]
      /\ DOMAIN invites' = InviteIds
      /\ invites' = [j \in InviteIds |-> invites'[j]]
  <2>1. CASE o = None
    BY <1>1, <1>2, <2>1 DEF Replaced, RowsInv, TypeOK
  <2>2. CASE o # None
    <3>1. o # i
      BY <1>2, <1>3, <2>2
    <3> QED
      BY <1>1, <1>2, <1>3, <2>2, <3>1 DEF Replaced, RowsInv, TypeOK
  <2> QED
    BY <2>1, <2>2
<1>5. o # None => /\ invites'[o] \in Invite /\ invites'[o].state = "deleted"
                  /\ invites'[o].uses = invites[o].uses
  BY <1>3, <1>4 DEF Invite
<1>6. new.state = "pending" /\ new.uses = 0
  OBVIOUS
<1> HIDE DEF new, i, o
<1>7. invites' \in [InviteIds -> Invite \cup {NoInvite}]
  <2>1. \A j \in InviteIds : invites'[j] \in Invite \cup {NoInvite}
    BY <1>2, <1>4, <1>5 DEF RowsInv, TypeOK
  <2> QED
    BY <1>4, <2>1
<1>8. UsesOK'
  BY <1>2, <1>3, <1>4, <1>5, <1>6 DEF RowsInv, UsesOK
<1>9. AcceptedMeansMember'
  BY <1>1, <1>4, <1>5, <1>6 DEF RowsInv, AcceptedMeansMember, IsMember
<1>10. ASSUME NEW v \in Workers \ {w}
       PROVE  WorkerOK(v)'
  <2>1. WorkerOK(v) /\ pc'[v] = pc[v] /\ req'[v] = req[v]
        /\ \A j \in InviteIds : inviteLock[j] = v => inviteLock'[j] = v
    BY <1>1, CommitFacts DEF RowsInv
  <2>2. \A j \in InviteIds : invites[j].state # "none" => invites'[j].state # "none"
    BY <1>4, <1>5, <1>6
  <2>3. RequestOK(v)'
    BY <2>1, <2>2 DEF WorkerOK, RequestOK, Using, Founding
  <2>4. TokenOK(v)'
    <3>1. req[v].op = "invite" => req[v].invite \in InviteIds /\ req[v].invite # i
      BY <1>1, <2>1 DEF WorkerOK, RequestOK, TokenOK, i
    <3>2. req[v].op = "invite" => /\ invites[req[v].invite].state = "none"
                                  /\ \A u \in Workers \ {v} : req[u].invite # req[v].invite
      BY <2>1 DEF WorkerOK, TokenOK
    <3>3. req[v].op = "invite" => invites'[req[v].invite].state = "none"
      BY <1>3, <1>4, <3>1, <3>2
    <3>4. \A u \in Workers : req'[u] = req[u] \/ req'[u].invite = None
      BY <1>1, CommitFacts DEF NoRequest
    <3> QED
      BY <2>1, <3>1, <3>2, <3>3, <3>4 DEF TokenOK
  <2>5. ReplacedOK(v)'
    <3>1. \A j \in InviteIds : invites[j].state = "deleted" => invites'[j].state = "deleted"
      BY <1>2, <1>4, <1>5
    <3> QED
      BY <2>1, <2>2, <3>1 DEF WorkerOK, ReplacedOK
  <2>6. UsedOK(v)'
    <3>1. ASSUME Using(v) PROVE invites'[req[v].invite] = invites[req[v].invite]
      <4>1. /\ req[v].invite \in InviteIds /\ invites[req[v].invite].state = "pending"
            /\ inviteLock[req[v].invite] = v
        BY <2>1, <3>1 DEF WorkerOK, RequestOK, UsedOK, Using
      <4> QED
        BY <1>2, <1>3, <1>4, <4>1
    <3> QED
      BY <2>1, <3>1 DEF WorkerOK, RequestOK, UsedOK, Using
  <2>7. MemberOK(v)' /\ JoinedOK(v)'
    BY <1>1, <2>1, CommitFacts
    DEF WorkerOK, MemberOK, JoinedOK, MemberInFlight, IsMember, NoRequest
  <2>8. FounderOK(v)'
    BY <1>1, <2>1, CommitFacts DEF WorkerOK, FounderOK, Founding, TenantInFlight, NoRequest
  <2> QED
    BY <2>3, <2>4, <2>5, <2>6, <2>7, <2>8 DEF WorkerOK
<1> QED
  BY <1>1, <1>7, <1>8, <1>9, <1>10, CommitStep DEF RowsInv, TypeOK

\* CommitUser and CommitMember, whoever commits.
LEMMA CommitRows ==
    ASSUME RowsInv, NEW w \in Workers, CommitUser(w), CommitMember(w), Using(w) \/ Founding(w),
           pc[w] # "idle"
    PROVE  /\ users' \subseteq Emails
           /\ members' \in [Slugs -> [Emails -> Roles \cup {"none"}]]
           /\ req[w].tenant \in Slugs /\ req[w].email \in Emails /\ req[w].role \in Roles
           /\ req[w].newMember => members'[req[w].tenant][req[w].email] = req[w].role
           /\ \A t \in Slugs, e \in Emails :
                 \/ members'[t][e] = members[t][e]
                 \/ req[w].newMember /\ t = req[w].tenant /\ e = req[w].email
<1>1. req[w] \in Request /\ WorkerOK(w)
  BY RequestShape
<1>2. req[w].tenant \in Slugs /\ req[w].email \in Emails /\ req[w].role \in Roles
  <2>1. CASE Using(w)
    <3>1. /\ req[w].invite \in InviteIds /\ invites[req[w].invite].state = "pending"
          /\ invites[req[w].invite].tenant = req[w].tenant
          /\ invites[req[w].invite].role = req[w].role
          /\ req[w].op = "accept" => invites[req[w].invite].email = req[w].email
          /\ req[w].op = "join" => req[w].email \in Emails
      BY <1>1, <2>1 DEF WorkerOK, RequestOK, UsedOK, Using
    <3>2. invites[req[w].invite] \in Invite
      BY <3>1 DEF RowsInv, TypeOK, NoInvite
    <3> QED
      BY <2>1, <3>1, <3>2 DEF Invite, Roles, Using
  <2>2. CASE Founding(w)
    BY <1>1, <2>2 DEF WorkerOK, RequestOK, Founding, Roles
  <2> QED
    BY <2>1, <2>2
<1>3. users' \subseteq Emails
  BY <1>2 DEF CommitUser, RowsInv, TypeOK
<1>4. CASE req[w].newMember
  BY <1>2, <1>3, <1>4 DEF CommitMember, RowsInv, TypeOK
<1>5. CASE ~req[w].newMember
  BY <1>2, <1>3, <1>5 DEF CommitMember, RowsInv, TypeOK
<1> QED
  BY <1>4, <1>5

\* Nobody is thrown out or given another role.
LEMMA CommitKeepsRoles ==
    ASSUME RowsInv, NEW w \in Workers, CommitUser(w), CommitMember(w), Using(w) \/ Founding(w),
           pc[w] # "idle", NEW t \in Slugs, NEW e \in Emails, IsMember(t, e)
    PROVE  members'[t][e] = members[t][e]
<1>1. WorkerOK(w)
  BY DEF RowsInv
<1> QED
  BY <1>1, CommitRows DEF WorkerOK, MemberOK

\* A membership in flight elsewhere stays alone.
LEMMA CommitKeepsMembers ==
    ASSUME RowsInv, NEW w \in Workers, CommitUser(w), CommitMember(w), Using(w) \/ Founding(w),
           pc[w] # "idle", Commit(w), NEW v \in Workers \ {w}
    PROVE  MemberOK(v)' /\ JoinedOK(v)'
<1>1. WorkerOK(w) /\ WorkerOK(v)
  BY DEF RowsInv
<1>2. /\ \A t \in Slugs, e \in Emails : IsMember(t, e) => members'[t][e] = members[t][e]
      /\ \A t \in Slugs, e \in Emails :
            \/ members'[t][e] = members[t][e]
            \/ req[w].newMember /\ t = req[w].tenant /\ e = req[w].email
  BY CommitRows, CommitKeepsRoles
<1>3. /\ pc'[v] = pc[v] /\ req'[v] = req[v] /\ req'[w] = NoRequest
      /\ \A u \in Workers \ {w} : req'[u] = req[u]
  BY CommitFacts
<1>4. pc[v] # "idle" /\ (Using(v) \/ Founding(v)) =>
         req[v].tenant \in Slugs /\ req[v].email \in Emails
  BY <1>1 DEF WorkerOK, RequestOK, UsedOK, Using, Founding, RowsInv, TypeOK, Invite, NoInvite
<1>5. MemberOK(v)'
  <2>1. CASE ~req[v].newMember
    BY <1>3, <2>1 DEF MemberOK
  <2>2. CASE req[v].newMember
    <3>1. ~IsMember(req[v].tenant, req[v].email) /\ ~MemberInFlight(v)
      BY <1>1, <2>2 DEF WorkerOK, MemberOK
    <3>2. req[v].tenant \in Slugs /\ req[v].email \in Emails
      BY <1>1, <1>4, <2>2 DEF WorkerOK, RequestOK, Using, Founding
    <3>3. ~IsMember(req[v].tenant, req[v].email)'
      BY <1>2, <1>3, <3>1, <3>2 DEF IsMember, MemberInFlight
    <3>4. ~MemberInFlight(v)'
      BY <1>3, <3>1 DEF MemberInFlight, NoRequest
    <3> QED
      BY <3>3, <3>4 DEF MemberOK
  <2> QED
    BY <2>1, <2>2 DEF RowsInv, TypeOK, Request, NoRequest
<1>6. JoinedOK(v)'
  <2>1. ASSUME req[v].op = "accept", pc[v] = "joined", IsMember(req[v].tenant, req[v].email)
        PROVE  IsMember(req[v].tenant, req[v].email)'
    BY <1>2, <1>3, <1>4, <2>1 DEF IsMember, Using
  <2> QED
    BY <1>1, <1>3, <2>1 DEF WorkerOK, JoinedOK
<1> QED
  BY <1>5, <1>6

\* An invitation is used up: it has been accepted or it is deleted.
LEMMA UseInvitationStep ==
    ASSUME RowsInv, NEW w \in Workers, Using(w), pc[w] # "idle", Commit(w),
           CommitUser(w), CommitMember(w), UNCHANGED tenants,
           NEW state \in {"accepted", "deleted"},
           invites' = [invites EXCEPT ![req[w].invite].state = state,
                                      ![req[w].invite].uses = @ + 1],
           state = "accepted" => req[w].op = "accept" /\ pc[w] = "joined"
    PROVE  RowsInv'
<1> DEFINE i == req[w].invite
<1>1. /\ WorkerOK(w) /\ i \in InviteIds /\ inviteLock[i] = w /\ invites[i].state = "pending"
      /\ invites[i].tenant = req[w].tenant
      /\ req[w].op = "accept" => invites[i].email = req[w].email
  BY DEF RowsInv, WorkerOK, RequestOK, UsedOK, Using
<1>2. invites[i] \in Invite /\ invites[i].uses = 0
  BY <1>1 DEF RowsInv, TypeOK, NoInvite, UsesOK
<1>3. /\ invites'[i] \in Invite /\ invites'[i].state = state /\ invites'[i].uses = 1
      /\ invites'[i].tenant = invites[i].tenant /\ invites'[i].email = invites[i].email
      /\ \A j \in InviteIds \ {i} : invites'[j] = invites[j]
      /\ invites' \in [InviteIds -> Invite \cup {NoInvite}]
  <2>1. invites'[i] = [[invites[i] EXCEPT !.state = state] EXCEPT !.uses = invites[i].uses + 1]
    BY <1>1, <1>2 DEF RowsInv, TypeOK, Invite
  <2>2. /\ invites'[i] \in Invite /\ invites'[i].state = state /\ invites'[i].uses = 1
        /\ invites'[i].tenant = invites[i].tenant /\ invites'[i].email = invites[i].email
    <3> DEFINE old == invites[i]
               new == invites'[i]
    <3>1. old \in Invite /\ old.uses = 0
          /\ new = [[old EXCEPT !.state = state] EXCEPT !.uses = old.uses + 1]
      BY <1>2, <2>1
    <3> HIDE DEF old, new
    <3>2. old.uses + 1 = 1
      BY <3>1
    <3>3. new = [[old EXCEPT !.state = state] EXCEPT !.uses = 1]
      BY <3>1, <3>2
    <3>4. /\ old.tenant \in Slugs /\ old.email \in Emails /\ old.role \in InviteRoles
          /\ old.expired \in BOOLEAN
          /\ old = [state |-> old.state, tenant |-> old.tenant, email |-> old.email,
                    role |-> old.role, expired |-> old.expired, uses |-> old.uses]
      BY <3>1 DEF Invite
    <3>5. new = [state |-> state, tenant |-> old.tenant, email |-> old.email, role |-> old.role,
                 expired |-> old.expired, uses |-> 1]
      BY <3>3, <3>4
    <3>6. /\ new \in Invite /\ new.state = state /\ new.uses = 1
          /\ new.tenant = old.tenant /\ new.email = old.email
      BY <3>4, <3>5 DEF Invite
    <3> QED
      BY <3>6 DEF old, new
  <2>3. \A j \in InviteIds \ {i} : invites'[j] = invites[j]
    BY DEF RowsInv, TypeOK
  <2>4. invites' = [j \in InviteIds |-> invites'[j]]
    BY DEF RowsInv, TypeOK
  <2>5. \A j \in InviteIds : invites'[j] \in Invite \cup {NoInvite}
    BY <2>2, <2>3 DEF RowsInv, TypeOK
  <2> QED
    BY <2>2, <2>3, <2>4, <2>5
<1>4. UsesOK'
  BY <1>3 DEF RowsInv, UsesOK
<1>5. AcceptedMeansMember'
  <2>1. \A t \in Slugs, e \in Emails : IsMember(t, e) => IsMember(t, e)'
    <3>1. \A t \in Slugs, e \in Emails :
             \/ members'[t][e] = members[t][e]
             \/ members'[t][e] = req[w].role /\ req[w].role \in Roles
      BY CommitRows
    <3>2. "none" \notin Roles
      BY DEF Roles
    <3> QED
      BY <3>1, <3>2 DEF IsMember
  <2>2. ASSUME NEW j \in InviteIds, invites'[j].state = "accepted"
        PROVE  IsMember(invites[j].tenant, invites[j].email)'
    <3>1. CASE j = i
      <4>1. req[w].op = "accept" /\ pc[w] = "joined"
        BY <1>3, <2>2, <3>1
      <4>2. req[w].newMember \/ IsMember(req[w].tenant, req[w].email)
        BY <1>1, <4>1 DEF WorkerOK, JoinedOK
      <4>3. /\ req[w].tenant \in Slugs /\ req[w].email \in Emails /\ req[w].role # "none"
            /\ req[w].newMember => members'[req[w].tenant][req[w].email] = req[w].role
        BY CommitRows DEF Roles
      <4>4. members'[req[w].tenant][req[w].email] # "none"
        <5>1. CASE req[w].newMember
          BY <4>3, <5>1
        <5>2. CASE ~req[w].newMember
          BY <2>1, <4>2, <4>3, <5>2 DEF IsMember
        <5> QED
          BY <5>1, <5>2
      <4>5. invites'[j].tenant = req[w].tenant /\ invites'[j].email = req[w].email
        BY <1>1, <1>3, <3>1, <4>1
      <4> QED
        BY <4>4, <4>5 DEF IsMember
    <3>2. CASE j # i
      <4>1. invites'[j] = invites[j] /\ invites[j] \in Invite
        BY <1>3, <2>2, <3>2 DEF RowsInv, TypeOK, NoInvite
      <4>2. invites[j].tenant \in Slugs /\ invites[j].email \in Emails
        BY <4>1 DEF Invite
      <4> QED
        BY <2>1, <2>2, <4>1, <4>2 DEF RowsInv, AcceptedMeansMember
    <3> QED
      BY <3>1, <3>2
  <2> QED
    BY <2>2 DEF AcceptedMeansMember
<1>6. ASSUME NEW v \in Workers \ {w}
      PROVE  WorkerOK(v)'
  <2>1. WorkerOK(v) /\ pc'[v] = pc[v] /\ req'[v] = req[v] /\ req'[w] = NoRequest
        /\ (\A u \in Workers \ {w} : pc'[u] = pc[u] /\ req'[u] = req[u])
        /\ \A j \in InviteIds : inviteLock[j] = v => inviteLock'[j] = v
    BY CommitFacts DEF RowsInv
  <2>2. \A j \in InviteIds : /\ invites[j].state # "none" => invites'[j].state # "none"
                             /\ invites[j].state = "none" => invites'[j].state = "none"
                             /\ invites[j].state = "deleted" => invites'[j].state = "deleted"
    BY <1>1, <1>3
  <2>3. RequestOK(v)'
    BY <2>1, <2>2 DEF WorkerOK, RequestOK, Using, Founding
  <2>4. TokenOK(v)'
    <3>1. req[v].op = "invite" => /\ req[v].invite \in InviteIds
                                  /\ invites[req[v].invite].state = "none"
                                  /\ \A u \in Workers \ {v} : req[u].invite # req[v].invite
      BY <2>1 DEF WorkerOK, RequestOK, TokenOK
    <3>2. \A u \in Workers : req'[u] = req[u] \/ req'[u].invite = None
      BY <2>1 DEF NoRequest
    <3>3. req'[v] = req[v] /\ None \notin InviteIds
      BY <2>1
    <3>4. req[v].op = "invite" => \A u \in Workers \ {v} : req'[u].invite # req'[v].invite
      BY <3>1, <3>2, <3>3
    <3>5. req[v].op = "invite" => invites'[req'[v].invite].state = "none"
      BY <2>2, <3>1, <3>3
    <3> QED
      BY <3>3, <3>4, <3>5 DEF TokenOK
  <2>5. ReplacedOK(v)'
    BY <2>1, <2>2 DEF WorkerOK, ReplacedOK
  <2>6. UsedOK(v)'
    <3>1. ASSUME Using(v) PROVE invites'[req[v].invite] = invites[req[v].invite]
      BY <1>1, <1>3, <2>1, <3>1 DEF WorkerOK, RequestOK, UsedOK, Using
    <3> QED
      BY <2>1, <3>1 DEF WorkerOK, RequestOK, UsedOK, Using
  <2>7. MemberOK(v)' /\ JoinedOK(v)'
    BY CommitKeepsMembers
  <2>8. FounderOK(v)'
    BY <2>1 DEF WorkerOK, FounderOK, Founding, TenantInFlight, NoRequest
  <2> QED
    BY <2>3, <2>4, <2>5, <2>6, <2>7, <2>8 DEF WorkerOK
<1>7. /\ tenants' \subseteq Slugs /\ users' \subseteq Emails
      /\ members' \in [Slugs -> [Emails -> Roles \cup {"none"}]]
  BY CommitRows DEF RowsInv, TypeOK
<1> QED
  BY <1>3, <1>4, <1>5, <1>6, <1>7, CommitStep

LEMMA CommitAcceptStep ==
    ASSUME RowsInv, NEW w \in Workers, CommitAccept(w)
    PROVE  RowsInv'
BY UseInvitationStep DEF CommitAccept, At, Using

LEMMA CommitJoinStep ==
    ASSUME RowsInv, NEW w \in Workers, CommitJoin(w)
    PROVE  RowsInv'
BY UseInvitationStep DEF CommitJoin, At, Using

LEMMA CommitRegisterStep ==
    ASSUME RowsInv, NEW w \in Workers, CommitRegister(w)
    PROVE  RowsInv'
<1>1. /\ Founding(w) /\ pc[w] # "idle" /\ WorkerOK(w) /\ Commit(w) /\ CommitUser(w)
      /\ CommitMember(w) /\ UNCHANGED invites /\ tenants' = tenants \cup {req[w].tenant}
  BY DEF CommitRegister, At, Founding, RowsInv
<1>2. /\ tenants' \subseteq Slugs /\ users' \subseteq Emails
      /\ members' \in [Slugs -> [Emails -> Roles \cup {"none"}]]
  BY <1>1, CommitRows DEF RowsInv, TypeOK
<1>3. UsesOK'
  BY <1>1 DEF RowsInv, UsesOK
<1>4. AcceptedMeansMember'
  <2>1. \A t \in Slugs, e \in Emails :
           \/ members'[t][e] = members[t][e]
           \/ members'[t][e] = req[w].role /\ req[w].role \in Roles
    BY <1>1, CommitRows
  <2>2. "none" \notin Roles
    BY DEF Roles
  <2>3. \A j \in InviteIds : invites[j].state = "accepted" =>
           invites[j].tenant \in Slugs /\ invites[j].email \in Emails
    BY DEF RowsInv, TypeOK, NoInvite, Invite
  <2> QED
    BY <1>1, <2>1, <2>2, <2>3 DEF RowsInv, AcceptedMeansMember, IsMember
<1>5. ASSUME NEW v \in Workers \ {w}
      PROVE  WorkerOK(v)'
  <2>1. WorkerOK(v) /\ pc'[v] = pc[v] /\ req'[v] = req[v] /\ req'[w] = NoRequest
        /\ (\A u \in Workers \ {w} : pc'[u] = pc[u] /\ req'[u] = req[u])
        /\ \A j \in InviteIds : inviteLock[j] = v => inviteLock'[j] = v
    BY <1>1, CommitFacts DEF RowsInv
  <2>2. RequestOK(v)' /\ TokenOK(v)'
    BY <1>1, <2>1 DEF WorkerOK, RequestOK, TokenOK, Using, Founding, NoRequest
  <2>3. ReplacedOK(v)' /\ UsedOK(v)'
    BY <1>1, <2>1 DEF WorkerOK, RequestOK, ReplacedOK, UsedOK, Using
  <2>4. MemberOK(v)' /\ JoinedOK(v)'
    BY <1>1, CommitKeepsMembers
  <2>5. FounderOK(v)'
    BY <1>1, <2>1 DEF WorkerOK, FounderOK, Founding, TenantInFlight, NoRequest
  <2> QED
    BY <2>2, <2>3, <2>4, <2>5 DEF WorkerOK
<1> QED
  BY <1>1, <1>2, <1>3, <1>4, <1>5, CommitStep DEF RowsInv, TypeOK

(***************************************************************************)
(* The invariant.                                                          *)
(***************************************************************************)

\* An expired invitation is still the same invitation.
LEMMA ExpireStep ==
    ASSUME RowsInv, NEW i \in InviteIds, Expire(i)
    PROVE  RowsInv'
<1>1. /\ invites[i].state = "pending"
      /\ invites' = [invites EXCEPT ![i].expired = TRUE]
      /\ UNCHANGED <<tenants, users, members, inviteLock, pc, req, reply, faults>>
  BY DEF Expire
<1>2. invites[i] \in Invite
  BY <1>1 DEF RowsInv, TypeOK, NoInvite
<1>3. /\ invites' \in [InviteIds -> Invite \cup {NoInvite}]
      /\ \A j \in InviteIds : /\ invites'[j].state = invites[j].state
                               /\ invites'[j].tenant = invites[j].tenant
                               /\ invites'[j].email = invites[j].email
                               /\ invites'[j].role = invites[j].role
                               /\ invites'[j].uses = invites[j].uses
  <2>1. invites'[i] = [invites[i] EXCEPT !.expired = TRUE]
        /\ \A j \in InviteIds \ {i} : invites'[j] = invites[j]
    BY <1>1 DEF RowsInv, TypeOK
  <2>2. /\ invites'[i] \in Invite /\ invites'[i].state = invites[i].state
        /\ invites'[i].tenant = invites[i].tenant /\ invites'[i].email = invites[i].email
        /\ invites'[i].role = invites[i].role /\ invites'[i].uses = invites[i].uses
    BY <1>2, <2>1 DEF Invite
  <2>3. invites' = [j \in InviteIds |-> invites'[j]]
    BY <1>1 DEF RowsInv, TypeOK
  <2>4. \A j \in InviteIds : invites'[j] \in Invite \cup {NoInvite}
    BY <2>1, <2>2 DEF RowsInv, TypeOK
  <2> QED
    BY <2>1, <2>2, <2>3, <2>4
<1>4. TypeOK'
  BY <1>1, <1>3 DEF RowsInv, TypeOK
<1>5. UsesOK' /\ AcceptedMeansMember'
  BY <1>1, <1>3 DEF RowsInv, UsesOK, AcceptedMeansMember, IsMember
<1>6. ASSUME NEW w \in Workers
      PROVE  WorkerOK(w)'
  <2>1. WorkerOK(w)
    BY DEF RowsInv
  <2>2. RequestOK(w)' /\ TokenOK(w)' /\ ReplacedOK(w)'
    BY <1>1, <1>3, <2>1 DEF WorkerOK, RequestOK, TokenOK, ReplacedOK, Using, Founding
  <2>3. UsedOK(w)'
    BY <1>1, <1>3, <2>1 DEF WorkerOK, RequestOK, UsedOK, Using
  <2>4. MemberOK(w)' /\ FounderOK(w)' /\ JoinedOK(w)'
    BY <1>1, <2>1 DEF WorkerOK, MemberOK, FounderOK, JoinedOK, MemberInFlight, TenantInFlight,
       IsMember, Founding
  <2> QED
    BY <2>2, <2>3, <2>4 DEF WorkerOK
<1> QED
  BY <1>4, <1>5, <1>6 DEF RowsInv

LEMMA FailStep ==
    ASSUME RowsInv, NEW w \in Workers, Fail(w)
    PROVE  RowsInv'
<1>1. Finish(w, "fault") /\ "fault" \in Replies /\ UNCHANGED tables
  BY DEF Fail, Replies
<1>2. faults' \in 0 .. MaxFaults
  BY DEF Fail, RowsInv, TypeOK
<1> QED
  BY <1>1, <1>2, FinishStep

LEMMA StutterStep ==
    ASSUME RowsInv, UNCHANGED dirVars
    PROVE  RowsInv'
<1> USE DEF dirVars, tables
<1>1. TypeOK' /\ UsesOK' /\ AcceptedMeansMember'
  BY DEF RowsInv, TypeOK, UsesOK, AcceptedMeansMember, IsMember
<1>2. \A w \in Workers : WorkerOK(w)'
  BY DEF RowsInv, WorkerOK, RequestOK, TokenOK, ReplacedOK, UsedOK, MemberOK, FounderOK, JoinedOK,
     MemberInFlight, TenantInFlight, IsMember, Using, Founding
<1> QED
  BY <1>1, <1>2 DEF RowsInv

LEMMA NextRowsInv == RowsInv /\ [Next]_dirVars => RowsInv'
<1> SUFFICES ASSUME RowsInv, [Next]_dirVars PROVE RowsInv'
  OBVIOUS
<1>1. ASSUME NEW w \in Workers, Arrive(w) PROVE RowsInv'
  BY <1>1, RequestInviteStep, RequestAcceptStep, RequestJoinStep, RequestRegisterStep DEF Arrive
<1>2. ASSUME NEW w \in Workers, ~Waits(w), InvitationStep(w) PROVE RowsInv'
  BY <1>2, FindInviteeStep, CheckMemberStep, FindPendingStep, DeletePendingStep, CommitInviteStep,
     LockForAcceptStep, FindAccountStep, InsertSteps, FindMembershipStep, CommitAcceptStep
  DEF InvitationStep, Waits
<1>3. ASSUME NEW w \in Workers, ~Waits(w), OnboardingStep(w) PROVE RowsInv'
  BY <1>3, LockForJoinStep, InsertSteps, CommitJoinStep, InsertTenantStep, CommitRegisterStep
  DEF OnboardingStep, Waits
<1>4. ASSUME NEW w \in Workers, Fail(w) PROVE RowsInv'
  BY <1>4, FailStep
<1>5. ASSUME NEW i \in InviteIds, Expire(i) PROVE RowsInv'
  BY <1>5, ExpireStep
<1>6. CASE UNCHANGED dirVars
  BY <1>6, StutterStep
<1> QED
  BY <1>1, <1>2, <1>3, <1>4, <1>5, <1>6 DEF Next, Handle

\* What the handlers know holds in every reachable state.
LEMMA RowsAreKnown == Spec => []RowsInv
<1> QED
  BY InitRowsInv, NextRowsInv, PTL DEF Spec

(***************************************************************************)
(* The order of locks and keys.                                            *)
(***************************************************************************)

LEMMA InitOrderInv == Init => OrderInv
BY DEF Init, OrderInv, StageOK, LockOK, NoRequest, At

\* What a step of worker w has to keep: its own stage and the locks it holds.
LEMMA OrderStep ==
    ASSUME RowsInv, OrderInv, NEW w \in Workers, NEW label \in Labels,
           NEW r \in Request \cup {NoRequest},
           pc' = [pc EXCEPT ![w] = label], req' = [req EXCEPT ![w] = r], StageOK(w)',
           \A i \in InviteIds :
              \/ inviteLock'[i] = None
              \/ inviteLock'[i] = inviteLock[i] /\ inviteLock[i] # w
              \/ /\ inviteLock'[i] = w
                 /\ \/ Using(w)' /\ r.invite = i
                    \/ At(w, "invite", "written")' /\ r.old = i
    PROVE  OrderInv'
<1>1. /\ pc'[w] = label /\ req'[w] = r
      /\ \A v \in Workers \ {w} : pc'[v] = pc[v] /\ req'[v] = req[v]
  BY DEF RowsInv, TypeOK
<1>2. ASSUME NEW v \in Workers PROVE StageOK(v)'
  <2>1. CASE v = w
    BY <2>1
  <2>2. CASE v # w
    BY <1>1, <2>2 DEF OrderInv, StageOK, At
  <2> QED
    BY <2>1, <2>2
<1>3. ASSUME NEW i \in InviteIds PROVE LockOK(i)'
  <2>1. CASE inviteLock'[i] = inviteLock[i] /\ inviteLock[i] # w
    BY <1>1, <2>1 DEF OrderInv, LockOK, Using, At
  <2>2. CASE inviteLock'[i] = w
    BY <1>1, <2>2 DEF LockOK, OrderInv, Using, At
  <2> QED
    BY <2>1, <2>2 DEF LockOK
<1> QED
  BY <1>2, <1>3 DEF OrderInv

\* A worker that is about to lock an invitation, or idle, has none locked.
LEMMA NoLockYet ==
    ASSUME RowsInv, OrderInv, NEW w \in Workers, pc[w] \in {"idle", "begin", "replacing"},
           NEW i \in InviteIds
    PROVE  inviteLock[i] # w
<1>1. pc[w] = "idle" => req[w].op = "none"
  BY DEF RowsInv, WorkerOK, RequestOK
<1>2. req[w].op \in {"accept", "join"} => pc[w] # "replacing"
  BY DEF OrderInv, StageOK, At
<1> QED
  BY <1>1, <1>2 DEF OrderInv, LockOK, Using, At

LEMMA FinishOrder ==
    ASSUME RowsInv, OrderInv, NEW w \in Workers, NEW code \in Replies, Finish(w, code)
    PROVE  OrderInv'
<1>1. /\ pc' = [pc EXCEPT ![w] = "idle"] /\ req' = [req EXCEPT ![w] = NoRequest]
      /\ pc'[w] = "idle" /\ req'[w] = NoRequest
  BY FinishFacts
<1>2. StageOK(w)'
  BY <1>1 DEF StageOK, NoRequest, At
<1>3. \A i \in InviteIds :
         \/ inviteLock'[i] = None
         \/ inviteLock'[i] = inviteLock[i] /\ inviteLock[i] # w
  <2>1. inviteLock' = [i \in InviteIds |-> IF inviteLock[i] = w THEN None ELSE inviteLock[i]]
    BY DEF Finish
  <2> QED
    BY <2>1
<1>4. "idle" \in Labels /\ NoRequest \in Request \cup {NoRequest}
  BY DEF Labels
<1> QED
  BY <1>1, <1>2, <1>3, <1>4, OrderStep

LEMMA RefuseOrder ==
    ASSUME RowsInv, OrderInv, NEW w \in Workers, NEW code \in Replies, Refuse(w, code)
    PROVE  OrderInv'
BY FinishOrder DEF Refuse

LEMMA CommitOrder ==
    ASSUME RowsInv, OrderInv, NEW w \in Workers, Commit(w)
    PROVE  OrderInv'
BY FinishOrder DEF Commit, Replies

LEMMA BeginOrder ==
    ASSUME RowsInv, OrderInv, NEW w \in Workers, NEW r \in Request, Begin(w, r),
           ~r.newUser, ~r.newMember
    PROVE  OrderInv'
<1>1. /\ pc[w] = "idle" /\ pc' = [pc EXCEPT ![w] = "begin"] /\ req' = [req EXCEPT ![w] = r]
      /\ pc'[w] = "begin" /\ req'[w] = r /\ inviteLock' = inviteLock
  BY DEF Begin, RowsInv, TypeOK
<1>2. StageOK(w)'
  BY <1>1 DEF StageOK, At
<1>3. \A i \in InviteIds : inviteLock'[i] = inviteLock[i] /\ inviteLock[i] # w
  BY <1>1, NoLockYet
<1> QED
  BY <1>1, <1>2, <1>3, OrderStep DEF Labels

\* A statement that takes no lock: what is locked already stays in use.
LEMMA AdvanceOrder ==
    ASSUME RowsInv, OrderInv, NEW w \in Workers, NEW label \in Labels \ {"begin"},
           NEW r \in Request, Advance(w, label, r), UNCHANGED inviteLock, pc[w] # "written",
           r.op = req[w].op, r.invite = req[w].invite, StageOK(w)'
    PROVE  OrderInv'
<1>1. /\ pc' = [pc EXCEPT ![w] = label] /\ req' = [req EXCEPT ![w] = r]
      /\ pc'[w] = label /\ req'[w] = r
  BY DEF Advance, RowsInv, TypeOK
<1>2. ASSUME NEW i \in InviteIds, inviteLock[i] = w PROVE Using(w)' /\ r.invite = i
  BY <1>1, <1>2 DEF OrderInv, LockOK, RowsInv, TypeOK, Using, At
<1>3. \A i \in InviteIds :
         \/ inviteLock'[i] = inviteLock[i] /\ inviteLock[i] # w
         \/ inviteLock'[i] = w /\ Using(w)' /\ r.invite = i
  BY <1>2
<1> QED
  BY <1>1, <1>3, OrderStep

LEMMA ArriveOrder ==
    ASSUME RowsInv, OrderInv, NEW w \in Workers, Arrive(w)
    PROVE  OrderInv'
<1>1. CASE RequestInvite(w)
  <2>1. PICK t \in tenants, e \in Emails, r \in Roles, i \in InviteIds :
           Begin(w, [NoRequest EXCEPT !.op = "invite", !.tenant = t, !.email = e,
                                      !.role = TargetRole(r), !.invite = i])
    BY <1>1 DEF RequestInvite
  <2> DEFINE q == [NoRequest EXCEPT !.op = "invite", !.tenant = t, !.email = e,
                                    !.role = TargetRole(r), !.invite = i]
  <2>2. TargetRole(r) \in InviteRoles /\ t \in Slugs
    BY DEF TargetRole, RowsInv, TypeOK
  <2>3. q \in Request /\ ~q.newUser /\ ~q.newMember
    BY <2>2 DEF Request, NoRequest, Ops, Roles
  <2> QED
    BY <2>1, <2>3, BeginOrder
<1>2. CASE RequestAccept(w)
  <2>1. PICK i \in InviteIds, p \in BOOLEAN :
           Begin(w, [NoRequest EXCEPT !.op = "accept", !.invite = i, !.password = p])
    BY <1>2 DEF RequestAccept
  <2> DEFINE q == [NoRequest EXCEPT !.op = "accept", !.invite = i, !.password = p]
  <2>2. q \in Request /\ ~q.newUser /\ ~q.newMember
    BY DEF Request, NoRequest, Ops, Roles
  <2> QED
    BY <2>1, <2>2, BeginOrder
<1>3. CASE RequestJoin(w)
  <2>1. PICK i \in InviteIds, e \in Emails :
           Begin(w, [NoRequest EXCEPT !.op = "join", !.invite = i, !.email = e])
    BY <1>3 DEF RequestJoin
  <2> DEFINE q == [NoRequest EXCEPT !.op = "join", !.invite = i, !.email = e]
  <2>2. q \in Request /\ ~q.newUser /\ ~q.newMember
    BY DEF Request, NoRequest, Ops, Roles
  <2> QED
    BY <2>1, <2>2, BeginOrder
<1>4. CASE RequestRegister(w)
  <2>1. PICK t \in Slugs, e \in Emails :
           Begin(w, [NoRequest EXCEPT !.op = "register", !.tenant = t, !.email = e,
                                      !.role = "tenant_admin"])
    BY <1>4 DEF RequestRegister
  <2> DEFINE q == [NoRequest EXCEPT !.op = "register", !.tenant = t, !.email = e,
                                    !.role = "tenant_admin"]
  <2>2. q \in Request /\ ~q.newUser /\ ~q.newMember
    BY DEF Request, NoRequest, Ops, Roles
  <2> QED
    BY <2>1, <2>2, BeginOrder
<1> QED
  BY <1>1, <1>2, <1>3, <1>4 DEF Arrive

LEMMA InviteOrder ==
    ASSUME RowsInv, OrderInv, NEW w \in Workers, req[w].op = "invite", pc[w] # "idle",
           \/ FindInvitee(w) \/ CheckMember(w) \/ FindPending(w) \/ DeletePending(w)
    PROVE  OrderInv'
<1>1. req[w] \in Request /\ ~req[w].newUser /\ ~req[w].newMember
  BY RequestShape DEF WorkerOK, RequestOK, Using, Founding
<1>2. ASSUME NEW label \in {"account", "checked", "written"}, Advance(w, label, req[w]),
             UNCHANGED inviteLock, pc[w] # "written"
      PROVE  OrderInv'
  <2>1. pc'[w] = label /\ req'[w] = req[w]
    BY <1>2 DEF Advance, RowsInv, TypeOK
  <2>2. StageOK(w)'
    BY <1>1, <2>1 DEF StageOK, At
  <2> QED
    BY <1>1, <1>2, <2>2, AdvanceOrder DEF Labels
<1>3. CASE FindInvitee(w)
  BY <1>2, <1>3 DEF FindInvitee, At
<1>4. CASE CheckMember(w)
  <2>1. CASE Refuse(w, "conflict")
    BY <2>1, RefuseOrder DEF Replies
  <2> QED
    BY <1>2, <1>4, <2>1 DEF CheckMember, At
<1>5. CASE FindPending(w)
  <2>1. ASSUME NEW i \in InviteIds, Advance(w, "replacing", [req[w] EXCEPT !.old = i])
        PROVE  OrderInv'
    <3>1. PICK r : r = [req[w] EXCEPT !.old = i]
      OBVIOUS
    <3>2. /\ r \in Request /\ r.op = req[w].op /\ r.invite = req[w].invite
          /\ ~r.newUser /\ ~r.newMember /\ r.old = i
      BY <1>1, <3>1 DEF Request
    <3>3. pc'[w] = "replacing" /\ req'[w] = r
      BY <2>1, <3>1 DEF Advance, RowsInv, TypeOK
    <3>4. StageOK(w)'
      BY <2>1, <3>2, <3>3 DEF StageOK, At
    <3>5. pc[w] # "written" /\ UNCHANGED inviteLock /\ Advance(w, "replacing", r)
      BY <1>5, <2>1, <3>1 DEF FindPending, At
    <3> QED
      BY <3>2, <3>4, <3>5, AdvanceOrder DEF Labels
  <2> QED
    BY <1>2, <1>5, <2>1 DEF FindPending, PendingFor, At
<1>6. CASE DeletePending(w)
  <2>1. /\ pc[w] = "replacing"
        /\ pc' = [pc EXCEPT ![w] = "written"] /\ req' = [req EXCEPT ![w] = req[w]]
        /\ pc'[w] = "written" /\ req'[w] = req[w]
    BY <1>6 DEF DeletePending, Advance, At, RowsInv, TypeOK
  <2>2. StageOK(w)' /\ At(w, "invite", "written")'
    BY <1>1, <2>1 DEF StageOK, At
  <2>3. \A i \in InviteIds :
           \/ inviteLock'[i] = inviteLock[i] /\ inviteLock[i] # w
           \/ inviteLock'[i] = w /\ req[w].old = i
    BY <1>6, <2>1, NoLockYet DEF DeletePending, RowsInv, TypeOK
  <2>4. PICK r : r = req[w]
    OBVIOUS
  <2>5. /\ "written" \in Labels /\ r \in Request \cup {NoRequest}
        /\ req' = [req EXCEPT ![w] = r]
        /\ \A i \in InviteIds :
              \/ inviteLock'[i] = None
              \/ inviteLock'[i] = inviteLock[i] /\ inviteLock[i] # w
              \/ /\ inviteLock'[i] = w
                 /\ \/ Using(w)' /\ r.invite = i
                    \/ At(w, "invite", "written")' /\ r.old = i
    BY <1>1, <2>1, <2>2, <2>3, <2>4 DEF Labels
  <2> QED
    BY <2>1, <2>2, <2>5, OrderStep
<1> QED
  BY <1>3, <1>4, <1>5, <1>6

\* The opening of acceptInvitation and of onboarding by token.
LEMMA OpenOrder ==
    ASSUME RowsInv, OrderInv, NEW w \in Workers, LockForAccept(w) \/ LockForJoin(w)
    PROVE  OrderInv'
<1>1. CASE RefuseInvite(w)
  BY <1>1, RefuseOrder DEF RefuseInvite, Replies
<1>2. CASE Refuse(w, "forbidden")
  BY <1>2, RefuseOrder DEF Replies
<1>3. ASSUME NEW e \in Emails, CanUse(w), KeepInviteLocked(w, e)
      PROVE  OrderInv'
  <2> DEFINE i == req[w].invite
  <2>1. PICK r : r = [req[w] EXCEPT !.tenant = invites[i].tenant, !.role = invites[i].role,
                                    !.email = e]
    OBVIOUS
  <2>2. /\ pc[w] = "begin" /\ invites[i].state = "pending" /\ req[w].op \in {"accept", "join"}
        /\ req[w] \in Request /\ WorkerOK(w)
    BY <1>3, RequestShape DEF CanUse, InviteSelected, LockForAccept, LockForJoin
  <2>3. i \in InviteIds /\ invites[i] \in Invite
    BY <2>2 DEF WorkerOK, RequestOK, RowsInv, TypeOK, NoInvite
  <2>4. /\ r \in Request /\ r.op = req[w].op /\ r.invite = i
        /\ r.newUser = req[w].newUser /\ r.newMember = req[w].newMember
    BY <2>1, <2>2, <2>3 DEF Request, Invite, Roles
  <2>5. ~req[w].newUser /\ ~req[w].newMember
    BY <2>2 DEF WorkerOK, RequestOK, Using, Founding
  <2>6. /\ pc' = [pc EXCEPT ![w] = "locked"] /\ req' = [req EXCEPT ![w] = r]
        /\ pc'[w] = "locked" /\ req'[w] = r
    BY <1>3, <2>1 DEF KeepInviteLocked, Advance, RowsInv, TypeOK
  <2>7. StageOK(w)' /\ Using(w)'
    BY <2>2, <2>4, <2>5, <2>6 DEF StageOK, Using, At
  <2>8. \A j \in InviteIds :
           \/ inviteLock'[j] = inviteLock[j] /\ inviteLock[j] # w
           \/ inviteLock'[j] = w /\ r.invite = j
    BY <1>3, <2>2, <2>3, <2>4, NoLockYet DEF KeepInviteLocked, RowsInv, TypeOK
  <2>9. /\ "locked" \in Labels /\ r \in Request \cup {NoRequest}
        /\ \A j \in InviteIds :
              \/ inviteLock'[j] = None
              \/ inviteLock'[j] = inviteLock[j] /\ inviteLock[j] # w
              \/ /\ inviteLock'[j] = w
                 /\ \/ Using(w)' /\ r.invite = j
                    \/ At(w, "invite", "written")' /\ r.old = j
    BY <2>4, <2>7, <2>8 DEF Labels
  <2> HIDE DEF i
  <2> QED
    BY <2>6, <2>7, <2>9, OrderStep
<1>4. LockForAccept(w) => \/ RefuseInvite(w)
                          \/ CanUse(w) /\ KeepInviteLocked(w, invites[req[w].invite].email)
  BY DEF LockForAccept
<1>5. CASE /\ LockForAccept(w) /\ CanUse(w)
           /\ KeepInviteLocked(w, invites[req[w].invite].email)
  <2>1. invites[req[w].invite].email \in Emails
    BY <1>5 DEF LockForAccept, CanUse, InviteSelected, RowsInv, WorkerOK, RequestOK, TypeOK,
       NoInvite, Invite
  <2> QED
    BY <1>3, <1>5, <2>1
<1>6. CASE LockForJoin(w) /\ CanUse(w) /\ KeepInviteLocked(w, req[w].email)
  <2>1. req[w].email \in Emails
    BY <1>6 DEF LockForJoin, RowsInv, WorkerOK, RequestOK
  <2> QED
    BY <1>3, <1>6, <2>1
<1> QED
  BY <1>1, <1>2, <1>4, <1>5, <1>6 DEF LockForJoin

\* The statements after it, and those that found a workspace.
LEMMA EnterOrder ==
    ASSUME RowsInv, OrderInv, NEW w \in Workers, req[w].op \in {"accept", "join", "register"},
           pc[w] # "idle", NEW label \in Labels,
           NEW user \in BOOLEAN, NEW member \in BOOLEAN,
           Advance(w, label, [req[w] EXCEPT !.newUser = user, !.newMember = member]),
           UNCHANGED inviteLock,
           \/ label = "account"
           \/ label = "joined"
           \/ label \in {"unjoined", "no_account"} /\ req[w].op = "accept"
           \/ label = "named" /\ req[w].op = "register",
           user => label \in {"account", "unjoined", "joined"},
           member => label = "joined"
    PROVE  OrderInv'
<1>1. PICK r : r = [req[w] EXCEPT !.newUser = user, !.newMember = member]
  OBVIOUS
<1>2. req[w] \in Request
  BY RequestShape
<1>3. /\ r \in Request /\ r.op = req[w].op /\ r.invite = req[w].invite
      /\ r.newUser = user /\ r.newMember = member
  BY <1>1, <1>2 DEF Request
<1>4. pc'[w] = label /\ req'[w] = r /\ Advance(w, label, r)
  BY <1>1 DEF Advance, RowsInv, TypeOK
<1>5. StageOK(w)'
  BY <1>3, <1>4 DEF StageOK, At
<1>6. pc[w] # "written"
  BY DEF OrderInv, StageOK, At
<1> QED
  BY <1>3, <1>4, <1>5, <1>6, AdvanceOrder

LEMMA EnterOrderSteps ==
    ASSUME RowsInv, OrderInv, NEW w \in Workers,
           \/ FindAccount(w) \/ CreateAccount(w) \/ FindMembership(w) \/ AddMembership(w)
           \/ JoinAccount(w) \/ JoinMembership(w)
           \/ InsertTenant(w) \/ RegisterAccount(w) \/ RegisterMembership(w)
    PROVE  OrderInv'
<1>1. req[w].op \in {"accept", "join", "register"} /\ pc[w] # "idle"
  BY DEF FindAccount, CreateAccount, FindMembership, AddMembership, JoinAccount, JoinMembership,
     InsertTenant, RegisterAccount, RegisterMembership, At
<1>2. req[w] \in Request /\ StageOK(w)
  BY <1>1, RequestShape DEF OrderInv
<1>3. \A code \in Replies : Refuse(w, code) => OrderInv'
  BY RefuseOrder
<1>4. ASSUME NEW label \in Labels, Advance(w, label, req[w]), UNCHANGED inviteLock,
             \/ label \in {"account", "no_account"} /\ At(w, "accept", "locked")
             \/ label \in {"unjoined", "joined"} /\ At(w, "accept", "account")
             \/ label = "named" /\ At(w, "register", "begin")
      PROVE  OrderInv'
  <2>1. req[w] = [req[w] EXCEPT !.newUser = req[w].newUser, !.newMember = req[w].newMember]
    BY <1>2 DEF Request
  <2>2. PICK user, member : user = req[w].newUser /\ member = req[w].newMember
    OBVIOUS
  <2>3. Advance(w, label, [req[w] EXCEPT !.newUser = user, !.newMember = member])
    BY <1>4, <2>1, <2>2
  <2>4. user \in BOOLEAN /\ member \in BOOLEAN
    BY <1>2, <2>2 DEF Request
  <2>5. /\ user => label \in {"account", "unjoined", "joined"}
        /\ member => label = "joined"
    BY <1>2, <1>4, <2>2 DEF StageOK, At
  <2>6. \/ label = "account"
        \/ label = "joined"
        \/ label \in {"unjoined", "no_account"} /\ req[w].op = "accept"
        \/ label = "named" /\ req[w].op = "register"
    BY <1>4 DEF At
  <2> QED
    BY <1>1, <1>4, <2>3, <2>4, <2>5, <2>6, EnterOrder
<1>5. ASSUME InsertUser(w), InsertsUser(w) PROVE OrderInv'
  <2>1. CASE Refuse(w, "duplicate")
    BY <1>3, <2>1 DEF Replies
  <2>2. CASE Advance(w, "account", [req[w] EXCEPT !.newUser = TRUE]) /\ UNCHANGED inviteLock
    <3>1. /\ req[w].newMember \in BOOLEAN /\ ~req[w].newMember
          /\ [req[w] EXCEPT !.newUser = TRUE]
                = [req[w] EXCEPT !.newUser = TRUE, !.newMember = req[w].newMember]
      BY <1>2, <1>5 DEF Request, StageOK, InsertsUser, At
    <3>2. PICK member : member = req[w].newMember
      OBVIOUS
    <3> QED
      BY <1>1, <2>2, <3>1, <3>2, EnterOrder DEF Labels
  <2> QED
    BY <1>5, <2>1, <2>2 DEF InsertUser
<1>6. ASSUME InsertMember(w) PROVE OrderInv'
  <2>1. CASE Refuse(w, "duplicate")
    BY <1>3, <2>1 DEF Replies
  <2>2. CASE Advance(w, "joined", [req[w] EXCEPT !.newMember = TRUE]) /\ UNCHANGED inviteLock
    <3>1. /\ req[w].newUser \in BOOLEAN
          /\ [req[w] EXCEPT !.newMember = TRUE]
                = [req[w] EXCEPT !.newUser = req[w].newUser, !.newMember = TRUE]
      BY <1>2 DEF Request
    <3>2. PICK user : user = req[w].newUser
      OBVIOUS
    <3> QED
      BY <1>1, <2>2, <3>1, <3>2, EnterOrder DEF Labels
  <2> QED
    BY <1>6, <2>1, <2>2 DEF InsertMember
<1>7. CASE FindAccount(w)
  <2>1. CASE Refuse(w, "invalid")
    BY <1>3, <2>1 DEF Replies
  <2> QED
    BY <1>4, <1>7, <2>1 DEF FindAccount, Labels
<1>8. CASE FindMembership(w)
  BY <1>4, <1>8 DEF FindMembership, Labels
<1>9. CASE InsertTenant(w)
  <2>1. CASE Refuse(w, "duplicate")
    BY <1>3, <2>1 DEF Replies
  <2> QED
    BY <1>4, <1>9, <2>1 DEF InsertTenant, Labels
<1>10. CASE CreateAccount(w) \/ JoinAccount(w) \/ RegisterAccount(w)
  BY <1>5, <1>10 DEF CreateAccount, JoinAccount, RegisterAccount, InsertsUser
<1>11. CASE AddMembership(w) \/ JoinMembership(w) \/ RegisterMembership(w)
  BY <1>6, <1>11 DEF AddMembership, JoinMembership, RegisterMembership
<1> QED
  BY <1>7, <1>8, <1>9, <1>10, <1>11

LEMMA NextOrderInv == RowsInv /\ OrderInv /\ [Next]_dirVars => OrderInv'
<1> SUFFICES ASSUME RowsInv, OrderInv, [Next]_dirVars PROVE OrderInv'
  OBVIOUS
<1>1. ASSUME NEW w \in Workers, Arrive(w) PROVE OrderInv'
  BY <1>1, ArriveOrder
<1>2. ASSUME NEW w \in Workers, InvitationStep(w) PROVE OrderInv'
  <2>1. CASE FindInvitee(w) \/ CheckMember(w) \/ FindPending(w) \/ DeletePending(w)
    BY <2>1, InviteOrder DEF FindInvitee, CheckMember, FindPending, DeletePending, At
  <2>2. CASE CommitInvite(w) \/ CommitAccept(w)
    BY <2>2, CommitOrder DEF CommitInvite, CommitAccept
  <2>3. CASE LockForAccept(w)
    BY <2>3, OpenOrder
  <2> QED
    BY <1>2, <2>1, <2>2, <2>3, EnterOrderSteps DEF InvitationStep
<1>3. ASSUME NEW w \in Workers, OnboardingStep(w) PROVE OrderInv'
  <2>1. CASE CommitJoin(w) \/ CommitRegister(w)
    BY <2>1, CommitOrder DEF CommitJoin, CommitRegister
  <2>2. CASE LockForJoin(w)
    BY <2>2, OpenOrder
  <2> QED
    BY <1>3, <2>1, <2>2, EnterOrderSteps DEF OnboardingStep
<1>4. ASSUME NEW w \in Workers, Fail(w) PROVE OrderInv'
  BY <1>4, FinishOrder DEF Fail, Replies
<1>5. CASE UNCHANGED <<inviteLock, pc, req>>
  BY <1>5 DEF OrderInv, StageOK, LockOK, Using, At
<1> QED
  BY <1>1, <1>2, <1>3, <1>4, <1>5 DEF Next, Handle, Expire, dirVars

\* Every reachable state satisfies WInv: what the handlers know, and the order in
\* which they lock.
THEOREM Inductive == Spec => []WInv
<1>1. RowsInv /\ OrderInv /\ [Next]_dirVars => OrderInv'
  BY NextOrderInv
<1>2. Spec => []OrderInv
  BY <1>1, InitOrderInv, RowsAreKnown, PTL DEF Spec
<1>3. RowsInv /\ OrderInv => WInv
  BY DEF WInv
<1> QED
  BY <1>2, <1>3, RowsAreKnown, PTL

\* Locks and keys are taken in one order by the three handlers: an invitation's row,
\* tenants.slug, users.email, tenant_users.  Of those in flight, who is furthest along
\* it has nobody to wait for, however many there are.
THEOREM NobodyWaitsInACircle == Spec => []NoWaitCycle
<1>1. ASSUME WInv, NEW u \in Workers, pc[u] # "idle",
             \A w \in Workers : pc[w] # "idle" => Waits(w)
      PROVE  FALSE
  <2>1. \A w \in Workers : StageOK(w) /\ RequestOK(w)
    BY <1>1 DEF WInv, OrderInv, RowsInv, WorkerOK
  <2>2. \A w \in Workers : Waits(w) => pc[w] # "joined" /\ pc[w] # "written"
    BY DEF Waits, AwaitsRow, AwaitsKey, LocksInvite, InviteSelected, InsertsUser, InsertsMember, At
  <2>3. \A w \in Workers : ~req[w].newMember
    BY <1>1, <2>1, <2>2 DEF StageOK, At
  <2>4. \A w \in Workers : ~MemberInFlight(w)
    BY <2>3 DEF MemberInFlight
  <2>5. \A w \in Workers : Waits(w) => pc[w] # "account" /\ pc[w] # "unjoined"
    BY <2>4 DEF Waits, AwaitsRow, AwaitsKey, LocksInvite, InviteSelected, InsertsUser,
       InsertsMember, At
  <2>6. \A w \in Workers : ~req[w].newUser
    BY <1>1, <2>1, <2>2, <2>5 DEF StageOK, At
  <2>7. \A w \in Workers : ~UserInFlight(w)
    BY <2>6 DEF UserInFlight
  <2>8. \A w \in Workers : Waits(w) => pc[w] \in {"begin", "replacing"}
    BY <2>4, <2>7 DEF Waits, AwaitsRow, AwaitsKey, LocksInvite, InviteSelected, InsertsUser,
       InsertsMember, At
  <2>9. \A w \in Workers : ~TenantInFlight(w)
    BY <1>1, <2>1, <2>8 DEF TenantInFlight, StageOK, RequestOK, At
  <2>10. ASSUME NEW i \in InviteIds PROVE inviteLock[i] = None
    <3>1. SUFFICES ASSUME NEW w \in Workers,
                          \/ Using(w) /\ req[w].invite = i
                          \/ At(w, "invite", "written") /\ req[w].old = i
                   PROVE  FALSE
      BY <1>1 DEF WInv, OrderInv, LockOK
    <3>2. pc[w] # "idle" /\ pc[w] # "begin"
      BY <2>1, <3>1 DEF Using, At, RequestOK
    <3> QED
      BY <1>1, <2>1, <2>8, <3>1, <3>2 DEF Using, At, StageOK
  <2>11. Waits(u)
    BY <1>1
  <2>12. AwaitsRow(u)
    BY <2>4, <2>7, <2>9, <2>11 DEF Waits, AwaitsKey
  <2>13. req[u].op \in {"accept", "join"} => req[u].invite \in InviteIds
    BY <2>1 DEF RequestOK
  <2>14. At(u, "invite", "replacing") => req[u].old = None \/ req[u].old \in InviteIds
    BY <1>1 DEF WInv, RowsInv, WorkerOK, ReplacedOK
  <2>15. At(u, "invite", "replacing") => req[u].old # None
    BY <2>1 DEF StageOK
  <2> QED
    BY <2>10, <2>12, <2>13, <2>14, <2>15 DEF AwaitsRow, LocksInvite, InviteLockFree
<1>2. WInv => NoWaitCycle
  BY <1>1 DEF NoWaitCycle
<1> QED
  BY <1>2, Inductive, PTL

\* The variables keep their types.
THEOREM TypeCorrect == Spec => []TypeOK
<1>1. RowsInv => TypeOK
  BY DEF RowsInv
<1> QED
  BY <1>1, RowsAreKnown, PTL

\* acceptInvitation and registerTenantAdmin: a token is used by one transaction at
\* most, however they race.
THEOREM TokensWorkOnce == Spec => []InvitationUsedOnce
<1>1. RowsInv => InvitationUsedOnce
  BY DEF RowsInv, UsesOK, InvitationUsedOnce
<1> QED
  BY <1>1, RowsAreKnown, PTL

\* acceptInvitation: accepted_at is only set together with a membership.
THEOREM AcceptanceJoins == Spec => []AcceptedMeansMember
<1>1. RowsInv => AcceptedMeansMember
  BY DEF RowsInv
<1> QED
  BY <1>1, RowsAreKnown, PTL

(***************************************************************************)
(* Who becomes a member, and as what.                                      *)
(***************************************************************************)

\* The steps that write tenant_users.
LEMMA OnlyCommitsAddMembers ==
    ASSUME RowsInv, [Next]_dirVars, members' # members
    PROVE  \E w \in Workers : CommitAccept(w) \/ CommitJoin(w) \/ CommitRegister(w)
<1> USE DEF tables
<1>1. ASSUME NEW w \in Workers, Arrive(w) PROVE UNCHANGED members
  BY <1>1 DEF Arrive, RequestInvite, RequestAccept, RequestJoin, RequestRegister, Begin
<1>2. ASSUME NEW w \in Workers, Fail(w) PROVE UNCHANGED members
  BY <1>2 DEF Fail
<1>3. ASSUME NEW i \in InviteIds, Expire(i) PROVE UNCHANGED members
  BY <1>3 DEF Expire
<1>4. ASSUME NEW w \in Workers, InsertUser(w) \/ InsertMember(w) PROVE UNCHANGED members
  BY <1>4 DEF InsertUser, InsertMember, Refuse, Advance
<1>5. ASSUME NEW w \in Workers, InvitationStep(w) PROVE CommitAccept(w) \/ UNCHANGED members
  <2>1. CASE FindInvitee(w) \/ CheckMember(w) \/ FindPending(w) \/ DeletePending(w) \/ CommitInvite(w)
    BY <2>1 DEF FindInvitee, CheckMember, FindPending, DeletePending, CommitInvite, Refuse, Advance
  <2>2. CASE LockForAccept(w) \/ FindAccount(w) \/ FindMembership(w)
    BY <2>2 DEF LockForAccept, RefuseInvite, KeepInviteLocked, FindAccount, FindMembership, Refuse,
       Advance
  <2>3. CASE CreateAccount(w) \/ AddMembership(w)
    BY <1>4, <2>3 DEF CreateAccount, AddMembership
  <2> QED
    BY <1>5, <2>1, <2>2, <2>3 DEF InvitationStep
<1>6. ASSUME NEW w \in Workers, OnboardingStep(w)
      PROVE  CommitJoin(w) \/ CommitRegister(w) \/ UNCHANGED members
  <2>1. CASE LockForJoin(w) \/ InsertTenant(w)
    BY <2>1 DEF LockForJoin, RefuseInvite, KeepInviteLocked, InsertTenant, Refuse, Advance
  <2>2. CASE JoinAccount(w) \/ JoinMembership(w) \/ RegisterAccount(w) \/ RegisterMembership(w)
    BY <1>4, <2>2 DEF JoinAccount, JoinMembership, RegisterAccount, RegisterMembership
  <2> QED
    BY <1>6, <2>1, <2>2 DEF OnboardingStep
<1> QED
  BY <1>1, <1>2, <1>3, <1>5, <1>6 DEF Next, Handle, dirVars

\* acceptInvitation looks for a membership before its INSERT, onboarding does not: the
\* role a member has is never overwritten, whatever another transaction has added in
\* between.
THEOREM RolesNeverChange == Spec => RolesAreKept
<1>1. ASSUME RowsInv, [Next]_dirVars, NEW t \in Slugs, NEW e \in Emails, IsMember(t, e)
      PROVE  members'[t][e] = members[t][e]
  <2>1. CASE members' = members
    BY <2>1
  <2>2. CASE members' # members
    <3>1. PICK w \in Workers : CommitAccept(w) \/ CommitJoin(w) \/ CommitRegister(w)
      BY <1>1, <2>2, OnlyCommitsAddMembers
    <3>2. CommitUser(w) /\ CommitMember(w) /\ (Using(w) \/ Founding(w)) /\ pc[w] # "idle"
      BY <3>1 DEF CommitAccept, CommitJoin, CommitRegister, At, Using, Founding
    <3> QED
      BY <1>1, <3>2, CommitKeepsRoles
  <2> QED
    BY <2>1, <2>2
<1>2. RowsInv /\ [Next]_dirVars =>
         [\A t \in Slugs, e \in Emails :
             IsMember(t, e) => members'[t][e] = members[t][e]]_dirVars
  BY <1>1
<1> QED
  BY <1>2, RowsAreKnown, PTL DEF Spec, RolesAreKept

\* Both ways in by token, and the founding of a workspace: nobody becomes a member of
\* a workspace that is there without using up an invitation of it to his address.
THEOREM NobodyJoinsUninvited == Spec => MembersAreInvited
<1>1. ASSUME RowsInv, [Next]_dirVars, NEW t \in Slugs, NEW e \in Emails,
             ~IsMember(t, e), members'[t][e] # "none"
      PROVE  \/ t \notin tenants /\ members'[t][e] = "tenant_admin"
             \/ \E i \in Invites(t, e, members'[t][e]) : invites'[i].state # "pending"
  <2>1. members' # members
    BY <1>1 DEF IsMember
  <2>2. PICK w \in Workers : CommitAccept(w) \/ CommitJoin(w) \/ CommitRegister(w)
    BY <1>1, <2>1, OnlyCommitsAddMembers
  <2>3. WorkerOK(w)
    BY <1>1 DEF RowsInv
  <2>4. CommitUser(w) /\ CommitMember(w) /\ pc[w] # "idle"
    BY <2>2 DEF CommitAccept, CommitJoin, CommitRegister, At
  <2>5. ASSUME Using(w) \/ Founding(w)
        PROVE  t = req[w].tenant /\ e = req[w].email /\ members'[t][e] = req[w].role
    BY <1>1, <2>4, <2>5, CommitRows DEF IsMember
  <2>6. CASE CommitAccept(w) \/ CommitJoin(w)
    <3>1. Using(w)
      BY <2>6 DEF CommitAccept, CommitJoin, At, Using
    <3>2. /\ req[w].invite \in Invites(t, e, members'[t][e])
          /\ req[w].invite \in InviteIds
          /\ invites[req[w].invite] \in Invite
      BY <1>1, <2>3, <2>5, <3>1
      DEF WorkerOK, RequestOK, UsedOK, Using, Invites, RowsInv, TypeOK, NoInvite
    <3>3. invites'[req[w].invite].state \in {"accepted", "deleted"}
      BY <1>1, <2>6, <3>2 DEF CommitAccept, CommitJoin, RowsInv, TypeOK, Invite
    <3> QED
      BY <3>2, <3>3
  <2>7. CASE CommitRegister(w)
    <3>1. Founding(w)
      BY <2>7 DEF CommitRegister, At, Founding
    <3> QED
      BY <2>3, <2>5, <3>1 DEF WorkerOK, RequestOK, FounderOK, Founding
  <2> QED
    BY <2>2, <2>6, <2>7
<1>2. RowsInv /\ [Next]_dirVars =>
         [\A t \in Slugs, e \in Emails : ~IsMember(t, e) /\ members'[t][e] # "none" =>
             \/ t \notin tenants /\ members'[t][e] = "tenant_admin"
             \/ \E i \in Invites(t, e, members'[t][e]) : invites'[i].state # "pending"]_dirVars
  BY <1>1
<1> QED
  BY <1>2, RowsAreKnown, PTL DEF Spec, MembersAreInvited

=============================================================================
