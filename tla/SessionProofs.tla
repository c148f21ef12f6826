---------------------------- MODULE SessionProofs ----------------------------
(***************************************************************************)
(* Proofs about Browser for every set of people and workspaces and every   *)
(* bound: SessionInv is inductive, and what follows from it.               *)
(***************************************************************************)
EXTENDS SessionInvariant, TLAPS

USE InvitationIsComplete, NoneIsNobody, FaultsAreCounted

LEMMA InitSessionInv == Init => SessionInv
<1> USE DEF Init, InitSession, SignedOut, NoVisit
<1>1. ASSUME Init PROVE TypeOK
  <2> USE <1>1
  <2>1. storage \in SessionData /\ react \in SessionData
    BY DEF SessionData
  <2>2. visit \in VisitState
    BY DEF VisitState
  <2>3. timer \in TimerState
    BY DEF TimerState
  <2>4. calls \subseteq Call
    OBVIOUS
  <2>5. faults \in 0 .. MaxFaults
    OBVIOUS
  <2>6. page \in Pages
    BY DEF Pages
  <2>7. members \in [Users -> SUBSET Tenants] /\ invite \in {"pending", "accepted"} /\ strayed \in BOOLEAN
    OBVIOUS
  <2> QED
    BY <2>1, <2>2, <2>3, <2>4, <2>5, <2>6, <2>7 DEF TypeOK, SessionTypeOK
<1>2. ASSUME Init PROVE CallsOK /\ VisitOK
  BY <1>2 DEF CallsOK, VisitOK
<1>3. ASSUME Init PROVE SessionsOK /\ TokenIsOfShownUser /\ StorageKnows /\ ActiveIsListed
  BY <1>3 DEF SessionsOK, Lists, TokenIsOfShownUser, StorageKnows, ActiveIsListed
<1> QED
  BY <1>1, <1>2, <1>3 DEF SessionInv

(***************************************************************************)
(* The database.                                                           *)
(***************************************************************************)

\* What any step does to it: memberships are added, to members only if the invitation
\* is accepted.
ServerGrows ==
    /\ members' \in [Users -> SUBSET Tenants]
    /\ invite' \in {"pending", "accepted"}
    /\ invite' = "pending" => invite = "pending"
    /\ \A u \in Users :
          members[u] # {} =>
              /\ members'[u] # {}
              /\ invite' = "pending" => members'[u] = members[u]

LEMMA ServerStays ==
    ASSUME SessionInv, UNCHANGED server
    PROVE  ServerGrows
  BY DEF SessionInv, TypeOK, SessionTypeOK, server, ServerGrows

LEMMA FoundsGrows ==
    ASSUME SessionInv, NEW u \in Users, Founds(u)
    PROVE  /\ ServerGrows
           /\ members'[u] \in SUBSET Tenants
           /\ members'[u] # {}
  BY DEF SessionInv, TypeOK, SessionTypeOK, Founds, ServerGrows

LEMMA AcceptedGrows ==
    ASSUME SessionInv, Accepted
    PROVE  /\ ServerGrows
           /\ invite' = "accepted"
           /\ members'[Invitee] # {}
  BY DEF SessionInv, TypeOK, SessionTypeOK, Accepted, ServerGrows

\* What a request knows stays true.
LEMMA CallStaysOK ==
    ASSUME SessionInv, ServerGrows, NEW k \in Call, CallOK(k)
    PROVE  CallOK(k)'
  BY DEF SessionInv, TypeOK, SessionTypeOK, ServerGrows, CallOK, Call

LEMMA SessionStaysListed ==
    ASSUME SessionInv, ServerGrows, NEW s \in SessionData, Lists(s)
    PROVE  Lists(s)'
  BY DEF SessionInv, TypeOK, SessionTypeOK, ServerGrows, Lists, SessionData

(***************************************************************************)
(* The invariant in four parts, for steps that leave some of them alone.   *)
(***************************************************************************)
ServerSafe == members \in [Users -> SUBSET Tenants] /\ invite \in {"pending", "accepted"}

RestSafe == timer \in TimerState /\ faults \in 0 .. MaxFaults /\ strayed \in BOOLEAN

SessionSafe ==
    /\ storage \in SessionData
    /\ react \in SessionData
    /\ SessionsOK
    /\ TokenIsOfShownUser
    /\ StorageKnows
    /\ ActiveIsListed

PageSafe ==
    /\ page \in Pages
    /\ visit \in VisitState
    /\ calls \subseteq Call
    /\ CallsOK
    /\ VisitOK

LEMMA PartsOfSessionInv ==
    SessionInv <=> ServerSafe /\ RestSafe /\ SessionSafe /\ PageSafe
  BY DEF SessionInv, TypeOK, SessionTypeOK, ServerSafe, RestSafe, SessionSafe, PageSafe

LEMMA PartsOfSessionInvNext ==
    SessionInv' <=> ServerSafe' /\ RestSafe' /\ SessionSafe' /\ PageSafe'
  BY PartsOfSessionInv, PTL

LEMMA ServerStaysSafe ==
    ASSUME ServerGrows
    PROVE  ServerSafe'
  BY DEF ServerGrows, ServerSafe

(***************************************************************************)
(* The writers of the session.                                             *)
(***************************************************************************)
LEMMA SessionKept ==
    ASSUME SessionInv, ServerGrows, UNCHANGED <<storage, react>>, strayed => strayed'
    PROVE  SessionSafe'
  BY SessionStaysListed
  DEF SessionInv, TypeOK, SessionTypeOK, SessionSafe, SessionsOK, Lists, TokenIsOfShownUser,
      StorageKnows, ActiveIsListed

\* Loading a page: React has what localStorage has.
LEMMA SessionRead ==
    ASSUME SessionInv, ServerGrows, UNCHANGED strayed,
           storage' \in {storage, SignedOut}, react' = storage'
    PROVE  SessionSafe'
<1>1. Lists(SignedOut)' /\ SignedOut \in SessionData
  BY DEF Lists, SignedOut, SessionData
<1> QED
  BY <1>1, SessionStaysListed
  DEF SessionInv, TypeOK, SessionTypeOK, SessionSafe, SessionsOK, Lists, TokenIsOfShownUser,
      StorageKnows, ActiveIsListed, SignedOut, SessionData

\* A 401 on the login page clears localStorage only.
LEMMA StorageCleared ==
    ASSUME SessionInv, ServerGrows, UNCHANGED <<strayed, react>>, storage' = SignedOut
    PROVE  SessionSafe'
<1>1. Lists(SignedOut)' /\ SignedOut \in SessionData
  BY DEF Lists, SignedOut, SessionData
<1> QED
  BY <1>1, SessionStaysListed
  DEF SessionInv, TypeOK, SessionTypeOK, SessionSafe, SessionsOK, Lists, TokenIsOfShownUser,
      StorageKnows, ActiveIsListed, SignedOut, SessionData

LEMMA SessionCleared ==
    ASSUME UNCHANGED strayed, ClearAuth
    PROVE  SessionSafe'
<1>1. SignedOut \in SessionData /\ SignedOut.user = None
  BY DEF SignedOut, SessionData
<1>2. storage' = SignedOut /\ react' = SignedOut
  BY DEF ClearAuth
<1> QED
  BY <1>1, <1>2
  DEF SessionSafe, SessionsOK, Lists, TokenIsOfShownUser, StorageKnows, ActiveIsListed

\* A sign-in lists the workspaces the database has.
LEMMA SessionPersisted ==
    ASSUME SessionInv, ServerGrows, UNCHANGED strayed, NEW u \in Users,
           members'[u] # {}, PersistAuth(u, members'[u])
    PROVE  /\ SessionSafe'
           /\ storage' = react'
           /\ react'.user = u
<1> DEFINE ts == members'[u]
<1>0. ts \in SUBSET Tenants
  BY DEF ServerGrows
<1>1. PICK primary \in ts : react' = Workspaces(u, ts, primary) /\ storage' = react'
  BY DEF PersistAuth, InStorage
<1>2. react' = [user |-> u, tenants |-> ts, active |-> primary]
  BY <1>1 DEF Workspaces
<1>3. react' \in SessionData
  BY <1>0, <1>2 DEF SessionData
<1>4. Lists(react)' /\ Lists(storage)'
  BY <1>1, <1>2 DEF Lists
<1> QED
  BY <1>0, <1>1, <1>2, <1>3, <1>4
  DEF SessionSafe, SessionsOK, TokenIsOfShownUser, StorageKnows, ActiveIsListed

\* switchTenant among what React lists.
LEMMA SessionSwitched ==
    ASSUME SessionInv, ServerGrows, UNCHANGED strayed, NEW t \in Tenants,
           SwitchTenant(t, react.tenants)
    PROVE  SessionSafe'
<1> USE DEF SessionInv, TypeOK, SessionTypeOK
<1>1. CASE t \in react.tenants
  <2>1. /\ react' = [react EXCEPT !.active = t]
        /\ storage' = [storage EXCEPT !.active = t]
    BY <1>1 DEF SwitchTenant
  <2>2. react' \in SessionData /\ storage' \in SessionData
    BY <2>1 DEF SessionData
  <2>3. /\ react'.user = react.user /\ react'.tenants = react.tenants /\ react'.active = t
        /\ storage'.user = storage.user /\ storage'.tenants = storage.tenants
        /\ storage'.active = t
    BY <2>1 DEF SessionData
  <2>4. Lists(react)' /\ Lists(storage)'
    BY <2>3, SessionStaysListed DEF SessionsOK, Lists
  <2> QED
    BY <1>1, <2>2, <2>3, <2>4
    DEF SessionSafe, SessionsOK, TokenIsOfShownUser, StorageKnows, ActiveIsListed
<1>2. CASE t \notin react.tenants
  BY <1>2, SessionKept DEF SwitchTenant
<1> QED
  BY <1>1, <1>2

(***************************************************************************)
(* Pages and the requests they leave in flight.                            *)
(***************************************************************************)
LEMMA CallsKept ==
    ASSUME SessionInv, ServerGrows, NEW cs \in SUBSET calls
    PROVE  /\ cs \subseteq Call
           /\ \A k \in cs : CallOK(k)'
  BY CallStaysOK DEF SessionInv, TypeOK, SessionTypeOK, CallsOK

LEMMA LeftKept ==
    ASSUME SessionInv, ServerGrows, NEW cs \in SUBSET calls
    PROVE  /\ Left(cs) \subseteq Call
           /\ \A k \in Left(cs) : CallOK(k)'
<1> SUFFICES ASSUME NEW k \in cs,
                    NEW m, m = [k EXCEPT !.from = IF k.kind = "login" /\ @ = "login"
                                                  THEN "left" ELSE @]
             PROVE  m \in Call /\ CallOK(m)'
  BY DEF Left
<1>1. k \in Call /\ CallOK(k)'
  BY CallsKept
<1>2. m \in Call /\ m.kind = k.kind /\ m.user = k.user /\ m.token = k.token /\ m.known = k.known
  BY <1>1 DEF Call, Pages
<1> QED
  BY <1>1, <1>2 DEF CallOK

LEMMA DataCallOK ==
    ASSUME NEW token \in Users \cup {None}
    PROVE  DataCall(token) \in Call /\ CallOK(DataCall(token)) /\ CallOK(DataCall(token))'
  BY DEF DataCall, Call, CallOK, Pages

LEMMA NoVisitElsewhere ==
    ASSUME SessionInv, page # "accept"
    PROVE  visit = NoVisit
  BY DEF SessionInv, VisitOK

\* Pages other than that of the invitation.
LEMMA OtherPage ==
    ASSUME page' \in Pages \ {"accept"}, visit' = NoVisit, calls' \subseteq Call,
           \A k \in calls' : CallOK(k)'
    PROVE  PageSafe'
<1>1. visit' \in VisitState
  BY DEF NoVisit, VisitState
<1> QED
  BY <1>1 DEF PageSafe, CallsOK, VisitOK

LEMMA DashboardShown ==
    ASSUME SessionInv, ServerGrows, SessionSafe', NEW others \in SUBSET calls,
           ShowDashboard(others), visit' = NoVisit
    PROVE  PageSafe'
<1>1. page' \in Pages \ {"accept"}
  BY DEF ShowDashboard, Pages
<1>2. storage'.user \in Users \cup {None}
  BY DEF SessionSafe, SessionData
<1>3. calls' \subseteq others \cup Left(others) \cup {DataCall(storage'.user)}
  BY DEF ShowDashboard
<1>4. calls' \subseteq Call /\ \A k \in calls' : CallOK(k)'
  BY <1>2, <1>3, CallsKept, LeftKept, DataCallOK
<1> QED
  BY <1>1, <1>4, OtherPage

\* The interceptor, which stays on the login page and leaves every other one.
LEMMA UnauthorizedKeeps ==
    ASSUME SessionInv, ServerGrows, UNCHANGED strayed, NEW k \in calls, Unauthorized(k)
    PROVE  /\ SessionSafe'
           /\ PageSafe'
           /\ timer' \in TimerState
<1>1. CASE page \in {"login", "picker"}
  <2>1. /\ storage' = SignedOut /\ calls' = calls \ {k}
        /\ UNCHANGED <<react, page, visit, timer>>
    BY <1>1 DEF Unauthorized
  <2>2. SessionSafe'
    BY <2>1, StorageCleared
  <2>3. page' \in Pages \ {"accept"} /\ visit' = NoVisit
    BY <1>1, <2>1 DEF SessionInv, VisitOK, Pages
  <2>4. PageSafe'
    BY <2>1, <2>3, CallsKept, OtherPage
  <2> QED
    BY <2>1, <2>2, <2>4 DEF SessionInv, TypeOK, SessionTypeOK
<1>2. CASE page \notin {"login", "picker"}
  <2>1. storage' = SignedOut /\ Load("login")
    BY <1>2 DEF Unauthorized
  <2>2. SessionSafe'
    BY <2>1, SessionRead DEF Load
  <2>3. PageSafe'
    BY <2>1, OtherPage DEF Load, Pages
  <2>4. timer' \in TimerState
    BY <2>1 DEF Load, TimerState
  <2> QED
    BY <2>2, <2>3, <2>4
<1> QED
  BY <1>1, <1>2

\* An answer that has failed gives the form back; an acceptance is not counted then.
LEMMA FormAgainKeeps ==
    ASSUME SessionInv, ServerGrows, NEW k \in calls, Unheard(k), NEW given \in BOOLEAN,
           given <=> k.kind # "login", FormAgain(given)
    PROVE  PageSafe'
<1> USE DEF SessionInv
<1>1. /\ calls' \subseteq Call
      /\ CallsOK'
  BY CallsKept DEF Unheard, CallsOK
<1>2. CASE page = "accept"
  <2>1. calls' = {} /\ page' = "accept"
    BY <1>2 DEF VisitOK, Unheard
  <2>2. ~visit.success /\ visit.accepts = IF given THEN 1 ELSE 0
    BY <1>2 DEF VisitOK
  <2>3. visit \in VisitState
    BY DEF TypeOK, SessionTypeOK
  <2>4. visit' = [visit EXCEPT !.loading = FALSE, !.accepts = 0]
    <3>1. CASE given
      BY <1>2, <2>2, <2>3, <3>1 DEF FormAgain, VisitState
    <3>2. CASE ~given
      <4>1. visit' = [visit EXCEPT !.loading = FALSE, !.accepts = @]
        BY <1>2, <2>3, <3>2 DEF FormAgain
      <4> QED
        BY <2>2, <2>3, <3>2, <4>1 DEF VisitState
    <3> QED
      BY <3>1, <3>2
  <2>5. visit' = [loading |-> FALSE, success |-> visit.success, accepts |-> 0]
    BY <2>3, <2>4 DEF VisitState
  <2>6. visit.success \in BOOLEAN
    BY <2>3 DEF VisitState
  <2>7. visit' \in VisitState
    BY <2>5, <2>6 DEF VisitState
  <2>8. VisitOK'
    <3>1. ~visit'.success /\ ~(\E j \in calls' : j.kind # "login")
      BY <2>1, <2>2, <2>5
    <3> QED
      BY <2>1, <2>5, <3>1 DEF VisitOK
  <2> QED
    BY <1>1, <2>1, <2>7, <2>8 DEF PageSafe, Pages
<1>3. CASE page # "accept"
  BY <1>1, <1>3 DEF PageSafe, VisitOK, Unheard, FormAgain, TypeOK, SessionTypeOK
<1> QED
  BY <1>2, <1>3

(***************************************************************************)
(* Clicks.  One that leaves the database and the session alone:            *)
(***************************************************************************)
LEMMA PageStep ==
    ASSUME SessionInv, UNCHANGED <<server, storage, react, strayed>>,
           timer' \in TimerState, faults' \in 0 .. MaxFaults, PageSafe'
    PROVE  SessionInv'
<1>1. ServerGrows
  BY ServerStays
<1> QED
  BY <1>1, ServerStaysSafe, SessionKept, PartsOfSessionInvNext
  DEF RestSafe, SessionInv, TypeOK, SessionTypeOK

\* A click on a page other than that of the invitation, which may send a request.
LEMMA ClickElsewhere ==
    ASSUME SessionInv, UNCHANGED <<server, storage, react, timer, faults, strayed>>,
           page' \in Pages \ {"accept"}, visit' = NoVisit,
           \A k \in calls' : k \in calls \cup Left(calls) \/ (k \in Call /\ CallOK(k)')
    PROVE  SessionInv'
<1>1. ServerGrows
  BY ServerStays
<1>2. calls' \subseteq Call /\ \A k \in calls' : CallOK(k)'
  BY <1>1, CallsKept, LeftKept
<1>3. PageSafe'
  BY <1>2, OtherPage
<1> QED
  BY <1>3, PageStep DEF SessionInv, TypeOK, SessionTypeOK

LEMMA RequestTyped ==
    ASSUME SessionInv, NEW kind \in {"login", "found", "register"}, NEW u \in Users,
           NEW known \in SUBSET Tenants, NEW r, r = Request(kind, u, storage.user, known)
    PROVE  /\ r \in Call
           /\ CallOK(r)'
           /\ r.kind = kind
           /\ r.from = page
<1>1. storage.user \in Users \cup {None} /\ page \in Pages
  BY DEF SessionInv, TypeOK, SessionTypeOK, SessionData
<1> QED
  BY <1>1 DEF Request, Call, CallOK

LEMMA SubmitLoginKeeps ==
    ASSUME SessionInv, NEW u \in Users, SubmitLogin(u)
    PROVE  SessionInv'
<1>1. PICK r : r = Request("login", u, storage.user, {})
  OBVIOUS
<1>2. r \in Call /\ CallOK(r)'
  BY <1>1, RequestTyped
<1>3. page' \in Pages \ {"accept"} /\ visit' = NoVisit
  BY NoVisitElsewhere DEF SubmitLogin, Pages
<1>4. \A k \in calls' : k \in calls \cup Left(calls) \/ (k \in Call /\ CallOK(k)')
  BY <1>1, <1>2 DEF SubmitLogin
<1> QED
  BY <1>3, <1>4, ClickElsewhere DEF SubmitLogin

LEMMA SubmitRegisterKeeps ==
    ASSUME SessionInv, NEW u \in Users, SubmitRegister(u)
    PROVE  SessionInv'
<1>1. PICK r : r = Request("found", u, storage.user, {})
  OBVIOUS
<1>2. r \in Call /\ CallOK(r)'
  BY <1>1, RequestTyped
<1>3. page' \in Pages \ {"accept"} /\ visit' = NoVisit
  BY NoVisitElsewhere DEF SubmitRegister, Pages
<1>4. \A k \in calls' : k \in calls \cup Left(calls) \/ (k \in Call /\ CallOK(k)')
  BY <1>1, <1>2 DEF SubmitRegister
<1> QED
  BY <1>3, <1>4, ClickElsewhere DEF SubmitRegister

LEMMA WalkKeeps ==
    ASSUME SessionInv, GoToRegister \/ GoToLogin \/ DifferentUser
    PROVE  SessionInv'
  BY NoVisitElsewhere, ClickElsewhere DEF GoToRegister, GoToLogin, DifferentUser, Pages

LEMMA RefreshKeeps ==
    ASSUME SessionInv, Refresh
    PROVE  SessionInv'
<1>1. storage.user \in Users \cup {None}
  BY DEF SessionInv, TypeOK, SessionTypeOK, SessionData
<1> QED
  BY <1>1, DataCallOK, NoVisitElsewhere, ClickElsewhere DEF Refresh, Pages

LEMMA GoToDashboardKeeps ==
    ASSUME SessionInv, GoToDashboard
    PROVE  SessionInv'
<1>1. ServerGrows /\ SessionSafe'
  BY ServerStays, SessionKept DEF GoToDashboard
<1>2. PageSafe'
  BY <1>1, DashboardShown DEF GoToDashboard
<1> QED
  BY <1>2, PageStep DEF GoToDashboard, SessionInv, TypeOK, SessionTypeOK

LEMMA LogoutKeeps ==
    ASSUME SessionInv, Logout
    PROVE  SessionInv'
<1> USE DEF Logout
<1>1. ServerGrows
  BY ServerStays
<1>2. SessionSafe'
  BY SessionCleared
<1>3. PageSafe'
  BY <1>1, CallsKept, OtherPage DEF Pages
<1> QED
  BY <1>1, <1>2, <1>3, ServerStaysSafe, PartsOfSessionInvNext
  DEF RestSafe, SessionInv, TypeOK, SessionTypeOK

\* Both pickers: the one of the login page and the one in the bar.
LEMMA SwitchKeeps ==
    ASSUME SessionInv, NEW t \in Tenants, SwitchTenant(t, react.tenants), ShowDashboard(calls),
           UNCHANGED <<server, timer, faults, strayed>>, visit' = NoVisit
    PROVE  SessionInv'
<1>1. ServerGrows
  BY ServerStays
<1>2. SessionSafe'
  BY <1>1, SessionSwitched
<1>3. PageSafe'
  BY <1>1, <1>2, DashboardShown
<1> QED
  BY <1>1, <1>2, <1>3, ServerStaysSafe, PartsOfSessionInvNext
  DEF RestSafe, SessionInv, TypeOK, SessionTypeOK

LEMMA ChooseTenantKeeps ==
    ASSUME SessionInv, NEW t \in Tenants, ChooseTenant(t)
    PROVE  SessionInv'
  BY SwitchKeeps DEF ChooseTenant

LEMMA SelectWorkspaceKeeps ==
    ASSUME SessionInv, SelectWorkspace
    PROVE  SessionInv'
  BY SwitchKeeps, NoVisitElsewhere DEF SelectWorkspace

(***************************************************************************)
(* Loading a page, the invitation's and others.                            *)
(***************************************************************************)
LEMMA ReloadKeeps ==
    ASSUME SessionInv, Reload
    PROVE  SessionInv'
<1> USE DEF Reload
<1>1. ServerGrows
  BY ServerStays
<1>2. SessionSafe'
  BY <1>1, SessionRead
<1>3. storage.user \in Users \cup {None}
  BY DEF SessionInv, TypeOK, SessionTypeOK, SessionData
<1>4. page' \in Pages \ {"accept"}
  BY DEF Pages
<1>5. calls' \subseteq {DataCall(storage.user)}
  OBVIOUS
<1>6. PageSafe'
  BY <1>3, <1>4, <1>5, DataCallOK, OtherPage
<1>7. timer' \in TimerState
  BY DEF TimerState
<1> QED
  BY <1>1, <1>2, <1>6, <1>7, ServerStaysSafe, PartsOfSessionInvNext
  DEF RestSafe, SessionInv, TypeOK, SessionTypeOK

\* The first acceptance of a visit.
LEMMA FirstAccept ==
    ASSUME NEW v \in VisitState, v.success = FALSE, v.accepts = 0,
           NEW x, x = [v EXCEPT !.loading = TRUE, !.accepts = IF @ < 2 THEN @ + 1 ELSE @]
    PROVE  x = [loading |-> TRUE, success |-> FALSE, accepts |-> 1]
<1>1. (IF v.accepts < 2 THEN v.accepts + 1 ELSE v.accepts) = 1
  OBVIOUS
<1>2. x = [v EXCEPT !.loading = TRUE, !.accepts = 1]
  BY <1>1, Zenon
<1> QED
  BY <1>2 DEF VisitState

\* The effect of the first render accepts for somebody who is signed in, with the
\* workspaces he has.
LEMMA OpenLinkKeeps ==
    ASSUME SessionInv, OpenLink
    PROVE  SessionInv'
<1> USE DEF OpenLink
<1>1. ServerGrows
  BY ServerStays
<1>2. SessionSafe'
  BY <1>1, SessionRead
<1>3. timer' \in TimerState
  BY DEF TimerState
<1>4. PageSafe'
  <2>1. CASE storage.user = None
    <3>1. visit' = NoVisit /\ calls' = {} /\ page' = "accept"
      BY <2>1 DEF RunEffect
    <3> QED
      BY <3>1 DEF PageSafe, Pages, NoVisit, VisitState, CallsOK, VisitOK
  <2>2. CASE storage.user # None
    <3>1. PICK k : k = AcceptCall
      OBVIOUS
    <3>2. k = [kind |-> "accept", from |-> "accept", user |-> None,
               token |-> storage.user, known |-> storage.tenants]
      BY <3>1 DEF AcceptCall
    <3>3. /\ visit' = [loading |-> TRUE, success |-> FALSE, accepts |-> 1]
          /\ calls' = {k}
          /\ page' = "accept"
      <4>1. AutoAccepts(NoVisit)
        BY DEF AutoAccepts, NoVisit
      <4>2. /\ visit' = [NoVisit EXCEPT !.loading = TRUE, !.accepts = IF @ < 2 THEN @ + 1 ELSE @]
            /\ calls' = {} \cup {k}
        BY <2>2, <3>1, <4>1 DEF RunEffect
      <4>3. PICK v : v = NoVisit /\ v = [loading |-> FALSE, success |-> FALSE, accepts |-> 0]
        BY DEF NoVisit
      <4>4. visit' = [loading |-> TRUE, success |-> FALSE, accepts |-> 1]
        <5>1. visit' = [v EXCEPT !.loading = TRUE, !.accepts = IF @ < 2 THEN @ + 1 ELSE @]
          BY <4>2, <4>3
        <5> HIDE DEF OpenLink
        <5>2. v \in VisitState /\ v.success = FALSE /\ v.accepts = 0
          BY <4>3 DEF VisitState
        <5> QED
          BY <5>1, <5>2, FirstAccept
      <4> QED
        BY <4>2, <4>4
    <3>4. storage.user \in Users /\ storage.tenants \in SUBSET Tenants
      BY <2>2 DEF SessionInv, TypeOK, SessionTypeOK, SessionData
    <3>5. k \in Call
      BY <3>2, <3>4 DEF Call, Pages
    <3>6. Lists(storage)
      BY DEF SessionInv, SessionsOK
    <3>7. CallOK(k)'
      BY <2>2, <3>2, <3>4, <3>6 DEF CallOK, Lists, server
    <3>8. visit' \in VisitState
      BY <3>3 DEF VisitState
    <3>9. VisitOK'
      BY <3>2, <3>3 DEF VisitOK
    <3> QED
      BY <3>3, <3>5, <3>7, <3>8, <3>9 DEF PageSafe, Pages, CallsOK
  <2> QED
    BY <2>1, <2>2
<1> QED
  BY <1>1, <1>2, <1>3, <1>4, ServerStaysSafe, PartsOfSessionInvNext
  DEF RestSafe, SessionInv, TypeOK, SessionTypeOK

\* The form of the invitation page: no request is out when it is sent.
LEMMA FormSent ==
    ASSUME SessionInv, FormShown, NEW k \in Call, CallOK(k)',
           k.kind \in {"login", "register"}, k.from = "accept",
           calls' = calls \cup {k}, UNCHANGED page,
           visit' = [loading |-> TRUE, success |-> FALSE,
                     accepts |-> IF k.kind = "login" THEN 0 ELSE 1]
    PROVE  PageSafe'
<1>1. page = "accept" /\ calls = {}
  BY DEF FormShown, SessionInv, VisitOK
<1>2. calls' = {k}
  BY <1>1
<1>3. visit' \in VisitState
  BY DEF VisitState
<1>4. VisitOK'
  BY <1>1, <1>2 DEF VisitOK
<1> QED
  BY <1>1, <1>2, <1>3, <1>4 DEF PageSafe, Pages, CallsOK

\* Nothing has been accepted while the form is shown.
LEMMA FormIsFresh ==
    ASSUME SessionInv, FormShown
    PROVE  /\ visit \in VisitState
           /\ visit.success = FALSE /\ visit.loading = FALSE /\ visit.accepts = 0
<1>1. visit \in VisitState
  BY DEF SessionInv, TypeOK, SessionTypeOK
<1>2. page = "accept" /\ calls = {} /\ ~visit.success /\ ~visit.loading
  BY DEF FormShown, SessionInv, VisitOK
<1>3. visit.accepts = 0
  BY <1>2 DEF SessionInv, VisitOK
<1>4. visit.success \in BOOLEAN /\ visit.loading \in BOOLEAN
  BY <1>1 DEF VisitState
<1> QED
  BY <1>1, <1>2, <1>3, <1>4

LEMMA SignInAndAcceptKeeps ==
    ASSUME SessionInv, NEW u \in Users, SignInAndAccept(u)
    PROVE  SessionInv'
<1> USE DEF SignInAndAccept
<1>1. PICK k : k = Request("login", u, storage.user, {})
  OBVIOUS
<1>2. k \in Call /\ CallOK(k)' /\ k.kind = "login" /\ k.from = "accept"
  BY <1>1, RequestTyped DEF FormShown
<1>3. visit' = [loading |-> TRUE, success |-> FALSE, accepts |-> 0]
  <2>1. visit \in VisitState /\ visit.success = FALSE /\ visit.accepts = 0
    BY FormIsFresh
  <2>2. visit' = [visit EXCEPT !.loading = TRUE]
    OBVIOUS
  <2> HIDE DEF SignInAndAccept
  <2> QED
    BY <2>1, <2>2 DEF VisitState
<1>4. PageSafe'
  BY <1>1, <1>2, <1>3, FormSent
<1> QED
  BY <1>4, PageStep DEF SessionInv, TypeOK, SessionTypeOK

LEMMA RegisterAndAcceptKeeps ==
    ASSUME SessionInv, RegisterAndAccept
    PROVE  SessionInv'
<1> USE DEF RegisterAndAccept
<1>1. PICK k : k = Request("register", Invitee, storage.user, react.tenants)
  OBVIOUS
<1>2. react.tenants \in SUBSET Tenants
  BY DEF SessionInv, TypeOK, SessionTypeOK, SessionData
<1>3. k \in Call /\ CallOK(k)' /\ k.kind = "register" /\ k.from = "accept"
  BY <1>1, <1>2, RequestTyped DEF FormShown
<1>4. visit' = [loading |-> TRUE, success |-> FALSE, accepts |-> 1]
  <2>1. visit \in VisitState /\ visit.success = FALSE /\ visit.accepts = 0
    BY FormIsFresh
  <2>2. visit' = [visit EXCEPT !.loading = TRUE, !.accepts = IF @ < 2 THEN @ + 1 ELSE @]
    OBVIOUS
  <2> HIDE DEF RegisterAndAccept
  <2> QED
    BY <2>1, <2>2, FirstAccept
<1>5. PageSafe'
  BY <1>1, <1>3, <1>4, FormSent
<1> QED
  BY <1>5, PageStep DEF SessionInv, TypeOK, SessionTypeOK

(***************************************************************************)
(* Answers.                                                                *)
(***************************************************************************)

\* An answer that leaves the page as it is; on the invitation page, to a sign-in,
\* whose form stays disabled.
LEMMA CallAnswered ==
    ASSUME SessionInv, ServerGrows, NEW k \in calls, calls' = calls \ {k},
           UNCHANGED <<page, visit>>, page = "accept" => k.kind = "login"
    PROVE  PageSafe'
<1>1. calls' \subseteq Call /\ CallsOK'
  BY CallsKept DEF CallsOK
<1>2. VisitOK'
  BY DEF SessionInv, VisitOK
<1> QED
  BY <1>1, <1>2 DEF PageSafe, SessionInv, TypeOK, SessionTypeOK

LEMMA AnswerDataKeeps ==
    ASSUME SessionInv, NEW token \in Users \cup {None}, AnswerData(token)
    PROVE  SessionInv'
<1> DEFINE k == DataCall(token)
<1> USE DEF AnswerData
<1>1. ServerGrows
  BY ServerStays
<1>2. page # "accept"
  BY DEF SessionInv, VisitOK, DataCall
<1>3. k \in calls
  OBVIOUS
<1>4. CASE Unauthorized(k) /\ UNCHANGED faults
  BY <1>1, <1>3, <1>4, UnauthorizedKeeps, ServerStaysSafe, PartsOfSessionInvNext
  DEF RestSafe, SessionInv, TypeOK, SessionTypeOK
<1>5. CASE Unheard(k) /\ UNCHANGED visit /\ (UNCHANGED faults \/ Faulty)
  <2>1. PageSafe'
    BY <1>1, <1>2, <1>3, <1>5, CallAnswered DEF Unheard
  <2>2. faults' \in 0 .. MaxFaults
    BY <1>5 DEF Faulty, SessionInv, TypeOK, SessionTypeOK
  <2> QED
    BY <1>5, <2>1, <2>2, PageStep DEF Unheard, SessionInv, TypeOK, SessionTypeOK
<1> QED
  BY <1>4, <1>5

\* Answers that change nothing but the database and the state of a form.
LEMMA QuietAnswer ==
    ASSUME SessionInv, ServerGrows, UNCHANGED <<storage, react, timer, strayed>>,
           faults' = faults \/ Faulty, PageSafe'
    PROVE  SessionInv'
<1>1. faults' \in 0 .. MaxFaults
  BY DEF Faulty, SessionInv, TypeOK, SessionTypeOK
<1> QED
  BY <1>1, ServerStaysSafe, SessionKept, PartsOfSessionInvNext
  DEF RestSafe, SessionInv, TypeOK, SessionTypeOK

LEMMA AnswerFoundKeeps ==
    ASSUME SessionInv, NEW k \in calls, AnswerFound(k)
    PROVE  SessionInv'
<1> USE DEF AnswerFound
<1>1. k.user \in Users /\ page # "accept"
  BY DEF SessionInv, CallsOK, CallOK, VisitOK
<1>2. CASE /\ Founds(k.user)
           /\ PersistAuth(k.user, members'[k.user])
           /\ ShowDashboard(calls \ {k})
           /\ visit' = NoVisit
           /\ UNCHANGED <<timer, faults>>
  <2>1. ServerGrows /\ members'[k.user] # {}
    BY <1>1, <1>2, FoundsGrows
  <2>2. SessionSafe'
    BY <1>1, <1>2, <2>1, SessionPersisted
  <2>3. PageSafe'
    BY <1>2, <2>1, <2>2, DashboardShown
  <2> QED
    BY <1>2, <2>1, <2>2, <2>3, ServerStaysSafe, PartsOfSessionInvNext
    DEF RestSafe, SessionInv, TypeOK, SessionTypeOK
<1>3. CASE /\ Unheard(k) /\ UNCHANGED visit
           /\ UNCHANGED faults \/ Faulty
           /\ UNCHANGED server \/ Founds(k.user)
  <2>1. ServerGrows
    BY <1>1, <1>3, ServerStays, FoundsGrows
  <2>2. PageSafe'
    BY <1>1, <1>3, <2>1, CallAnswered DEF Unheard
  <2> QED
    BY <1>3, <2>1, <2>2, QuietAnswer DEF Unheard
<1> QED
  BY <1>2, <1>3

\* A visitor who has signed in on the invitation page still sees its spinner, so the
\* effect does not accept.
LEMMA AnswerLoginKeeps ==
    ASSUME SessionInv, NEW k \in calls, AnswerLogin(k)
    PROVE  SessionInv'
<1> USE DEF AnswerLogin
<1>1. ServerGrows
  BY ServerStays
<1>2. k.user \in Users /\ k.kind = "login"
  BY DEF SessionInv, CallsOK, CallOK
<1>3. page = "accept" => k.from = "accept" /\ ~AutoAccepts(visit)
  BY DEF SessionInv, VisitOK, AutoAccepts
<1>4. CASE /\ members[k.user] # {}
           /\ PersistAuth(k.user, members[k.user])
           /\ UNCHANGED <<timer, faults>>
           /\ IF k.from = "accept"
              THEN /\ UNCHANGED page
                   /\ RunEffect(visit, calls \ {k}, page = "accept" /\ ~IsAuthenticated)
              ELSE /\ UNCHANGED visit
                   /\ \/ ShowDashboard(calls \ {k})
                      \/ /\ page' = IF k.from = "login" THEN "picker" ELSE page
                         /\ calls' = calls \ {k}
  <2>1. members'[k.user] = members[k.user]
    BY DEF server
  <2>2. SessionSafe'
    BY <1>1, <1>2, <1>4, <2>1, SessionPersisted
  <2>3. PageSafe'
    <3>1. CASE k.from = "accept"
      <4>1. UNCHANGED page /\ visit' = visit /\ calls' = calls \ {k}
        BY <1>2, <1>3, <1>4, <3>1 DEF RunEffect
      <4> QED
        BY <1>1, <1>2, <4>1, CallAnswered
    <3>2. CASE k.from # "accept" /\ ShowDashboard(calls \ {k}) /\ UNCHANGED visit
      <4>1. visit' = NoVisit
        BY <1>3, <3>2, NoVisitElsewhere
      <4> QED
        BY <1>1, <2>2, <3>2, <4>1, DashboardShown
    <3>3. CASE /\ k.from # "accept"
               /\ page' = IF k.from = "login" THEN "picker" ELSE page
               /\ calls' = calls \ {k}
               /\ UNCHANGED visit
      <4>1. visit' = NoVisit /\ page' \in Pages \ {"accept"}
        BY <1>3, <3>3, NoVisitElsewhere DEF Pages, SessionInv, TypeOK, SessionTypeOK
      <4> QED
        BY <1>1, <3>3, <4>1, CallsKept, OtherPage
    <3> QED
      BY <1>4, <3>1, <3>2, <3>3
  <2> QED
    BY <1>1, <1>4, <2>2, <2>3, ServerStaysSafe, PartsOfSessionInvNext
    DEF RestSafe, SessionInv, TypeOK, SessionTypeOK
<1>5. CASE Unauthorized(k) /\ UNCHANGED faults
  BY <1>1, <1>5, UnauthorizedKeeps, ServerStaysSafe, PartsOfSessionInvNext
  DEF RestSafe, SessionInv, TypeOK, SessionTypeOK
<1>6. CASE Faulty /\ Unheard(k) /\ FormAgain(FALSE)
  <2>1. PageSafe'
    BY <1>1, <1>2, <1>6, FormAgainKeeps
  <2> QED
    BY <1>1, <1>6, <2>1, QuietAnswer DEF Unheard
<1> QED
  BY <1>4, <1>5, <1>6

\* An acceptance that finds the session of its own token: nobody has become a member
\* meanwhile, so that React lists what the request knew.
LEMMA StorageJoined ==
    ASSUME SessionInv, NEW k \in calls, k.kind = "accept", invite = "pending", Accepted,
           storage' = [storage EXCEPT !.tenants = Joined(k.known), !.active = Inviting],
           strayed' = (strayed \/ storage.user # k.token),
           UNCHANGED react
    PROVE  SessionSafe'
<1> USE DEF SessionInv, TypeOK, SessionTypeOK
<1>1. ServerGrows /\ invite' = "accepted"
  BY AcceptedGrows
<1>2. k.known \in SUBSET Tenants
  BY DEF Call
<1>3. storage' \in SessionData
  BY <1>2 DEF SessionData, Joined
<1>4. /\ storage'.user = storage.user
      /\ storage'.tenants = k.known \cup {Inviting}
      /\ storage'.active = Inviting
  BY DEF SessionData, Joined
<1>5. Lists(react)' /\ Lists(storage)'
  BY <1>1, <1>4, SessionStaysListed DEF SessionsOK, Lists
<1>6. StorageKnows'
  <2>1. SUFFICES ASSUME ~strayed, storage.user = k.token, storage.user # None
                 PROVE  react.tenants \subseteq k.known
    BY <1>4 DEF StorageKnows
  <2>2. react.user = storage.user
    BY <2>1 DEF TokenIsOfShownUser
  <2> QED
    BY <2>1, <2>2 DEF SessionsOK, Lists, CallsOK, CallOK
<1> QED
  BY <1>3, <1>4, <1>5, <1>6 DEF SessionSafe, SessionsOK, TokenIsOfShownUser, ActiveIsListed

LEMMA AnswerAcceptKeeps ==
    ASSUME SessionInv, NEW k \in calls, AnswerAccept(k)
    PROVE  SessionInv'
<1> USE DEF AnswerAccept
<1>1. k \in Call /\ k.kind = "accept"
  BY DEF SessionInv, TypeOK, SessionTypeOK
<1>2. CASE /\ invite = "pending"
           /\ Accepted
           /\ storage' = [storage EXCEPT !.tenants = Joined(k.known), !.active = Inviting]
           /\ visit' = IF page = "accept"
                       THEN [visit EXCEPT !.success = TRUE, !.loading = FALSE] ELSE visit
           /\ timer' = {k.known}
           /\ calls' = calls \ {k}
           /\ strayed' = (strayed \/ storage.user # k.token)
           /\ UNCHANGED <<react, page, faults>>
  <2>1. ServerGrows
    BY <1>2, AcceptedGrows
  <2>2. SessionSafe'
    BY <1>1, <1>2, StorageJoined
  <2>3. calls' \subseteq Call /\ CallsOK'
    BY <1>2, <2>1, CallsKept DEF CallsOK
  <2>4. PageSafe'
    <3>1. CASE page = "accept"
      <4>1. visit \in VisitState
        BY DEF SessionInv, TypeOK, SessionTypeOK
      <4>2. visit.accepts = 1 /\ calls' = {}
        BY <1>1, <1>2, <3>1 DEF SessionInv, VisitOK
      <4>3. visit' = [visit EXCEPT !.success = TRUE, !.loading = FALSE]
        BY <1>2, <3>1
      <4>4. visit' = [loading |-> FALSE, success |-> TRUE, accepts |-> visit.accepts]
        BY <4>1, <4>3 DEF VisitState
      <4>5. visit' \in VisitState /\ visit'.success /\ visit'.accepts = 1
        BY <4>2, <4>4 DEF VisitState
      <4>6. VisitOK'
        BY <1>2, <3>1, <4>2, <4>5 DEF VisitOK
      <4> QED
        BY <1>2, <2>3, <3>1, <4>5, <4>6 DEF PageSafe, Pages
    <3>2. CASE page # "accept"
      BY <1>2, <2>1, <3>2, CallAnswered
    <3> QED
      BY <3>1, <3>2
  <2>5. timer' \in TimerState
    BY <1>1, <1>2 DEF TimerState, Call
  <2>6. strayed' \in BOOLEAN
    BY <1>2
  <2> QED
    BY <1>2, <2>1, <2>2, <2>4, <2>5, <2>6, ServerStaysSafe, PartsOfSessionInvNext
    DEF RestSafe, SessionInv, TypeOK, SessionTypeOK
<1>3. CASE /\ Unheard(k) /\ FormAgain(TRUE)
           /\ UNCHANGED strayed
           /\ UNCHANGED faults \/ Faulty
           /\ UNCHANGED server \/ Accepted
  <2>1. ServerGrows
    BY <1>3, ServerStays, AcceptedGrows
  <2>2. PageSafe'
    BY <1>1, <1>3, <2>1, FormAgainKeeps
  <2> QED
    BY <1>3, <2>1, <2>2, QuietAnswer DEF Unheard
<1> QED
  BY <1>2, <1>3

\* Registering signs the visitor in, which triggers the effect; success keeps it quiet.
LEMMA AnswerRegisterKeeps ==
    ASSUME SessionInv, NEW k \in calls, AnswerRegister(k)
    PROVE  SessionInv'
<1> USE DEF AnswerRegister
<1>1. k \in Call /\ k.kind = "register" /\ k.known \in SUBSET Tenants
  BY DEF SessionInv, TypeOK, SessionTypeOK, Call
<1>2. CASE /\ invite = "pending"
           /\ Accepted
           /\ react' = Workspaces(Invitee, {Inviting}, Inviting)
           /\ storage' = Workspaces(Invitee, Joined(k.known), Inviting)
           /\ timer' = {k.known}
           /\ RunEffect(IF page = "accept" THEN [visit EXCEPT !.success = TRUE] ELSE visit,
                        calls \ {k}, page = "accept" /\ ~IsAuthenticated)
           /\ UNCHANGED <<page, faults, strayed>>
  <2>1. ServerGrows /\ invite' = "accepted" /\ members'[Invitee] # {}
    BY <1>2, AcceptedGrows
  <2>2. SessionSafe'
    <3>1. /\ react' = [user |-> Invitee, tenants |-> {Inviting}, active |-> Inviting]
          /\ storage' = [user |-> Invitee, tenants |-> k.known \cup {Inviting},
                         active |-> Inviting]
      BY <1>2 DEF Workspaces, Joined
    <3>2. react' \in SessionData /\ storage' \in SessionData
      BY <1>1, <3>1 DEF SessionData
    <3> QED
      BY <2>1, <3>1, <3>2
      DEF SessionSafe, SessionsOK, Lists, TokenIsOfShownUser, StorageKnows, ActiveIsListed
  <2>3. calls' \subseteq calls \ {k} => calls' \subseteq Call /\ CallsOK'
    BY <2>1, CallsKept DEF CallsOK
  <2>4. PageSafe'
    <3>1. CASE page = "accept"
      <4>1. visit \in VisitState
        BY DEF SessionInv, TypeOK, SessionTypeOK
      <4>2. visit.accepts = 1 /\ calls \ {k} = {}
        BY <1>1, <3>1 DEF SessionInv, VisitOK
      <4>3. PICK v : v = [visit EXCEPT !.success = TRUE]
        OBVIOUS
      <4>4. v \in VisitState /\ v.success /\ v.accepts = 1
        BY <4>1, <4>2, <4>3 DEF VisitState
      <4>5. visit' = v /\ calls' = {}
        BY <1>2, <3>1, <4>2, <4>3, <4>4 DEF RunEffect, AutoAccepts
      <4>6. VisitOK'
        BY <1>2, <3>1, <4>4, <4>5 DEF VisitOK
      <4> QED
        BY <1>2, <2>3, <3>1, <4>4, <4>5, <4>6 DEF PageSafe, Pages
    <3>2. CASE page # "accept"
      <4>1. visit' = visit /\ calls' = calls \ {k}
        BY <1>2, <3>2 DEF RunEffect
      <4> QED
        BY <1>2, <2>1, <3>2, <4>1, CallAnswered
    <3> QED
      BY <3>1, <3>2
  <2>5. timer' \in TimerState
    BY <1>1, <1>2 DEF TimerState
  <2> QED
    BY <1>2, <2>1, <2>2, <2>4, <2>5, ServerStaysSafe, PartsOfSessionInvNext
    DEF RestSafe, SessionInv, TypeOK, SessionTypeOK
<1>3. CASE /\ Unheard(k) /\ FormAgain(TRUE)
           /\ UNCHANGED strayed
           /\ UNCHANGED faults \/ Faulty
           /\ UNCHANGED server \/ Accepted
  <2>1. ServerGrows
    BY <1>3, ServerStays, AcceptedGrows
  <2>2. PageSafe'
    BY <1>1, <1>3, <2>1, FormAgainKeeps
  <2> QED
    BY <1>3, <2>1, <2>2, QuietAnswer DEF Unheard
<1> QED
  BY <1>2, <1>3

\* The timer switches both copies, whatever they list by then; strayed tells.
LEMMA TimerFiresKeeps ==
    ASSUME SessionInv, TimerFires
    PROVE  SessionInv'
<1>1. PICK known \in timer :
         /\ SwitchTenant(Inviting, known)
         /\ strayed' = (strayed \/ Inviting \notin storage.tenants
                                \/ Inviting \in known \ react.tenants)
  BY DEF TimerFires
<1>2. /\ ShowDashboard(calls)
      /\ timer' = {}
      /\ visit' = NoVisit
      /\ UNCHANGED <<server, faults>>
  BY DEF TimerFires
<1>3. ServerGrows
  BY <1>2, ServerStays
<1>4. SessionSafe'
  <2> USE DEF SessionInv, TypeOK, SessionTypeOK
  <2>1. CASE Inviting \in known
    <3>1. /\ react' = [react EXCEPT !.active = Inviting]
          /\ storage' = [storage EXCEPT !.active = Inviting]
      BY <1>1, <2>1 DEF SwitchTenant
    <3>2. react' \in SessionData /\ storage' \in SessionData
      BY <3>1 DEF SessionData
    <3>3. /\ react'.user = react.user /\ react'.tenants = react.tenants
          /\ react'.active = Inviting
          /\ storage'.user = storage.user /\ storage'.tenants = storage.tenants
          /\ storage'.active = Inviting
      BY <3>1 DEF SessionData
    <3>4. Lists(react)' /\ Lists(storage)'
      BY <1>3, <3>3, SessionStaysListed DEF SessionsOK, Lists
    <3> QED
      BY <1>1, <2>1, <3>2, <3>3, <3>4
      DEF SessionSafe, SessionsOK, TokenIsOfShownUser, StorageKnows, ActiveIsListed
  <2>2. CASE Inviting \notin known
    BY <1>1, <1>3, <2>2, SessionKept DEF SwitchTenant
  <2> QED
    BY <2>1, <2>2
<1>5. PageSafe'
  BY <1>2, <1>3, <1>4, DashboardShown
<1>6. timer' \in TimerState /\ strayed' \in BOOLEAN
  BY <1>1, <1>2 DEF TimerState
<1> QED
  BY <1>2, <1>3, <1>4, <1>5, <1>6, ServerStaysSafe, PartsOfSessionInvNext
  DEF RestSafe, SessionInv, TypeOK, SessionTypeOK

(***************************************************************************)
(* The theorems.                                                           *)
(***************************************************************************)
LEMMA NextKeepsSessionInv ==
    ASSUME SessionInv, [Next]_sessionVars
    PROVE  SessionInv'
<1>1. CASE Click
  BY <1>1, SubmitLoginKeeps, SubmitRegisterKeeps, SignInAndAcceptKeeps, WalkKeeps,
     SelectWorkspaceKeeps, LogoutKeeps, GoToDashboardKeeps, RefreshKeeps, ChooseTenantKeeps,
     OpenLinkKeeps, ReloadKeeps, RegisterAndAcceptKeeps
  DEF Click
<1>2. CASE Answer
  BY <1>2, AnswerDataKeeps, AnswerLoginKeeps, AnswerFoundKeeps, AnswerAcceptKeeps,
     AnswerRegisterKeeps
  DEF Answer
<1>3. CASE TimerFires
  BY <1>3, TimerFiresKeeps
<1>4. CASE UNCHANGED sessionVars
  BY <1>4
  DEF sessionVars, SessionInv, TypeOK, SessionTypeOK, CallsOK, CallOK, VisitOK, SessionsOK,
      Lists, TokenIsOfShownUser, StorageKnows, ActiveIsListed
<1> QED
  BY <1>1, <1>2, <1>3, <1>4 DEF Next

\* Whatever people do in a tab, and whenever answers arrive: both copies of the session,
\* the requests in flight and the invitation page agree as SessionInv says.
THEOREM SessionsAgree == Spec => []SessionInv
<1>1. SessionInv /\ [Next]_sessionVars => SessionInv'
  BY NextKeepsSessionInv
<1> QED
  BY InitSessionInv, <1>1, PTL DEF Spec

\* The fields of AuthProvider, localStorage and the requests are what their readers
\* take them for.
THEOREM SessionTypes == Spec => []TypeOK
<1>1. SessionInv => TypeOK
  BY DEF SessionInv
<1> QED
  BY SessionsAgree, <1>1, PTL

\* A request never carries the token of somebody the page does not show: persistAuth,
\* clearAuth, the interceptor and the invitation page write the copies in an order
\* no late answer breaks.
THEOREM TokensAreOfShownUsers == Spec => []TokenIsOfShownUser
<1>1. SessionInv => TokenIsOfShownUser
  BY DEF SessionInv
<1> QED
  BY SessionsAgree, <1>1, PTL

\* The X-Tenant-ID a tab sends is that of a workspace it lists, unless an acceptance
\* was applied after its session had ended.
THEOREM ActiveWorkspacesAreListed == Spec => []ActiveIsListed
<1>1. SessionInv => ActiveIsListed
  BY DEF SessionInv
<1> QED
  BY SessionsAgree, <1>1, PTL

\* The effect of AcceptInvitation and its two forms accept once in a visit.
THEOREM VisitsAcceptOnce == Spec => []AcceptsOnce
<1>1. SessionInv => AcceptsOnce
  BY DEF SessionInv, VisitOK, AcceptsOnce, NoVisit
<1> QED
  BY SessionsAgree, <1>1, PTL

=============================================================================
