------------------------------ MODULE Session ------------------------------
(***************************************************************************)
(* The session of a browser tab: what AuthProvider keeps in React state,   *)
(* what it mirrors by hand in localStorage, and the axios interceptors,    *)
(* which only know the latter.                                             *)
(*                                                                         *)
(* A step is one event of the tab: a click, an answer, a timer.  What its  *)
(* handler does up to the next await, the render that follows and the      *)
(* effects of that render belong to the step.  Names, roles and the order  *)
(* of workspaces are left out.                                             *)
(***************************************************************************)
EXTENDS Naturals, FiniteSets

CONSTANTS
    Users,        \* people who use this browser
    Tenants,      \* workspaces
    Invitee,      \* whom the invitation is for
    Inviting,     \* the workspace that invites
    MaxCalls,     \* bound on requests in flight
    MaxFaults,    \* bound on lost requests, lost answers and 500s
    None          \* nobody, no workspace

ASSUME InvitationIsComplete == Invitee \in Users /\ Inviting \in Tenants

ASSUME NoneIsNobody == None \notin Users \cup Tenants

ASSUME FaultsAreCounted == MaxFaults \in Nat

VARIABLES
    members,    \* Users -> their workspaces in the database; {}: no account
    invite,     \* the invitation in the database: "pending" or "accepted"
    storage,    \* localStorage: token and user, memberships, activeTenant
    react,      \* the same in AuthProvider's state
    page,       \* the page the tab shows
    visit,      \* the state of AcceptInvitation while it is shown
    timer,      \* its setTimeout: the memberships its closure knows; {}: not set
    calls,      \* requests in flight
    faults,     \* faults so far
    strayed     \* history: an acceptance was applied to another's session

server == <<members, invite>>

tab == <<storage, react, page, visit, timer, calls>>

sessionVars == <<members, invite, storage, react, page, visit, timer, calls, faults, strayed>>

(***************************************************************************)
(* token and user are written and removed together: one field.             *)
(***************************************************************************)
SessionData == [user : Users \cup {None}, tenants : SUBSET Tenants, active : Tenants \cup {None}]

SignedOut == [user |-> None, tenants |-> {}, active |-> None]

Pages == {"login", "register", "picker", "dashboard", "accept"}

VisitState == [loading : BOOLEAN, success : BOOLEAN, accepts : 0 .. 2]

NoVisit == [loading |-> FALSE, success |-> FALSE, accepts |-> 0]

\* user: whose credentials a form carries; token: whose token the request
\* interceptor found in localStorage; known: memberships in the caller's closure;
\* from: the page that sent it, "left" once that is a login page no longer shown.
Call == [kind  : {"login", "found", "data", "accept", "register"},
         from  : Pages \cup {"left"},
         user  : Users \cup {None},
         token : Users \cup {None},
         known : SUBSET Tenants]

TimerState == {{}} \cup {{known} : known \in SUBSET Tenants}

SessionTypeOK ==
    /\ members \in [Users -> SUBSET Tenants]
    /\ invite \in {"pending", "accepted"}
    /\ storage \in SessionData
    /\ react \in SessionData
    /\ page \in Pages
    /\ visit \in VisitState
    /\ timer \in TimerState
    /\ calls \subseteq Call
    /\ faults \in 0 .. MaxFaults
    /\ strayed \in BOOLEAN

\* A first visit.  createInvitation does not invite members.
InitSession ==
    /\ members \in [Users -> SUBSET Tenants]
    /\ Inviting \notin members[Invitee]
    /\ invite = "pending"
    /\ storage = SignedOut
    /\ react = SignedOut
    /\ page = "login"
    /\ visit = NoVisit
    /\ timer = {}
    /\ calls = {}
    /\ faults = 0
    /\ strayed = FALSE

IsAuthenticated == react.user # None

(***************************************************************************)
(* AuthProvider's writers.                                                 *)
(***************************************************************************)

\* A persistAuth that takes the list for its first element.
Workspaces_List(u, ts, primary) == [user |-> u, tenants |-> ts, active |-> ts]

\* The session persistAuth builds: primary is workspaces[0].
Workspaces(u, ts, primary) == [user |-> u, tenants |-> ts, active |-> primary]

\* A persistAuth that leaves localStorage alone when it has a session already.
InStorage_First(new) == IF storage.user = None THEN new ELSE storage

\* What persistAuth leaves in localStorage.
InStorage(new) == new

PersistAuth(u, ts) ==
    \E primary \in ts :
        /\ react' = Workspaces(u, ts, primary)
        /\ storage' = InStorage(Workspaces(u, ts, primary))

ClearAuth == storage' = SignedOut /\ react' = SignedOut

\* switchTenant, from a render that knew these memberships.
SwitchTenant(t, known) ==
    IF t \in known
    THEN /\ react' = [react EXCEPT !.active = t]
         /\ storage' = [storage EXCEPT !.active = t]
    ELSE UNCHANGED <<react, storage>>

(***************************************************************************)
(* Requests and answers.                                                   *)
(***************************************************************************)
Request(kind, user, token, known) ==
    [kind |-> kind, from |-> page, user |-> user, token |-> token, known |-> known]

\* The dashboard reads its data when it is mounted, with the token in localStorage.
DataCall(token) ==
    [kind |-> "data", from |-> "dashboard", user |-> None, token |-> token, known |-> {}]

CanSend == Cardinality(calls) < MaxCalls

\* AuthProvider's loading, which disables the submit buttons of Login and Register.
Loading == \E k \in calls : k.kind \in {"login", "found", "register"}

\* A login page that is left does not hear its answer.
Left(cs) == {[k EXCEPT !.from = IF k.kind = "login" /\ @ = "login" THEN "left" ELSE @] : k \in cs}

\* ProtectedRoute, which asks React, and the mount of the dashboard.
ShowDashboard(others) ==
    IF react'.user # None
    THEN /\ page' = "dashboard"
         /\ calls' = IF page = "dashboard" THEN others
                     ELSE Left(others) \cup {DataCall(storage'.user)}
    ELSE page' = "login" /\ calls' = others

\* Loading a page anew drops the requests of the old one and reads localStorage.
Load(where) ==
    /\ react' = storage'
    /\ page' = where
    /\ calls' = {}
    /\ timer' = {}
    /\ visit' = NoVisit

\* An interceptor that stays on the page.
Unauthorized_Stays(k) ==
    /\ storage' = SignedOut
    /\ calls' = calls \ {k}
    /\ UNCHANGED <<react, page, visit, timer>>

\* The response interceptor on a 401: localStorage is cleared, and every page but
\* /login is left by loading /login.  The picker is part of /login.
Unauthorized(k) ==
    /\ storage' = SignedOut
    /\ IF page \in {"login", "picker"}
       THEN calls' = calls \ {k} /\ UNCHANGED <<react, page, visit, timer>>
       ELSE Load("login")

\* The answer changes nothing but the state of its own form.
Unheard(k) ==
    /\ calls' = calls \ {k}
    /\ UNCHANGED <<storage, react, page, timer>>

Faulty == faults < MaxFaults /\ faults' = faults + 1

(***************************************************************************)
(* Login, Register, the workspace picker, the bar and the dashboard.       *)
(***************************************************************************)

SubmitLogin(u) ==
    /\ page = "login"
    /\ CanSend
    /\ ~Loading
    /\ calls' = calls \cup {Request("login", u, storage.user, {})}
    /\ UNCHANGED <<server, storage, react, page, visit, timer, faults, strayed>>

\* "Create workspace" of the login form; "Get Started" to who is signed out.
GoToRegister ==
    /\ page = "login" \/ ~IsAuthenticated
    /\ page # "register"
    /\ page' = "register"
    /\ calls' = Left(calls)
    /\ visit' = NoVisit
    /\ UNCHANGED <<server, storage, react, timer, faults, strayed>>

\* "Sign in" of the register form; the same of the bar, to who is signed out.
GoToLogin ==
    /\ page = "register" \/ ~IsAuthenticated
    /\ page \notin {"login", "picker"}
    /\ page' = "login"
    /\ visit' = NoVisit
    /\ UNCHANGED <<server, storage, react, timer, calls, faults, strayed>>

SubmitRegister(u) ==
    /\ page = "register"
    /\ CanSend
    /\ ~Loading
    /\ calls' = calls \cup {Request("found", u, storage.user, {})}
    /\ UNCHANGED <<server, storage, react, page, visit, timer, faults, strayed>>

\* "Sign in as different user": the form again, with the session still there.
DifferentUser ==
    /\ page = "picker"
    /\ page' = "login"
    /\ UNCHANGED <<server, storage, react, visit, timer, calls, faults, strayed>>

\* The picker shows the workspaces of the login, also to who has logged out since.
SelectWorkspace ==
    /\ page = "picker"
    /\ \E t \in Tenants :
          /\ IsAuthenticated => t \in react.tenants
          /\ SwitchTenant(t, react.tenants)
    /\ ShowDashboard(calls)
    /\ UNCHANGED <<server, visit, timer, faults, strayed>>

\* Navigating from /login to /login leaves the picker where it is.
Logout ==
    /\ IsAuthenticated
    /\ ClearAuth
    /\ page' = IF page = "picker" THEN "picker" ELSE "login"
    /\ visit' = NoVisit
    /\ UNCHANGED <<server, timer, calls, faults, strayed>>

ChooseTenant(t) ==
    /\ IsAuthenticated
    /\ Cardinality(react.tenants) > 1
    /\ t \in react.tenants
    /\ SwitchTenant(t, react.tenants)
    /\ ShowDashboard(calls)
    /\ visit' = NoVisit
    /\ UNCHANGED <<server, timer, faults, strayed>>

GoToDashboard ==
    /\ IsAuthenticated
    /\ page # "dashboard"
    /\ UNCHANGED <<react, storage>>
    /\ ShowDashboard(calls)
    /\ visit' = NoVisit
    /\ UNCHANGED <<server, timer, faults, strayed>>

\* The refresh button, once the requests before have been answered.
Refresh ==
    /\ page = "dashboard"
    /\ CanSend
    /\ \A k \in calls : k.kind # "data"
    /\ calls' = {DataCall(storage.user)} \cup calls
    /\ UNCHANGED <<server, storage, react, page, visit, timer, faults, strayed>>

\* onboard makes the user the first member of a new workspace.  It refuses a user
\* who has an account, and anybody whose slug is taken.
Founds(u) ==
    /\ members[u] = {}
    /\ \E t \in Tenants \ {Inviting} :
          /\ \A other \in Users : t \notin members[other]
          /\ members' = [members EXCEPT ![u] = {t}]
    /\ UNCHANGED invite

\* register of AuthProvider.  navigate('/dashboard') works from wherever the tab is.
AnswerFound(k) ==
    /\ k \in calls /\ k.kind = "found"
    /\ \/ /\ Founds(k.user)
          /\ PersistAuth(k.user, members'[k.user])
          /\ ShowDashboard(calls \ {k})
          /\ visit' = NoVisit
          /\ UNCHANGED <<timer, faults>>
       \/ /\ Unheard(k)
          /\ UNCHANGED <<server, visit, faults>>
       \/ /\ Faulty
          /\ Unheard(k) /\ UNCHANGED visit
          /\ UNCHANGED server \/ Founds(k.user)
    /\ UNCHANGED strayed

\* The answer to a data request: 401 when there was no token or it has expired.
AnswerData(token) ==
    LET k == DataCall(token)
    IN  /\ k \in calls
        /\ \/ /\ token # None
              /\ Unheard(k)
              /\ UNCHANGED <<visit, faults>>
           \/ Unauthorized(k) /\ UNCHANGED faults
           \/ Faulty /\ Unheard(k) /\ UNCHANGED visit
        /\ UNCHANGED <<server, strayed>>

=============================================================================
