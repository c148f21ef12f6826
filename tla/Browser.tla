------------------------------ MODULE Browser ------------------------------
(***************************************************************************)
(* One tab in use: people sign in and out, switch workspaces, reload, and  *)
(* follow the link of an invitation, while answers arrive late.            *)
(***************************************************************************)
EXTENDS InvitePage

Click ==
    \/ \E u \in Users : SubmitLogin(u) \/ SubmitRegister(u) \/ SignInAndAccept(u)
    \/ GoToRegister \/ GoToLogin
    \/ DifferentUser \/ SelectWorkspace \/ Logout \/ GoToDashboard \/ Refresh
    \/ \E t \in Tenants : ChooseTenant(t)
    \/ OpenLink \/ Reload \/ RegisterAndAccept

Answer ==
    \/ \E token \in Users \cup {None} : AnswerData(token)
    \/ \E k \in calls : AnswerLogin(k) \/ AnswerFound(k) \/ AnswerAccept(k) \/ AnswerRegister(k)

Next == Click \/ Answer \/ TimerFires

Init == InitSession

Spec == Init /\ [][Next]_sessionVars

(***************************************************************************)
(* Requests are answered or fail, and timers run out.  Nobody has to click.*)
(***************************************************************************)
FairSpec ==
    /\ Spec
    /\ \A token \in Users \cup {None} : WF_sessionVars(AnswerData(token))
    /\ WF_sessionVars(\E k \in calls : AnswerLogin(k))
    /\ WF_sessionVars(\E k \in calls : AnswerFound(k))
    /\ WF_sessionVars(\E k \in calls : AnswerAccept(k))
    /\ WF_sessionVars(\E k \in calls : AnswerRegister(k))
    /\ WF_sessionVars(TimerFires)

TypeOK == SessionTypeOK

(***************************************************************************)
(* Safety.                                                                 *)
(***************************************************************************)

\* The token that requests carry is that of the user the page shows, or none: the
\* copies of the session in React and in localStorage are written in different
\* places, and no order of late answers makes them those of different users.
TokenIsOfShownUser == storage.user \in {None, react.user}

\* The active workspace is one of the memberships, in both copies, unless an
\* acceptance was applied after its session had ended.
ActiveIsListed ==
    ~strayed =>
        \A s \in {storage, react} : s.user # None => s.active \in s.tenants

\* One visit of the invitation page does not accept a second time what it has
\* accepted, nor while an acceptance is in flight, although accepting makes its
\* visitor authenticated, which triggers the effect that accepts.
AcceptsOnce == visit.accepts <= 1

(***************************************************************************)
(* Liveness.                                                               *)
(***************************************************************************)

\* A dashboard shown to somebody whose token is gone from localStorage does not
\* stay: its request is answered 401, unless it fails, and the interceptor leaves.
GhostsLeave ==
    page = "dashboard" /\ DataCall(None) \in calls /\ faults = MaxFaults
        ~> page # "dashboard" \/ storage.user # None

(***************************************************************************)
(* What the page says, and the code does not do.                           *)
(***************************************************************************)

\* AcceptInvitation.jsx:7, "Existing users sign in, then the invite is accepted".
SignInAccepts ==
    page = "accept" /\ IsAuthenticated /\ invite = "pending"
        ~> invite = "accepted" \/ page # "accept" \/ ~IsAuthenticated

=============================================================================
