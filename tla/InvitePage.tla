----------------------------- MODULE InvitePage -----------------------------
(***************************************************************************)
(* AcceptInvitation: the page behind the link of an invitation, with its   *)
(* three ways to accept it.  It writes localStorage past AuthProvider.     *)
(***************************************************************************)
EXTENDS Session

(***************************************************************************)
(* The effect with dependencies [isAuthenticated, token], which runs after *)
(* the first render and whenever isAuthenticated has changed.              *)
(***************************************************************************)

\* if (isAuthenticated && token)
AutoAccepts_Unguarded(v) == TRUE

\* !success && !loading, of the render the effect belongs to.
AutoAccepts(v) == ~v.success /\ ~v.loading

AcceptCall == [kind |-> "accept", from |-> "accept", user |-> None,
               token |-> storage'.user, known |-> react'.tenants]

\* The page is shown with state v and others are in flight; isAuthenticated has
\* become true in this render if signedIn.
RunEffect(v, others, signedIn) ==
    IF signedIn /\ AutoAccepts(v)
    THEN /\ visit' = [v EXCEPT !.loading = TRUE,
                               !.accepts = IF @ < 2 THEN @ + 1 ELSE @]
         /\ calls' = others \cup {AcceptCall}
    ELSE visit' = v /\ calls' = others

OpenLink ==
    /\ UNCHANGED storage
    /\ react' = storage
    /\ page' = "accept"
    /\ timer' = {}
    /\ RunEffect(NoVisit, {}, storage.user # None)
    /\ UNCHANGED <<server, faults, strayed>>

\* Reloading the page that is shown.
Reload ==
    /\ page # "accept"
    /\ UNCHANGED storage
    /\ react' = storage
    /\ timer' = {}
    /\ visit' = NoVisit
    /\ IF page = "dashboard" /\ storage.user # None
       THEN page' = page /\ calls' = {DataCall(storage.user)}
       ELSE /\ page' = IF page = "register" THEN page ELSE "login"
            /\ calls' = {}
    /\ UNCHANGED <<server, faults, strayed>>

(***************************************************************************)
(* The form: sign in, or create an account.  A spinner takes its place     *)
(* while loading && isAuthenticated.                                       *)
(***************************************************************************)
FormShown == page = "accept" /\ ~visit.loading /\ ~visit.success

SignInAndAccept(u) ==
    /\ FormShown
    /\ visit' = [visit EXCEPT !.loading = TRUE]
    /\ calls' = calls \cup {Request("login", u, storage.user, {})}
    /\ UNCHANGED <<server, storage, react, page, timer, faults, strayed>>

RegisterAndAccept ==
    /\ FormShown
    /\ visit' = [visit EXCEPT !.loading = TRUE, !.accepts = IF @ < 2 THEN @ + 1 ELSE @]
    /\ calls' = calls \cup {Request("register", Invitee, storage.user, react.tenants)}
    /\ UNCHANGED <<server, storage, react, page, timer, faults, strayed>>

\* What a refused or failed request leaves of the page, if it is still shown.
FormAgain(given) ==
    visit' = IF page = "accept"
             THEN [visit EXCEPT !.loading = FALSE,
                                !.accepts = IF given /\ @ > 0 THEN @ - 1 ELSE @]
             ELSE visit

\* login of AuthProvider, from either page.  handleLoginAndAccept resets loading
\* only when the sign-in fails.
AnswerLogin(k) ==
    /\ k \in calls /\ k.kind = "login"
    /\ \/ /\ members[k.user] # {}
          /\ PersistAuth(k.user, members[k.user])
          /\ UNCHANGED <<timer, faults>>
          /\ IF k.from = "accept"
             THEN UNCHANGED page /\ RunEffect(visit, calls \ {k}, page = "accept" /\ ~IsAuthenticated)
             ELSE /\ UNCHANGED visit
                  /\ \/ /\ Cardinality(members[k.user]) = 1
                        /\ ShowDashboard(calls \ {k})
                     \/ /\ Cardinality(members[k.user]) > 1
                        /\ page' = IF k.from = "login" THEN "picker" ELSE page
                        /\ calls' = calls \ {k}
       \/ Unauthorized(k) /\ UNCHANGED faults
       \/ Faulty /\ Unheard(k) /\ FormAgain(FALSE)
    /\ UNCHANGED <<server, strayed>>

(***************************************************************************)
(* POST /invitations/accept.  It is for the address in the invitation,     *)
(* whoever is signed in.                                                   *)
(***************************************************************************)
Accepted ==
    /\ invite' = "accepted"
    /\ members' = [members EXCEPT ![Invitee] = @ \cup {Inviting}]

\* Memberships without the new one.
Joined_Forgotten(known) == known

\* Memberships of a closure, then the new one.
Joined(known) == known \cup {Inviting}

\* handleAcceptInvite adds the workspace to localStorage without AuthProvider.
AnswerAccept(k) ==
    /\ k \in calls /\ k.kind = "accept"
    /\ \/ /\ invite = "pending"
          /\ Accepted
          /\ storage' = [storage EXCEPT !.tenants = Joined(k.known), !.active = Inviting]
          /\ visit' = IF page = "accept"
                      THEN [visit EXCEPT !.success = TRUE, !.loading = FALSE] ELSE visit
          /\ timer' = {k.known}
          /\ calls' = calls \ {k}
          /\ strayed' = (strayed \/ storage.user # k.token)
          /\ UNCHANGED <<react, page, faults>>
       \/ /\ invite = "accepted"
          /\ Unheard(k) /\ FormAgain(TRUE)
          /\ UNCHANGED <<server, faults, strayed>>
       \/ /\ Faulty
          /\ Unheard(k) /\ FormAgain(TRUE)
          /\ UNCHANGED strayed
          /\ UNCHANGED server \/ (invite = "pending" /\ Accepted)

\* acceptInvite of AuthProvider, then the same additions to localStorage.  loading
\* stays, and keeps the effect from accepting once more.
AnswerRegister(k) ==
    /\ k \in calls /\ k.kind = "register"
    /\ \/ /\ invite = "pending"
          /\ Accepted
          /\ react' = Workspaces(Invitee, {Inviting}, Inviting)
          /\ storage' = Workspaces(Invitee, Joined(k.known), Inviting)
          /\ timer' = {k.known}
          /\ RunEffect(IF page = "accept" THEN [visit EXCEPT !.success = TRUE] ELSE visit,
                       calls \ {k}, page = "accept" /\ ~IsAuthenticated)
          /\ UNCHANGED <<page, faults, strayed>>
       \/ /\ invite = "accepted"
          /\ Unheard(k) /\ FormAgain(TRUE)
          /\ UNCHANGED <<server, faults, strayed>>
       \/ /\ Faulty
          /\ Unheard(k) /\ FormAgain(TRUE)
          /\ UNCHANGED strayed
          /\ UNCHANGED server \/ (invite = "pending" /\ Accepted)

\* 1.5 s after an acceptance: switchTenant of the old closure, then the dashboard.
TimerFires ==
    \E known \in timer :
        /\ SwitchTenant(Inviting, known)
        /\ ShowDashboard(calls)
        /\ timer' = {}
        /\ visit' = NoVisit
        /\ strayed' = (strayed \/ Inviting \notin storage.tenants \/ Inviting \in known \ react.tenants)
        /\ UNCHANGED <<server, faults>>

=============================================================================
