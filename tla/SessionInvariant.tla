------------------------- MODULE SessionInvariant -------------------------
(***************************************************************************)
(* What the two copies of a session, the requests in flight and the        *)
(* invitation page know of each other: the inductive invariant behind the  *)
(* safety properties of Browser.                                           *)
(***************************************************************************)
EXTENDS Browser

\* A request carries the credentials its answer is about.  An acceptance is sent
\* with a token, by somebody who knows the workspaces he is a member of; they are
\* what he knows at least until the invitation is accepted.
CallOK(k) ==
    /\ k.kind \in {"login", "found"} => k.user \in Users
    /\ k.kind = "accept" =>
          /\ k.token \in Users
          /\ members[k.token] # {}
          /\ invite = "pending" => k.known = members[k.token]

CallsOK == \A k \in calls : CallOK(k)

\* The invitation page has one request out at most, sent by itself, and its buttons
\* are disabled meanwhile; an acceptance is counted while it is out and when it has
\* succeeded.  Other pages have no visit.
VisitOK ==
    IF page = "accept"
    THEN /\ \A k \in calls :
               /\ k.kind \in {"login", "accept", "register"}
               /\ k.from = "accept"
               /\ visit.loading /\ ~visit.success
         /\ \A j, k \in calls : j = k
         /\ visit.accepts =
               IF visit.success \/ \E k \in calls : k.kind # "login" THEN 1 ELSE 0
    ELSE visit = NoVisit

\* Who has a session is a member of some workspace.  Until the invitation is accepted
\* the session lists exactly his workspaces.
Lists(s) ==
    s.user # None =>
        /\ members[s.user] # {}
        /\ invite = "pending" => s.tenants = members[s.user]

SessionsOK == Lists(storage) /\ Lists(react)

\* What React offers to switch to is known to localStorage, unless an acceptance was
\* applied after its session had ended.
StorageKnows ==
    ~strayed /\ storage.user # None => react.tenants \subseteq storage.tenants

SessionInv ==
    /\ TypeOK
    /\ CallsOK
    /\ VisitOK
    /\ SessionsOK
    /\ TokenIsOfShownUser
    /\ StorageKnows
    /\ ActiveIsListed

=============================================================================
