------------------------ MODULE WorkspacesInvariant ------------------------
(***************************************************************************)
(* What carries the knowledge of a handler of Workspaces from its SELECTs  *)
(* to its COMMIT: the inductive invariant behind the safety properties.    *)
(***************************************************************************)
EXTENDS Workspaces

\* Past its SELECT ... FOR UPDATE, w is using an invitation up.
Using(w) == req[w].op \in {"accept", "join"} /\ pc[w] # "begin"

\* Past its INSERT INTO tenants, w is founding a workspace.
Founding(w) == req[w].op = "register" /\ pc[w] # "begin"

\* A request has the fields its handler reads.
RequestOK(w) ==
    /\ pc[w] = "idle" <=> req[w].op = "none"
    /\ req[w].op = "invite" =>
          /\ req[w].tenant \in Slugs
          /\ req[w].email \in Emails
          /\ req[w].role \in InviteRoles
          /\ req[w].invite \in InviteIds
    /\ req[w].op \in {"accept", "join"} =>
          /\ req[w].invite \in InviteIds
          /\ invites[req[w].invite].state # "none"
    /\ req[w].op = "join" => req[w].email \in Emails
    /\ req[w].op = "register" =>
          /\ req[w].tenant \in Slugs
          /\ req[w].email \in Emails
          /\ req[w].role = "tenant_admin"
          /\ req[w].invite = None
    /\ req[w].newUser \/ req[w].newMember => Using(w) \/ Founding(w)

\* A new invitation's token is known to its own transaction only.
TokenOK(w) ==
    req[w].op = "invite" =>
        /\ invites[req[w].invite].state = "none"
        /\ \A v \in Workers \ {w} : req[v].invite # req[w].invite

\* What a replacement deletes is locked by it, or gone already.
ReplacedOK(w) ==
    req[w].old # None =>
        /\ req[w].op = "invite"
        /\ pc[w] \in {"replacing", "written"}
        /\ req[w].old \in InviteIds
        /\ invites[req[w].old].state # "none"
        /\ pc[w] = "written" =>
              inviteLock[req[w].old] = w \/ invites[req[w].old].state = "deleted"

\* An invitation in use is locked, pending, and says what its user is about to do.
UsedOK(w) ==
    Using(w) =>
        /\ inviteLock[req[w].invite] = w
        /\ invites[req[w].invite].state = "pending"
        /\ invites[req[w].invite].tenant = req[w].tenant
        /\ invites[req[w].invite].role = req[w].role
        /\ Lower[invites[req[w].invite].email] = Lower[req[w].email]
        /\ req[w].op = "accept" => invites[req[w].invite].email = req[w].email

\* A membership row not committed yet is the only one with its key.
MemberOK(w) ==
    req[w].newMember => ~IsMember(req[w].tenant, req[w].email) /\ ~MemberInFlight(w)

\* A workspace not committed yet is the only one with its slug.
FounderOK(w) == Founding(w) => req[w].tenant \notin tenants /\ ~TenantInFlight(w)

\* An acceptance about to commit has made or found its membership.
JoinedOK(w) ==
    req[w].op = "accept" /\ pc[w] = "joined" =>
        req[w].newMember \/ IsMember(req[w].tenant, req[w].email)

WorkerOK(w) ==
    /\ RequestOK(w)
    /\ TokenOK(w)
    /\ ReplacedOK(w)
    /\ UsedOK(w)
    /\ MemberOK(w)
    /\ FounderOK(w)
    /\ JoinedOK(w)

\* A pending invitation has not been used.
UsesOK ==
    \A i \in InviteIds :
        /\ invites[i].uses <= 1
        /\ invites[i].state = "pending" => invites[i].uses = 0

\* What the handlers know of the rows.
RowsInv ==
    /\ TypeOK
    /\ UsesOK
    /\ AcceptedMeansMember
    /\ \A w \in Workers : WorkerOK(w)

(***************************************************************************)
(* Who makes others wait, and what he still has to do: tenants.slug comes  *)
(* before users.email and that before tenant_users, an invitation's row    *)
(* before all of them.                                                     *)
(***************************************************************************)

\* The statements of each handler, and when a row of its own is in flight.
StageOK(w) ==
    /\ At(w, "invite", "replacing") => req[w].old # None
    /\ req[w].op = "invite" =>
          pc[w] \in {"begin", "account", "checked", "replacing", "written"}
    /\ req[w].op = "accept" =>
          pc[w] \in {"begin", "locked", "no_account", "account", "unjoined", "joined"}
    /\ req[w].op = "join" => pc[w] \in {"begin", "locked", "account", "joined"}
    /\ req[w].op = "register" => pc[w] \in {"begin", "named", "account", "joined"}
    /\ req[w].newUser => pc[w] \in {"account", "unjoined", "joined"}
    /\ req[w].newMember => pc[w] = "joined"

\* An invitation's row is locked by who uses it up or has deleted it.
LockOK(i) ==
    inviteLock[i] # None =>
        \E w \in Workers :
            /\ inviteLock[i] = w
            /\ \/ Using(w) /\ req[w].invite = i
               \/ At(w, "invite", "written") /\ req[w].old = i

OrderInv == (\A w \in Workers : StageOK(w)) /\ (\A i \in InviteIds : LockOK(i))

WInv == RowsInv /\ OrderInv

=============================================================================
