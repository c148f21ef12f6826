----------------------------- MODULE Workspaces -----------------------------
(***************************************************************************)
(* Invitations and onboarding side by side over one database.              *)
(***************************************************************************)
EXTENDS Onboarding

CONSTANT Offered    \* the requests clients send in this instance

ASSUME OfferedAreOps == Offered \subseteq Ops

Arrive(w) ==
    \/ "invite" \in Offered /\ RequestInvite(w)
    \/ "accept" \in Offered /\ RequestAccept(w)
    \/ "join" \in Offered /\ RequestJoin(w)
    \/ "register" \in Offered /\ RequestRegister(w)

\* PostgreSQL keeps a statement waiting for a row or a key of another transaction.
Waits(w) == AwaitsRow(w) \/ AwaitsKey(w)

Handle(w) == ~Waits(w) /\ (InvitationStep(w) \/ OnboardingStep(w))

Next ==
    \/ \E w \in Workers : Arrive(w) \/ Handle(w) \/ Fail(w)
    \/ \E i \in InviteIds : Expire(i)

Spec == Init /\ [][Next]_dirVars

(***************************************************************************)
(* Safety.                                                                 *)
(***************************************************************************)

\* A token works once: however accept and onboarding race with it, with each other
\* and with its replacement, at most one transaction that used it commits.
InvitationUsedOnce == \A i \in InviteIds : invites[i].uses <= 1

\* Who is told that his invitation has been accepted is a member.
AcceptedMeansMember ==
    \A i \in InviteIds :
        invites[i].state = "accepted" => IsMember(invites[i].tenant, invites[i].email)

\* No circle of waiting transactions: whatever rows and keys the transactions in
\* flight hold and wait for, the next statement of one of them has nothing to wait for.
NoWaitCycle ==
    (\E w \in Workers : pc[w] # "idle") => \E w \in Workers : pc[w] # "idle" /\ ~Waits(w)

\* The invitations under which address e may enter workspace t with role r.
Invites(t, e, r) ==
    {i \in InviteIds : /\ invites[i].state = "pending"
                       /\ invites[i].tenant = t
                       /\ invites[i].role = r
                       /\ Lower[invites[i].email] = Lower[e]}

\* Whoever becomes a member either founds the workspace, as its tenant_admin, or
\* uses up an invitation of that workspace to his address (upper and lower case
\* apart) and that role, which is still pending when his transaction commits.
MembersAreInvited ==
    [][\A t \in Slugs, e \in Emails : ~IsMember(t, e) /\ members'[t][e] # "none" =>
          \/ t \notin tenants /\ members'[t][e] = "tenant_admin"
          \/ \E i \in Invites(t, e, members'[t][e]) : invites'[i].state # "pending"]_dirVars

\* A role is given once; a second invitation does not change it.
RolesAreKept ==
    [][\A t \in Slugs, e \in Emails : IsMember(t, e) => members'[t][e] = members[t][e]]_dirVars

=============================================================================
