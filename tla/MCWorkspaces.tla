---------------------------- MODULE MCWorkspaces ----------------------------
(***************************************************************************)
(* Workspaces for TLC, with an address that is written in two ways or with *)
(* addresses that differ in more than that.                                *)
(***************************************************************************)
EXTENDS WorkspacesInvariant, TLC

MCEmails == {"ann", "Ann", "bob"}

MCLower == [e \in MCEmails |-> IF e = "Ann" THEN "ann" ELSE e]

\* What anybody will read of an invitation: of one that is used up neither its role
\* nor whether its time has passed, of a deleted one how often it was used.
Remains(invite) ==
    CASE invite.state = "accepted" -> <<invite.tenant, invite.email, invite.uses>>
      [] invite.state = "deleted" -> <<invite.uses>>
      [] OTHER -> <<invite>>

\* Nothing reads the answers, and a fault leaves the tables and locks as if its request
\* had not come, so that the number of faults tells no states apart that matter.
View ==
    <<tenants, users, members, inviteLock, pc, req, [i \in InviteIds |-> Remains(invites[i])]>>

Symmetry == Permutations(Workers) \cup Permutations(InviteIds) \cup Permutations(Slugs)

=============================================================================
