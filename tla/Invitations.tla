---------------------------- MODULE Invitations ----------------------------
(***************************************************************************)
(* invitationController.js: a tenant_admin invites an address into his     *)
(* workspace (createInvitation), and whoever has the token accepts         *)
(* (acceptInvitation).                                                     *)
(***************************************************************************)
EXTENDS Directory

(***************************************************************************)
(* createInvitation.  Nothing is locked before the DELETE: each SELECT     *)
(* sees what is committed at that moment.                                  *)
(***************************************************************************)
FreshInvite(i) ==
    /\ invites[i].state = "none"
    /\ \A v \in Workers : req[v].invite # i

InviteExists(i) == invites[i].state \in {"pending", "accepted"}

\* Another role than the inviteable ones falls back to provider.
TargetRole(r) == IF r \in InviteRoles THEN r ELSE "provider"

\* The token of the new row, random, is chosen here.
RequestInvite(w) ==
    \E t \in tenants, e \in Emails, r \in Roles, i \in InviteIds :
        /\ FreshInvite(i)
        /\ Begin(w, [NoRequest EXCEPT !.op = "invite", !.tenant = t, !.email = e,
                                      !.role = TargetRole(r), !.invite = i])

FindInvitee(w) ==
    /\ At(w, "invite", "begin")
    /\ Advance(w, IF req[w].email \in users THEN "account" ELSE "checked", req[w])
    /\ UNCHANGED inviteLock

CheckMember(w) ==
    /\ At(w, "invite", "account")
    /\ \/ IsMember(req[w].tenant, req[w].email) /\ Refuse(w, "conflict")
       \/ /\ ~IsMember(req[w].tenant, req[w].email)
          /\ Advance(w, "checked", req[w])
          /\ UNCHANGED inviteLock

FindPending(w) ==
    /\ At(w, "invite", "checked")
    /\ \/ /\ PendingFor(req[w].tenant, req[w].email) = {}
          /\ Advance(w, "written", req[w])
       \/ \E i \in PendingFor(req[w].tenant, req[w].email) :
             Advance(w, "replacing", [req[w] EXCEPT !.old = i])
    /\ UNCHANGED inviteLock

\* DELETE ... WHERE id = $1, once it has the row, deletes it whatever has become of
\* it, or finds it gone.
DeletePending(w) ==
    /\ At(w, "invite", "replacing")
    /\ inviteLock' = IF InviteExists(req[w].old)
                      THEN [inviteLock EXCEPT ![req[w].old] = w]
                      ELSE inviteLock
    /\ Advance(w, "written", req[w])

Replaced(old) == IF old = None THEN invites ELSE [invites EXCEPT ![old].state = "deleted"]

CommitInvite(w) ==
    /\ At(w, "invite", "written")
    /\ invites' = [Replaced(req[w].old) EXCEPT ![req[w].invite] =
          [state |-> "pending", tenant |-> req[w].tenant, email |-> req[w].email,
           role |-> req[w].role, expired |-> FALSE, uses |-> 0]]
    /\ UNCHANGED <<tenants, users, members>>
    /\ Commit(w)

\* Seven days pass.
Expire(i) ==
    /\ invites[i].state = "pending"
    /\ ~invites[i].expired
    /\ invites' = [invites EXCEPT ![i].expired = TRUE]
    /\ UNCHANGED <<tenants, users, members, inviteLock, pc, req, reply, faults>>

(***************************************************************************)
(* The opening of acceptInvitation and of onboarding by token: SELECT ...  *)
(* FOR UPDATE on the invitation, then its checks.                          *)
(***************************************************************************)

\* A SELECT without FOR UPDATE.
InviteLockFree_NoForUpdate(i) == TRUE

InviteLockFree(i) == inviteLock[i] = None

InviteSelected(w) == pc[w] = "begin" /\ InviteExists(req[w].invite)

\* Statements that wait for a transaction that has an invitation's row locked: the
\* SELECT ... FOR UPDATE and the DELETE of a replacement.
LocksInvite(w) == req[w].op \in {"accept", "join"} /\ InviteSelected(w)

\* The founder's open invitations are withdrawn first, by a DELETE of its own.
AwaitsRow_Withdrawing(w) ==
    \/ LocksInvite(w) /\ ~InviteLockFree(req[w].invite)
    \/ At(w, "invite", "replacing") /\ inviteLock[req[w].old] # None
    \/ /\ At(w, "register", "account")
       /\ \E i \in InviteIds : invites[i].email = req[w].email /\ inviteLock[i] # None

AwaitsRow(w) ==
    \/ LocksInvite(w) /\ ~InviteLockFree(req[w].invite)
    \/ At(w, "invite", "replacing") /\ inviteLock[req[w].old] # None

RefuseInvite(w) ==
    \/ pc[w] = "begin" /\ ~InviteExists(req[w].invite) /\ Refuse(w, "not_found")
    \/ /\ InviteSelected(w)
       /\ invites[req[w].invite].state = "accepted"
       /\ Refuse(w, "conflict")
    \/ /\ InviteSelected(w)
       /\ invites[req[w].invite].state = "pending" /\ invites[req[w].invite].expired
       /\ Refuse(w, "gone")

\* A handler that forgets to look at accepted_at.
CanUse_AcceptedToo(w) == InviteSelected(w) /\ ~invites[req[w].invite].expired

CanUse(w) ==
    /\ InviteSelected(w)
    /\ invites[req[w].invite].state = "pending"
    /\ ~invites[req[w].invite].expired

\* The handler goes on for address e, with the invitation's tenant and role.
KeepInviteLocked(w, e) ==
    /\ inviteLock' = [inviteLock EXCEPT ![req[w].invite] = w]
    /\ Advance(w, "locked", [req[w] EXCEPT !.tenant = invites[req[w].invite].tenant,
                                           !.role = invites[req[w].invite].role,
                                           !.email = e])

(***************************************************************************)
(* acceptInvitation.                                                       *)
(***************************************************************************)
RequestAccept(w) ==
    \E i \in InviteIds, password \in BOOLEAN :
        /\ invites[i].state # "none"
        /\ Begin(w, [NoRequest EXCEPT !.op = "accept", !.invite = i, !.password = password])

LockForAccept(w) ==
    /\ req[w].op = "accept"
    /\ \/ RefuseInvite(w)
       \/ CanUse(w) /\ KeepInviteLocked(w, invites[req[w].invite].email)

FindAccount(w) ==
    /\ At(w, "accept", "locked")
    /\ \/ /\ req[w].email \notin users /\ ~req[w].password
          /\ Refuse(w, "invalid")
       \/ /\ req[w].email \in users \/ req[w].password
          /\ Advance(w, IF req[w].email \in users THEN "account" ELSE "no_account", req[w])
          /\ UNCHANGED inviteLock

CreateAccount(w) == At(w, "accept", "no_account") /\ InsertUser(w)

\* Looks for any membership of the user.
AlreadyIn_AnyTenant(t, e) == \E u \in Slugs : IsMember(u, e)

AlreadyIn(t, e) == IsMember(t, e)

FindMembership(w) ==
    /\ At(w, "accept", "account")
    /\ Advance(w, IF AlreadyIn(req[w].tenant, req[w].email) THEN "joined" ELSE "unjoined", req[w])
    /\ UNCHANGED inviteLock

AddMembership(w) == At(w, "accept", "unjoined") /\ InsertMember(w)

CommitAccept(w) ==
    /\ At(w, "accept", "joined")
    /\ CommitUser(w)
    /\ CommitMember(w)
    /\ invites' = [invites EXCEPT ![req[w].invite].state = "accepted",
                                  ![req[w].invite].uses = @ + 1]
    /\ UNCHANGED tenants
    /\ Commit(w)

InvitationStep(w) ==
    \/ FindInvitee(w) \/ CheckMember(w) \/ FindPending(w) \/ DeletePending(w) \/ CommitInvite(w)
    \/ LockForAccept(w) \/ FindAccount(w) \/ CreateAccount(w)
    \/ FindMembership(w) \/ AddMembership(w) \/ CommitAccept(w)

=============================================================================
