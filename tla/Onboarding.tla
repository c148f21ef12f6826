----------------------------- MODULE Onboarding -----------------------------
(***************************************************************************)
(* registerTenantAdmin of tenantController.js: with an invitation's token  *)
(* a new user joins the workspace ("join"), without one a new workspace is *)
(* founded together with its tenant_admin ("register").                    *)
(***************************************************************************)
EXTENDS Invitations

(***************************************************************************)
(* The flow with a token.                                                  *)
(***************************************************************************)
RequestJoin(w) ==
    \E i \in InviteIds, e \in Emails :
        /\ invites[i].state # "none"
        /\ Begin(w, [NoRequest EXCEPT !.op = "join", !.invite = i, !.email = e])

\* The address typed is not compared with the invited one.
EmailMatches_Unchecked(i, e) == TRUE

EmailMatches(i, e) == Lower[invites[i].email] = Lower[e]

LockForJoin(w) ==
    /\ req[w].op = "join"
    /\ \/ RefuseInvite(w)
       \/ CanUse(w) /\ ~EmailMatches(req[w].invite, req[w].email) /\ Refuse(w, "forbidden")
       \/ /\ CanUse(w) /\ EmailMatches(req[w].invite, req[w].email)
          /\ KeepInviteLocked(w, req[w].email)

\* There is no look for an account: the INSERT finds out.
JoinAccount(w) == At(w, "join", "locked") /\ InsertUser(w)

JoinMembership(w) == At(w, "join", "account") /\ InsertMember(w)

CommitJoin(w) ==
    /\ At(w, "join", "joined")
    /\ CommitUser(w)
    /\ CommitMember(w)
    /\ invites' = [invites EXCEPT ![req[w].invite].state = "deleted",
                                  ![req[w].invite].uses = @ + 1]
    /\ UNCHANGED tenants
    /\ Commit(w)

(***************************************************************************)
(* The flow without.                                                       *)
(***************************************************************************)
RequestRegister(w) ==
    \E t \in Slugs, e \in Emails :
        Begin(w, [NoRequest EXCEPT !.op = "register", !.tenant = t, !.email = e,
                                   !.role = "tenant_admin"])

TenantInFlight(w) ==
    \E v \in Workers \ {w} : /\ req[v].op = "register" /\ pc[v] # "begin"
                             /\ req[v].tenant = req[w].tenant

InsertTenant(w) ==
    /\ At(w, "register", "begin")
    /\ \/ req[w].tenant \in tenants /\ Refuse(w, "duplicate")
       \/ /\ req[w].tenant \notin tenants
          /\ Advance(w, "named", req[w])
          /\ UNCHANGED inviteLock

RegisterAccount(w) == At(w, "register", "named") /\ InsertUser(w)

RegisterMembership(w) == At(w, "register", "account") /\ InsertMember(w)

CommitRegister(w) ==
    /\ At(w, "register", "joined")
    /\ tenants' = tenants \cup {req[w].tenant}
    /\ CommitUser(w)
    /\ CommitMember(w)
    /\ UNCHANGED invites
    /\ Commit(w)

(***************************************************************************)
(* The INSERTs of the three ways in, each of which waits while another     *)
(* transaction has the same key in flight.                                 *)
(***************************************************************************)
InsertsUser(w) ==
    At(w, "accept", "no_account") \/ At(w, "join", "locked") \/ At(w, "register", "named")

InsertsMember(w) ==
    At(w, "accept", "unjoined") \/ At(w, "join", "account") \/ At(w, "register", "account")

AwaitsKey(w) ==
    \/ At(w, "register", "begin") /\ TenantInFlight(w)
    \/ InsertsUser(w) /\ UserInFlight(w)
    \/ InsertsMember(w) /\ MemberInFlight(w)

OnboardingStep(w) ==
    \/ LockForJoin(w) \/ JoinAccount(w) \/ JoinMembership(w) \/ CommitJoin(w)
    \/ InsertTenant(w) \/ RegisterAccount(w) \/ RegisterMembership(w) \/ CommitRegister(w)

=============================================================================
