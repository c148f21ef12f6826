----------------------------- MODULE Directory -----------------------------
(***************************************************************************)
(* Who belongs to which workspace: the tables tenants, users, tenant_users *)
(* and tenant_invitations, and how a request handler reaches them.         *)
(*                                                                         *)
(* A tenant is known by its slug and a user by the email address: both are *)
(* NOT NULL and UNIQUE, and nothing updates or deletes these rows.  A step *)
(* is one awaited query of a READ COMMITTED transaction, and writes are    *)
(* applied by the step that commits, as in BookingStore.                   *)
(***************************************************************************)
EXTENDS Naturals

CONSTANTS
    Slugs,         \* tenants.slug
    Emails,        \* users.email, as it was typed
    Lower,         \* toLowerCase, on Emails
    InviteIds,     \* rows of tenant_invitations, and their tokens
    InviteRoles,   \* the roles an invitation can carry
    Workers,       \* requests that can be in flight at once
    MaxFaults,     \* bound on lost connections, crashes and failed queries
    None           \* an absent field, a lock nobody holds

ASSUME LowerIsLower == Lower \in [Emails -> Emails] /\ \A e \in Emails : Lower[Lower[e]] = Lower[e]

ASSUME InviteRolesAreRoles ==
    InviteRoles \subseteq {"provider", "staff", "customer"} /\ "provider" \in InviteRoles

ASSUME NoneIsNothing == None \notin Slugs \cup Emails \cup InviteIds \cup Workers

ASSUME FaultsAreBounded == MaxFaults \in Nat

VARIABLES
    tenants,      \* the slugs of the tenants
    users,        \* the addresses that have an account
    members,      \* Slugs -> Emails -> role in tenant_users, or "none"
    invites,      \* InviteIds -> row of tenant_invitations
    inviteLock,   \* the worker whose transaction has an invitation's row locked
    pc,           \* how far each worker's handler has come
    req,          \* the request each worker is serving
    reply,        \* the last answer each worker's client got
    faults        \* faults so far

tables == <<tenants, users, members, invites>>

dirVars == <<tenants, users, members, invites, inviteLock, pc, req, reply, faults>>

Roles == InviteRoles \cup {"tenant_admin"}

(***************************************************************************)
(* accepted_at is NULL while an invitation is pending; expires_at has      *)
(* passed when it is expired.  uses is a history field: how often a        *)
(* transaction that used the invitation has committed.                     *)
(***************************************************************************)
Invite == [state : {"pending", "accepted", "deleted"}, tenant : Slugs, email : Emails,
           role : InviteRoles, expired : BOOLEAN, uses : Nat]

NoInvite == [state |-> "none", tenant |-> None, email |-> None, role |-> "none",
             expired |-> FALSE, uses |-> 0]

Ops == {"invite", "accept", "join", "register"}

Labels == {"idle", "begin", "locked", "named", "no_account", "account", "checked",
           "replacing", "unjoined", "joined", "written"}

Replies == {"none", "ok", "lost", "not_found", "forbidden", "invalid", "conflict",
            "gone", "duplicate", "fault"}

\* newUser and newMember: rows the transaction has inserted and not committed.
Request == [op : Ops, tenant : Slugs \cup {None}, email : Emails \cup {None},
            role : Roles \cup {"none"}, invite : InviteIds \cup {None},
            old : InviteIds \cup {None}, password : BOOLEAN,
            newUser : BOOLEAN, newMember : BOOLEAN]

NoRequest == [op |-> "none", tenant |-> None, email |-> None, role |-> "none",
              invite |-> None, old |-> None, password |-> FALSE,
              newUser |-> FALSE, newMember |-> FALSE]

TypeOK ==
    /\ tenants \subseteq Slugs
    /\ users \subseteq Emails
    /\ members \in [Slugs -> [Emails -> Roles \cup {"none"}]]
    /\ invites \in [InviteIds -> Invite \cup {NoInvite}]
    /\ inviteLock \in [InviteIds -> Workers \cup {None}]
    /\ pc \in [Workers -> Labels]
    /\ req \in [Workers -> Request \cup {NoRequest}]
    /\ reply \in [Workers -> Replies]
    /\ faults \in 0 .. MaxFaults

\* A fresh database.
Init ==
    /\ tenants = {}
    /\ users = {}
    /\ members = [t \in Slugs |-> [e \in Emails |-> "none"]]
    /\ invites = [i \in InviteIds |-> NoInvite]
    /\ inviteLock = [i \in InviteIds |-> None]
    /\ pc = [w \in Workers |-> "idle"]
    /\ req = [w \in Workers |-> NoRequest]
    /\ reply = [w \in Workers |-> "none"]
    /\ faults = 0

(***************************************************************************)
(* The life of a transaction.                                              *)
(***************************************************************************)
Begin(w, r) ==
    /\ pc[w] = "idle"
    /\ pc' = [pc EXCEPT ![w] = "begin"]
    /\ req' = [req EXCEPT ![w] = r]
    /\ reply' = [reply EXCEPT ![w] = "none"]
    /\ UNCHANGED <<tables, inviteLock, faults>>

At(w, op, label) == req[w].op = op /\ pc[w] = label

\* On to the next query, with what this one has told (r).
Advance(w, label, r) ==
    /\ pc' = [pc EXCEPT ![w] = label]
    /\ req' = [req EXCEPT ![w] = r]
    /\ UNCHANGED <<tables, reply, faults>>

Finish(w, code) ==
    /\ pc' = [pc EXCEPT ![w] = "idle"]
    /\ req' = [req EXCEPT ![w] = NoRequest]
    /\ reply' = [reply EXCEPT ![w] = code]
    /\ inviteLock' = [i \in InviteIds |-> IF inviteLock[i] = w THEN None ELSE inviteLock[i]]

Refuse(w, code) ==
    /\ Finish(w, code)
    /\ UNCHANGED <<tables, faults>>

\* COMMIT.  The answer can be lost, or fail: acceptInvitation has a query left.
Commit(w) ==
    \/ Finish(w, "ok") /\ UNCHANGED faults
    \/ /\ faults < MaxFaults
       /\ faults' = faults + 1
       /\ Finish(w, "lost")

Fail(w) ==
    /\ pc[w] # "idle"
    /\ faults < MaxFaults
    /\ faults' = faults + 1
    /\ Finish(w, "fault")
    /\ UNCHANGED tables

(***************************************************************************)
(* What the queries ask of the tables.                                     *)
(***************************************************************************)
IsMember(t, e) == members[t][e] # "none"

PendingFor(t, e) ==
    {i \in InviteIds : /\ invites[i].state = "pending"
                       /\ invites[i].tenant = t
                       /\ invites[i].email = e}

(***************************************************************************)
(* A unique index makes an INSERT wait for another transaction's           *)
(* uncommitted row with the same key.                                      *)
(***************************************************************************)
UserInFlight(w) == \E v \in Workers \ {w} : req[v].newUser /\ req[v].email = req[w].email

MemberInFlight(w) ==
    \E v \in Workers \ {w} : /\ req[v].newMember
                             /\ req[v].tenant = req[w].tenant
                             /\ req[v].email = req[w].email

(***************************************************************************)
(* INSERT INTO users and INSERT INTO tenant_users, shared by the three     *)
(* ways into a workspace.                                                  *)
(***************************************************************************)

InsertUser(w) ==
    \/ req[w].email \in users /\ Refuse(w, "duplicate")
    \/ /\ req[w].email \notin users
       /\ Advance(w, "account", [req[w] EXCEPT !.newUser = TRUE])
       /\ UNCHANGED inviteLock

\* INSERT ... ON CONFLICT DO UPDATE SET role.
InsertMember_Upsert(w) ==
    /\ Advance(w, "joined", [req[w] EXCEPT !.newMember = TRUE])
    /\ UNCHANGED inviteLock

InsertMember(w) ==
    \/ IsMember(req[w].tenant, req[w].email) /\ Refuse(w, "duplicate")
    \/ /\ ~IsMember(req[w].tenant, req[w].email)
       /\ Advance(w, "joined", [req[w] EXCEPT !.newMember = TRUE])
       /\ UNCHANGED inviteLock

\* The rows a transaction has inserted appear with its COMMIT.
CommitUser(w) == users' = IF req[w].newUser THEN users \cup {req[w].email} ELSE users

CommitMember(w) ==
    members' = IF req[w].newMember
               THEN [members EXCEPT ![req[w].tenant][req[w].email] = req[w].role]
               ELSE members

=============================================================================
