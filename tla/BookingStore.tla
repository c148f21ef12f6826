---------------------------- MODULE BookingStore ----------------------------
(***************************************************************************)
(* How a request handler reaches the tables: one worker per request in     *)
(* flight, each with its own pg client and its own READ COMMITTED          *)
(* transaction (BEGIN ... COMMIT or ROLLBACK).                             *)
(*                                                                         *)
(* A step of a worker is one awaited query, or a run of queries that only  *)
(* touch rows the worker already has locked.  Writes are private until     *)
(* COMMIT, so they are applied to the tables in the committing step.  A    *)
(* SELECT ... FOR UPDATE whose handler answers 4xx at once locks and       *)
(* releases in one step.                                                   *)
(***************************************************************************)
EXTENDS Schema

CONSTANTS
    Workers,     \* requests that can be in flight at once
    MaxFaults    \* bound on lost connections, crashes and failed queries

ASSUME NoneIsNoWorker == None \notin Workers

ASSUME FaultsAreBounded == MaxFaults \in Nat

VARIABLES
    slotLock,      \* the worker whose transaction has a slot's row locked
    bookingLock,   \* the same for a booking's row
    pc,            \* how far each worker's handler has come
    req,           \* the request each worker is serving
    reply,         \* the last answer each worker's client got
    faults         \* faults so far

locks == <<slotLock, bookingLock>>

workers == <<pc, req, reply>>

storeVars == <<slots, bookings, invoices, slotLock, bookingLock, pc, req, reply, faults>>

(***************************************************************************)
(* Requests: the handler (op), the caller's token (tenant, role, user) and *)
(* the fields of the path and body a handler reads, None when absent.      *)
(***************************************************************************)
SlotOps == {"update", "delete", "book", "checkout", "webhook"}

Ops == SlotOps \cup {"create", "status"}

Labels == {"idle", "begin", "locked", "checked", "written"}

Replies == {"none", "ok", "lost", "not_found", "forbidden", "invalid", "conflict",
            "duplicate", "reference", "fault"}

NoRequest == [op |-> "none", tenant |-> None, role |-> "none", user |-> None,
              slot |-> None, staff |-> None, from |-> None, to |-> None,
              booking |-> None, status |-> "none", payment |-> None]

Request == [op      : Ops \cup {"none"},
            tenant  : Tenants \cup {None},
            role    : {"none", "tenant_admin", "provider"},
            user    : Staff \cup Customers \cup {None},
            slot    : SlotIds \cup {None},
            staff   : Staff \cup {None},
            from    : Times \cup {None},
            to      : Times \cup {None},
            booking : BookingIds \cup {None},
            status  : BookingStatus \cup {"none"},
            payment : PaymentIds \cup {None}]

StoreTypeOK ==
    /\ TablesTypeOK
    /\ slotLock \in [SlotIds -> Workers \cup {None}]
    /\ bookingLock \in [BookingIds -> Workers \cup {None}]
    /\ pc \in [Workers -> Labels]
    /\ req \in [Workers -> Request]
    /\ reply \in [Workers -> Replies]
    /\ faults \in 0 .. MaxFaults

InitStore ==
    /\ InitTables
    /\ slotLock = [s \in SlotIds |-> None]
    /\ bookingLock = [b \in BookingIds |-> None]
    /\ pc = [w \in Workers |-> "idle"]
    /\ req = [w \in Workers |-> NoRequest]
    /\ reply = [w \in Workers |-> "none"]
    /\ faults = 0

(***************************************************************************)
(* The life of a transaction.                                              *)
(***************************************************************************)

\* A free worker picks up a request.
Begin(w, r) ==
    /\ pc[w] = "idle"
    /\ pc' = [pc EXCEPT ![w] = "begin"]
    /\ req' = [req EXCEPT ![w] = r]
    /\ reply' = [reply EXCEPT ![w] = "none"]
    /\ UNCHANGED <<tables, locks, faults>>

At(w, op, label) == req[w].op = op /\ pc[w] = label

\* The transaction ends, its locks go and the client is answered.
Finish(w, code) ==
    /\ pc' = [pc EXCEPT ![w] = "idle"]
    /\ req' = [req EXCEPT ![w] = NoRequest]
    /\ reply' = [reply EXCEPT ![w] = code]
    /\ slotLock' = [s \in SlotIds |-> IF slotLock[s] = w THEN None ELSE slotLock[s]]
    /\ bookingLock' =
          [b \in BookingIds |-> IF bookingLock[b] = w THEN None ELSE bookingLock[b]]

\* ROLLBACK, or a refusal before BEGIN.
Refuse(w, code) ==
    /\ Finish(w, code)
    /\ UNCHANGED <<tables, faults>>

\* COMMIT.  The connection or the pod can go between COMMIT and the answer.
Commit(w) ==
    \/ Finish(w, "ok") /\ UNCHANGED faults
    \/ /\ faults < MaxFaults
       /\ faults' = faults + 1
       /\ Finish(w, "lost")

\* A query fails or the pod goes before COMMIT: the catch block, or Postgres
\* when the connection drops, rolls back.
Fail(w) ==
    /\ pc[w] # "idle"
    /\ faults < MaxFaults
    /\ faults' = faults + 1
    /\ Finish(w, "fault")
    /\ UNCHANGED tables

(***************************************************************************)
(* SELECT ... WHERE id = $1 AND tenant_id = $2 FOR UPDATE.  A row that is  *)
(* not there is reported at once; a row another transaction has locked is  *)
(* waited for and then read again.                                         *)
(***************************************************************************)

\* WHERE id = $1 alone.
SlotVisible_AnyTenant(s, t) == SlotExists(s)

SlotVisible(s, t) == SlotExists(s) /\ slots[s].tenant = t

BookingVisible(b, t) == BookingExists(b) /\ bookings[b].tenant = t

\* A SELECT without FOR UPDATE.
SlotLockFree_NoForUpdate(s) == TRUE

SlotLockFree(s) == slotLock[s] = None

BookingLockFree_NoForUpdate(b) == TRUE

BookingLockFree(b) == bookingLock[b] = None

SlotMissing(w) ==
    /\ pc[w] = "begin"
    /\ ~SlotVisible(req[w].slot, req[w].tenant)
    /\ Refuse(w, "not_found")

\* The row is there and its lock can be had: the handler goes on to look at it.
SlotSelected(w) ==
    /\ pc[w] = "begin"
    /\ SlotVisible(req[w].slot, req[w].tenant)
    /\ SlotLockFree(req[w].slot)

KeepSlotLocked(w) ==
    /\ slotLock' = [slotLock EXCEPT ![req[w].slot] = w]
    /\ pc' = [pc EXCEPT ![w] = "locked"]
    /\ UNCHANGED <<tables, bookingLock, reply, faults>>

\* Never looks at is_booked.
IsBooked_Unchecked(s) == FALSE

IsBooked(s) == slots[s].state = "booked"

\* The opening of createBooking, createCheckoutSession and the webhook.
LockOpenSlot(w) ==
    \/ SlotMissing(w)
    \/ /\ SlotSelected(w)
       /\ IsBooked(req[w].slot)
       /\ Refuse(w, "conflict")
    \/ /\ SlotSelected(w)
       /\ ~IsBooked(req[w].slot)
       /\ KeepSlotLocked(w)
       /\ UNCHANGED req

(***************************************************************************)
(* INSERT INTO bookings, UPDATE availabilities SET is_booked = true and    *)
(* INSERT INTO invoices, shared by createBooking and the webhook.          *)
(***************************************************************************)

\* No UNIQUE on bookings.availability_id.
ViolatesUnique_NoConstraint(s) == FALSE

\* bookings.availability_id is UNIQUE: a second row is refused whatever the
\* first one's status.
ViolatesUnique(s) == BookingsOn(s) # {}

HasInserted(w, s) ==
    /\ req[w].op \in {"book", "webhook"}
    /\ pc[w] = "written"
    /\ req[w].slot = s

\* A handler that starts over on a unique violation.
InsertBooking_Retried(w) ==
    /\ pc[w] = "locked"
    /\ IF ViolatesUnique(req[w].slot)
       THEN /\ pc' = [pc EXCEPT ![w] = "begin"]
            /\ slotLock' = [slotLock EXCEPT ![req[w].slot] = None]
       ELSE pc' = [pc EXCEPT ![w] = "written"] /\ UNCHANGED slotLock
    /\ UNCHANGED <<tables, bookingLock, req, reply, faults>>

\* The unique index makes an INSERT wait for another's uncommitted one.
InsertBooking(w) ==
    /\ pc[w] = "locked"
    /\ \A v \in Workers : ~HasInserted(v, req[w].slot)
    /\ \/ ViolatesUnique(req[w].slot) /\ Refuse(w, "duplicate")
       \/ /\ ~ViolatesUnique(req[w].slot)
          /\ pc' = [pc EXCEPT ![w] = "written"]
          /\ UNCHANGED <<tables, locks, req, reply, faults>>

\* The uuid of the new row is unknown to all others before this step.
CommitBooking(w, row) ==
    /\ pc[w] = "written"
    /\ \E b \in BookingIds :
          /\ ~BookingExists(b)
          /\ bookings' = [bookings EXCEPT ![b] = row]
          /\ invoices' = [invoices EXCEPT ![b] = "unpaid"]
    /\ slots' = [slots EXCEPT ![req[w].slot].state = "booked"]
    /\ Commit(w)

=============================================================================
