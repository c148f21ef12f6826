------------------------------ MODULE Bookings ------------------------------
(***************************************************************************)
(* bookingController.js without the checkout: a customer books an open     *)
(* slot (createBooking), a tenant_admin or staff member changes a          *)
(* booking's status (updateBookingStatus).  getBooking and listBookings    *)
(* change nothing and are left out, as is the validation of the body.      *)
(***************************************************************************)
EXTENDS BookingStore

RequestBooking(w) ==
    \E t \in Tenants, c \in Customers, s \in SlotIds :
        Begin(w, [NoRequest EXCEPT !.op = "book", !.tenant = t, !.user = c, !.slot = s])

RequestStatus(w) ==
    \E t \in Tenants, b \in BookingIds, st \in BookingStatus :
        /\ BookingExists(b)
        /\ Begin(w, [NoRequest EXCEPT !.op = "status", !.tenant = t, !.booking = b,
                                      !.status = st])

(***************************************************************************)
(* createBooking.                                                          *)
(***************************************************************************)
LockForBooking(w) ==
    /\ At(w, "book", "begin")
    /\ LockOpenSlot(w)

InsertPending(w) ==
    /\ At(w, "book", "locked")
    /\ InsertBooking(w)

CommitPending(w) ==
    /\ At(w, "book", "written")
    /\ CommitBooking(w, [status |-> "pending", tenant |-> req[w].tenant,
                         customer |-> req[w].user, slot |-> req[w].slot,
                         paidBy |-> None])

(***************************************************************************)
(* updateBookingStatus.  The UPDATE of the booking touches the row already *)
(* locked; only a cancellation goes on to a second row, the slot, which it *)
(* has not locked before.                                                  *)
(***************************************************************************)

\* A handler that refuses to leave "cancelled" only.
IsTerminal_CancelledOnly(b) == bookings[b].status = "cancelled"

IsTerminal(b) == bookings[b].status \in TerminalStatus

BookingSelected(w) ==
    /\ BookingVisible(req[w].booking, req[w].tenant)
    /\ BookingLockFree(req[w].booking)

LockBooking(w) ==
    /\ At(w, "status", "begin")
    /\ \/ /\ ~BookingVisible(req[w].booking, req[w].tenant)
          /\ Refuse(w, "not_found")
       \/ /\ BookingSelected(w)
          /\ IsTerminal(req[w].booking)
          /\ Refuse(w, "conflict")
       \/ /\ BookingSelected(w)
          /\ ~IsTerminal(req[w].booking)
          /\ bookingLock' = [bookingLock EXCEPT ![req[w].booking] = w]
          /\ pc' = [pc EXCEPT ![w] = "locked"]
          /\ UNCHANGED <<tables, slotLock, req, reply, faults>>

CommitStatus(w) ==
    /\ At(w, "status", "locked")
    /\ req[w].status # "cancelled"
    /\ bookings' = [bookings EXCEPT ![req[w].booking].status = req[w].status]
    /\ Commit(w)
    /\ UNCHANGED <<slots, invoices>>

\* UPDATE availabilities SET is_booked = false: the row lock comes with it.
ReleaseSlot(w) ==
    /\ At(w, "status", "locked")
    /\ req[w].status = "cancelled"
    /\ LET s == bookings[req[w].booking].slot
       IN  SlotLockFree(s) /\ slotLock' = [slotLock EXCEPT ![s] = w]
    /\ pc' = [pc EXCEPT ![w] = "written"]
    /\ UNCHANGED <<tables, bookingLock, req, reply, faults>>

\* WHERE id = existing.availability_id AND tenant_id = the caller's.
Released(s, t) == IF SlotVisible(s, t) THEN [slots[s] EXCEPT !.state = "open"] ELSE slots[s]

\* The handler that forgets to void.
VoidInvoice_Kept(b) == invoices

VoidInvoice(b) == [invoices EXCEPT ![b] = "void"]

CommitCancel(w) ==
    /\ At(w, "status", "written")
    /\ LET b == req[w].booking
           s == bookings[b].slot
       IN  /\ bookings' = [bookings EXCEPT ![b].status = "cancelled"]
           /\ slots' = [slots EXCEPT ![s] = Released(s, req[w].tenant)]
           /\ invoices' = VoidInvoice(b)
    /\ Commit(w)

BookingStep(w) ==
    \/ LockForBooking(w) \/ InsertPending(w) \/ CommitPending(w)
    \/ LockBooking(w) \/ CommitStatus(w) \/ ReleaseSlot(w) \/ CommitCancel(w)

=============================================================================
