---------------------------- MODULE BookingLedger ----------------------------
(***************************************************************************)
(* What the booking core promises, with no requests, transactions or locks *)
(* in sight: a ledger of slots, bookings and invoices that changes one     *)
(* whole operation at a time.  BookingEngine, in which concurrent handlers *)
(* reach the same tables statement by statement, implements it.            *)
(***************************************************************************)
EXTENDS Schema

Init == InitTables

\* A slot is published (createAvailability).
Publish(s) ==
    /\ slots[s].state = "none"
    /\ \E t \in Tenants, st \in Staff, f \in Times, e \in Times :
          f < e /\ slots' = [slots EXCEPT ![s] = OpenSlot(t, st, f, e)]
    /\ UNCHANGED <<bookings, invoices>>

\* An unbooked slot changes hands or times, never its tenant (updateAvailability).
Move(s) ==
    /\ slots[s].state = "open"
    /\ \E st \in Staff, f \in Times, e \in Times :
          f < e /\ slots' = [slots EXCEPT ![s].staff = st, ![s].from = f, ![s].to = e]
    /\ UNCHANGED <<bookings, invoices>>

\* An unbooked slot that was never booked goes away (deleteAvailability).
Withdraw(s) ==
    /\ slots[s].state = "open"
    /\ BookingsOn(s) = {}
    /\ slots' = [slots EXCEPT ![s] = DeletedSlot]
    /\ UNCHANGED <<bookings, invoices>>

\* One customer gets the slot, with an unpaid invoice: either directly and
\* "pending" (createBooking), or through a payment and "confirmed" (the webhook).
Reserve(b, s) ==
    /\ ~BookingExists(b)
    /\ slots[s].state = "open"
    /\ BookingsOn(s) = {}
    /\ \E c \in Customers, p \in PaymentIds \cup {None} :
          bookings' = [bookings EXCEPT ![b] =
             [status   |-> IF p = None THEN "pending" ELSE "confirmed",
              tenant   |-> slots[s].tenant,
              customer |-> c,
              slot     |-> s,
              paidBy   |-> p]]
    /\ slots' = [slots EXCEPT ![s].state = "booked"]
    /\ invoices' = [invoices EXCEPT ![b] = "unpaid"]

\* An active booking that is not being cancelled takes any other status.
Progress(b) ==
    /\ bookings[b].status \in {"pending", "confirmed"}
    /\ \E st \in BookingStatus \ {"cancelled"} :
          bookings' = [bookings EXCEPT ![b].status = st]
    /\ UNCHANGED <<slots, invoices>>

\* Cancelling gives the slot back and voids the invoice, all at once.
Cancel(b) ==
    /\ bookings[b].status \in {"pending", "confirmed"}
    /\ bookings' = [bookings EXCEPT ![b].status = "cancelled"]
    /\ slots' = [slots EXCEPT ![bookings[b].slot].state = "open"]
    /\ invoices' = [invoices EXCEPT ![b] = "void"]

Next ==
    \/ \E s \in SlotIds : Publish(s) \/ Move(s) \/ Withdraw(s)
    \/ \E b \in BookingIds, s \in SlotIds : Reserve(b, s)
    \/ \E b \in BookingIds : Progress(b) \/ Cancel(b)

Spec == Init /\ [][Next]_tables

=============================================================================
