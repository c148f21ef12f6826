---------------------------- MODULE BookingEngine ----------------------------
(***************************************************************************)
(* The booking core as it runs: slot edits, bookings, status changes,      *)
(* checkouts and webhook deliveries, interleaved query by query over one   *)
(* database, with faults.                                                  *)
(***************************************************************************)
EXTENDS Availability, Bookings, Payments

CONSTANT Offered    \* the requests clients send in this instance

ASSUME OfferedAreOps == Offered \subseteq Ops

vars == <<storeVars, payments>>

Init == InitStore /\ InitPayments

Arrive(w) ==
    \/ /\ "create" \in Offered /\ RequestCreate(w) /\ UNCHANGED payments
    \/ /\ "update" \in Offered /\ RequestUpdate(w) /\ UNCHANGED payments
    \/ /\ "delete" \in Offered /\ RequestDelete(w) /\ UNCHANGED payments
    \/ /\ "book" \in Offered /\ RequestBooking(w) /\ UNCHANGED payments
    \/ /\ "status" \in Offered /\ RequestStatus(w) /\ UNCHANGED payments
    \/ /\ "checkout" \in Offered /\ RequestCheckout(w)
    \/ \E p \in PaymentIds : DeliverEvent(w, p)

Handle(w) ==
    \/ AvailabilityStep(w) /\ UNCHANGED payments
    \/ BookingStep(w) /\ UNCHANGED payments
    \/ PaymentStep(w)

Break(w) == Fail(w) /\ Settle(w)

Next ==
    \/ \E w \in Workers : Arrive(w) \/ Handle(w) \/ Break(w)
    \/ \E p \in PaymentIds : Pay(p)

Spec == Init /\ [][Next]_vars

(***************************************************************************)
(* Postgres queues the waiters for a row, so a handler that is enabled     *)
(* again and again runs (strong fairness); Stripe redelivers an event to a *)
(* free worker until it is acknowledged.  Nobody has to send a request or  *)
(* to pay, and nothing has to fail.                                        *)
(***************************************************************************)
Redeliver(p) == payments[p].state = "paid" /\ \E w \in Workers : DeliverEvent(w, p)

Fairness ==
    /\ \A w \in Workers : SF_vars(Handle(w))
    /\ \A p \in PaymentIds : SF_vars(Redeliver(p))

FairSpec == Spec /\ Fairness

TypeOK == StoreTypeOK /\ PaymentsTypeOK


(***************************************************************************)
(* Safety.  The agreement of the tables (SlotMatchesBookings,              *)
(* InvoiceFollowsBooking, BookingStaysInTenant, OneBookingPerSlot) is      *)
(* defined in Schema.                                                      *)
(***************************************************************************)

\* However often a payment's event is delivered, before or after a cancellation
\* of what it booked, the payment buys at most one booking.
OnePaymentOneBooking ==
    \A b1, b2 \in BookingIds :
        bookings[b1].paidBy # None /\ bookings[b1].paidBy = bookings[b2].paidBy => b1 = b2

HasALock(w) ==
    \/ \E s \in SlotIds : slotLock[s] = w
    \/ \E b \in BookingIds : bookingLock[b] = w

\* The next query of w waits for a row that another transaction has locked or
\* inserted.
Blocked(w) ==
    \/ /\ pc[w] = "begin" /\ req[w].op \in SlotOps
       /\ SlotVisible(req[w].slot, req[w].tenant)
       /\ slotLock[req[w].slot] \notin {None, w}
    \/ /\ At(w, "status", "begin")
       /\ BookingVisible(req[w].booking, req[w].tenant)
       /\ bookingLock[req[w].booking] \notin {None, w}
    \/ /\ At(w, "status", "locked") /\ req[w].status = "cancelled"
       /\ slotLock[bookings[req[w].booking].slot] \notin {None, w}
    \/ /\ At(w, "delete", "locked")
       /\ \E b \in BookingsOn(req[w].slot) : bookingLock[b] \notin {None, w}
    \/ /\ req[w].op \in {"book", "webhook"} /\ pc[w] = "locked"
       /\ \E v \in Workers : HasInserted(v, req[w].slot)

\* A transaction that has a row locked never waits for another row, although a
\* cancellation takes the booking before the slot and the DELETE of a slot takes
\* the slot before its bookings: no two handlers can deadlock.
NoHoldAndWait == \A w \in Workers : HasALock(w) => ~Blocked(w)

(***************************************************************************)
(* What a step may never do.                                               *)
(***************************************************************************)

\* A cancelled or completed booking keeps its status, also against a status
\* change that read the row before it became so.
TerminalIsFinal ==
    [][\A b \in BookingIds : bookings[b].status \in TerminalStatus =>
          bookings'[b].status = bookings[b].status]_vars

\* The slot of an uncancelled booking is not moved, handed over or deleted, also
\* by an edit that found it open.
BookedSlotIsFrozen ==
    [][\A s \in SlotIds : slots[s].state = "booked" =>
          /\ slots'[s].state # "deleted"
          /\ [slots'[s] EXCEPT !.state = "booked"] = slots[s]]_vars

\* The slots that a step of worker w inserts, moves or deletes.
Edits(w, s) ==
    /\ req[w].op \in {"create", "update", "delete"}
    /\ req'[w] # req[w]
    /\ slots'[s] # slots[s]

\* What a provider's request commits touches only slots that are his when it
\* commits and, unless deleted, his afterwards.
ProviderEditsOwnSlots ==
    [][\A w \in Workers, s \in SlotIds : Edits(w, s) /\ IsProvider(w) =>
          /\ slots[s].state = "none" \/ slots[s].staff = req[w].user
          /\ slots'[s].state = "deleted" \/ slots'[s].staff = req[w].user]_vars

\* Two slots of the same staff member that share an instant.
Clash(t, st, f, e, s) ==
    /\ slots[s].state = "open" /\ slots[s].tenant = t /\ slots[s].staff = st
    /\ \E x \in Times : f <= x /\ x < e /\ slots[s].from <= x /\ x < slots[s].to

\* A new or moved slot is let through only if no instant of it is on offer at that
\* moment: whatever overlap there is has been committed between a check and a write.
OverlapsAreRefused ==
    [][\A w \in Workers, s \in SlotIds : pc[w] # "checked" /\ pc'[w] = "checked" /\ s # req[w].slot =>
          ~Clash(req[w].tenant, EffectiveStaff(w), req[w].from, req[w].to, s)]_vars

\* Losing the race for a slot is a 409: the UNIQUE constraint, whose violation
\* is a 500, is met only on a slot whose earlier booking was cancelled.
LosersGetConflict ==
    [][\A w \in Workers : reply[w] # "duplicate" /\ reply'[w] = "duplicate" =>
          \E b \in BookingsOn(req[w].slot) : bookings[b].status = "cancelled"]_vars

\* Stripe is asked for money only for a slot that is open at that moment.
IntentsAreForOpenSlots ==
    [][\A p \in PaymentIds : payments[p].state = "none" /\ payments'[p].state = "created" =>
          slots[payments'[p].slot].state = "open"]_vars

\* The interleaved handlers do to the tables what the serial ledger may do.
Ledger == INSTANCE BookingLedger WITH slots <- slots, bookings <- bookings, invoices <- invoices

ImplementsLedger == Ledger!Spec

(***************************************************************************)
(* Liveness.                                                               *)
(***************************************************************************)

\* Every request is answered.
EveryRequestAnswered == \A w \in Workers : pc[w] # "idle" ~> pc[w] = "idle"

\* A slot somebody has paid for does not stay on offer: it is booked, was booked
\* before, or is gone.
PaidSlotIsTaken ==
    \A p \in PaymentIds, s \in SlotIds :
        payments[p].state = "paid" /\ payments[p].slot = s
            ~> BookingsOn(s) # {} \/ ~SlotExists(s)

(***************************************************************************)
(* What the documentation and the user interface say, and the code does    *)
(* not do (with NoUnbookedOverlap of Schema).                              *)
(***************************************************************************)

\* bookingController.js:382, "On cancellation, the availability slot is
\* released": it can then be booked like any other open slot.
ReleasedSlotIsBookable == \A w \in Workers : reply[w] # "duplicate"

\* BookingForm.jsx:216, "Your payment was processed successfully. Your booking is
\* being finalized."
PaidLeadsToBooking ==
    \A p \in PaymentIds :
        payments[p].state = "paid" ~> \E b \in BookingIds : bookings[b].paidBy = p

=============================================================================
