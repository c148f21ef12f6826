---------------------------- MODULE LedgerProofs ----------------------------
(***************************************************************************)
(* BookingEngine implements BookingLedger, for every value of the          *)
(* constants: each step of a handler either leaves the committed tables    *)
(* alone or is one operation of the serial ledger.  What the ledger may    *)
(* never do, the engine then never does either.                            *)
(***************************************************************************)
EXTENDS BookingEngineProofs

LEMMA InitRefined == Init => Ledger!Init
BY DEF Init, InitStore, InitTables, LiveSlot, NoSlot, NoBooking, NoUnbookedOverlap,
       Ledger!Init, Ledger!InitTables, Ledger!LiveSlot, Ledger!NoSlot, Ledger!NoBooking,
       Ledger!NoUnbookedOverlap

(***************************************************************************)
(* The committing steps.                                                   *)
(***************************************************************************)
LEMMA InsertSlotRefined ==
    ASSUME CoreInv, NEW w \in Workers, InsertSlot(w)
    PROVE  req[w].slot \in SlotIds /\ Ledger!Publish(req[w].slot)
<1>1. req[w].slot \in SlotIds /\ slots[req[w].slot].state = "none"
  BY RequestFacts DEF InsertSlot, At
<1>2. /\ req[w].tenant \in Tenants /\ EffectiveStaff(w) \in Staff
      /\ req[w].from \in Times /\ req[w].to \in Times /\ req[w].from < req[w].to
  BY DEF InsertSlot, At, CoreInv, RequestsOK, Complete, EditsOK
<1> QED
  BY <1>1, <1>2 DEF InsertSlot, OpenSlot, Ledger!Publish, Ledger!OpenSlot

LEMMA UpdateSlotRefined ==
    ASSUME CoreInv, NEW w \in Workers, UpdateSlot(w)
    PROVE  req[w].slot \in SlotIds /\ Ledger!Move(req[w].slot)
<1>1. req[w].slot \in SlotIds /\ slots[req[w].slot].state = "open"
  BY RequestFacts DEF UpdateSlot, At, SlotOps, PastLock
<1>2. req[w].staff \in Staff /\ req[w].from \in Times /\ req[w].to \in Times
      /\ req[w].from < req[w].to
  BY DEF UpdateSlot, At, CoreInv, EditsOK
<1> QED
  BY <1>1, <1>2 DEF UpdateSlot, Ledger!Move

LEMMA DeleteSlotRefined ==
    ASSUME CoreInv, NEW w \in Workers, DeleteSlot(w)
    PROVE  \/ UNCHANGED tables
           \/ req[w].slot \in SlotIds /\ Ledger!Withdraw(req[w].slot)
<1>1. req[w].slot \in SlotIds /\ slots[req[w].slot].state = "open"
  BY RequestFacts DEF DeleteSlot, At, SlotOps, PastLock
<1>2. CASE Refuse(w, "reference")
  BY <1>2 DEF Refuse
<1>3. CASE /\ ~IsReferenced(req[w].slot)
           /\ slots' = [slots EXCEPT ![req[w].slot] = DeletedSlot]
           /\ UNCHANGED <<bookings, invoices>>
  BY <1>1, <1>3 DEF IsReferenced, BookingsOn, BookingExists, DeletedSlot, NoSlot,
     Ledger!Withdraw, Ledger!BookingsOn, Ledger!BookingExists, Ledger!DeletedSlot, Ledger!NoSlot
<1> QED
  BY <1>2, <1>3 DEF DeleteSlot

\* CommitBooking, for the row of createBooking and for that of the webhook.
LEMMA CommitBookingRefined ==
    ASSUME CoreInv, NEW w \in Workers, req[w].op \in {"book", "webhook"},
           NEW p \in PaymentIds \cup {None},
           NEW row, CommitBooking(w, row),
           row = [status   |-> IF p = None THEN "pending" ELSE "confirmed",
                  tenant   |-> req[w].tenant,
                  customer |-> req[w].user,
                  slot     |-> req[w].slot,
                  paidBy   |-> p]
    PROVE  req[w].slot \in SlotIds /\ \E b \in BookingIds : Ledger!Reserve(b, req[w].slot)
<1> DEFINE s == req[w].slot
<1>1. /\ s \in SlotIds /\ slots[s].state = "open" /\ slots[s].tenant = req[w].tenant
      /\ BookingsOn(s) = {}
  BY RequestFacts DEF CommitBooking, SlotOps, PastLock, CoreInv, ReadsOK
<1>2. req[w].user \in Customers
  BY DEF CommitBooking, CoreInv, RequestsOK, Complete, NoRequest
<1>3. PICK b \in BookingIds :
         /\ ~BookingExists(b)
         /\ bookings' = [bookings EXCEPT ![b] = row]
         /\ invoices' = [invoices EXCEPT ![b] = "unpaid"]
  BY DEF CommitBooking
<1>4. slots' = [slots EXCEPT ![s].state = "booked"]
  BY DEF CommitBooking
<1>5. row = [status |-> IF p = None THEN "pending" ELSE "confirmed", tenant |-> slots[s].tenant,
             customer |-> req[w].user, slot |-> s, paidBy |-> p]
  BY <1>1
<1> QED
  BY <1>1, <1>2, <1>3, <1>4, <1>5
     DEF BookingsOn, BookingExists, Ledger!Reserve, Ledger!BookingsOn, Ledger!BookingExists

LEMMA CommitStatusRefined ==
    ASSUME CoreInv, NEW w \in Workers, CommitStatus(w)
    PROVE  req[w].booking \in BookingIds /\ Ledger!Progress(req[w].booking)
<1>1. req[w].booking \in BookingIds /\ req[w].status \in BookingStatus \ {"cancelled"}
  BY DEF CommitStatus, At, CoreInv, RequestsOK, Complete, NoRequest
<1>2. bookings[req[w].booking].status \in {"pending", "confirmed"}
  BY DEF CommitStatus, At, CoreInv, ReadsOK, PastLock
<1> QED
  BY <1>1, <1>2 DEF CommitStatus, BookingStatus, Ledger!Progress, Ledger!BookingStatus

LEMMA CommitCancelRefined ==
    ASSUME CoreInv, NEW w \in Workers, CommitCancel(w)
    PROVE  req[w].booking \in BookingIds /\ Ledger!Cancel(req[w].booking)
<1> DEFINE b == req[w].booking
           s == bookings[b].slot
<1>1. b \in BookingIds /\ bookings[b].status \in {"pending", "confirmed"}
      /\ bookings[b].tenant = req[w].tenant
  BY RequestFacts DEF CommitCancel, At, CoreInv, ReadsOK, PastLock
<1>2. SlotVisible(s, req[w].tenant)
  BY <1>1 DEF CoreInv, Consistent, BookingStaysInTenant, BookingExists, SlotVisible
<1>3. slots' = [slots EXCEPT ![s] = [slots[s] EXCEPT !.state = "open"]]
  BY <1>2 DEF CommitCancel, Released
<1>4. slots' = [slots EXCEPT ![s].state = "open"]
  BY <1>3
<1> QED
  BY <1>1, <1>4 DEF CommitCancel, VoidInvoice, Ledger!Cancel

(***************************************************************************)
(* Every step.                                                             *)
(***************************************************************************)

\* Opening a slot for booking or editing commits nothing.
LEMMA OpeningsAreQuiet ==
    ASSUME NEW w \in Workers, LockOpenSlot(w) \/ LockOwnSlot(w) \/ KeepSlotLocked(w)
    PROVE  UNCHANGED tables
BY DEF LockOpenSlot, LockOwnSlot, SlotMissing, Refuse, KeepSlotLocked

LEMMA AvailabilityRefined ==
    ASSUME CoreInv, NEW w \in Workers, AvailabilityStep(w)
    PROVE  UNCHANGED tables \/ Ledger!Next
<1>1. CASE RefuseCreate(w) \/ CheckNewSlot(w) \/ CheckMovedSlot(w)
  BY <1>1 DEF RefuseCreate, CheckNewSlot, CheckMovedSlot, Refuse
<1>2. CASE LockForUpdate(w) \/ LockForDelete(w)
  BY <1>2, OpeningsAreQuiet DEF LockForUpdate, LockForDelete, Refuse
<1>3. CASE InsertSlot(w) \/ UpdateSlot(w) \/ DeleteSlot(w)
  BY <1>3, InsertSlotRefined, UpdateSlotRefined, DeleteSlotRefined DEF Ledger!Next
<1> QED
  BY <1>1, <1>2, <1>3 DEF AvailabilityStep

LEMMA BookingRefined ==
    ASSUME CoreInv, NEW w \in Workers, BookingStep(w)
    PROVE  UNCHANGED tables \/ Ledger!Next
<1>1. CASE LockForBooking(w) \/ InsertPending(w) \/ LockBooking(w) \/ ReleaseSlot(w)
  BY <1>1, OpeningsAreQuiet DEF LockForBooking, InsertPending, InsertBooking, LockBooking,
                                ReleaseSlot, Refuse
<1>2. CASE CommitPending(w)
  <2> DEFINE row == [status |-> "pending", tenant |-> req[w].tenant, customer |-> req[w].user,
                     slot |-> req[w].slot, paidBy |-> None]
  <2>1. req[w].op = "book" /\ CommitBooking(w, row)
    BY <1>2 DEF CommitPending, At
  <2> QED
    BY <2>1, CommitBookingRefined DEF Ledger!Next
<1>3. CASE CommitStatus(w) \/ CommitCancel(w)
  BY <1>3, CommitStatusRefined, CommitCancelRefined DEF Ledger!Next
<1> QED
  BY <1>1, <1>2, <1>3 DEF BookingStep

LEMMA PaymentRefined ==
    ASSUME CoreInv, NEW w \in Workers, PaymentStep(w)
    PROVE  UNCHANGED tables \/ Ledger!Next
<1>1. CASE LockForCheckout(w) \/ CreateIntent(w) \/ CommitCheckout(w)
  BY <1>1, OpeningsAreQuiet DEF LockForCheckout, CreateIntent, CommitCheckout
<1>2. CASE LockForWebhook(w) \/ InsertConfirmed(w)
  BY <1>2, OpeningsAreQuiet DEF LockForWebhook, InsertConfirmed, InsertBooking, Refuse
<1>3. CASE CommitConfirmed(w)
  <2>1. req[w].op = "webhook" /\ req[w].payment \in PaymentIds
    BY <1>3 DEF CommitConfirmed, At, CoreInv, RequestsOK, Complete, NoRequest
  <2> DEFINE row == [status |-> "confirmed", tenant |-> req[w].tenant, customer |-> req[w].user,
                     slot |-> req[w].slot, paidBy |-> req[w].payment]
  <2>2. CommitBooking(w, row)
    BY <1>3 DEF CommitConfirmed
  <2>3. row = [status |-> IF req[w].payment = None THEN "pending" ELSE "confirmed",
               tenant |-> req[w].tenant, customer |-> req[w].user,
               slot |-> req[w].slot, paidBy |-> req[w].payment]
    BY <2>1, NoneIsNoId
  <2>4. req[w].op \in {"book", "webhook"} /\ req[w].payment \in PaymentIds \cup {None}
    BY <2>1
  <2> HIDE DEF row
  <2>5. req[w].slot \in SlotIds /\ \E b \in BookingIds : Ledger!Reserve(b, req[w].slot)
    BY <2>2, <2>3, <2>4, CommitBookingRefined
  <2> QED
    BY <2>5 DEF Ledger!Next
<1> QED
  BY <1>1, <1>2, <1>3 DEF PaymentStep

LEMMA ArrivalsAreQuiet ==
    ASSUME NEW w \in Workers, Arrive(w) \/ Break(w)
    PROVE  UNCHANGED tables
BY DEF Arrive, RequestCreate, RequestUpdate, RequestDelete, RequestBooking, RequestStatus,
       RequestCheckout, DeliverEvent, Begin, Break, Fail

LEMMA NextRefined == IInv /\ [Next]_vars => [Ledger!Next]_tables
<1> SUFFICES ASSUME IInv, [Next]_vars PROVE UNCHANGED tables \/ Ledger!Next
  OBVIOUS
<1>0. CoreInv
  BY DEF IInv
<1>1. ASSUME NEW w \in Workers, Handle(w) PROVE UNCHANGED tables \/ Ledger!Next
  BY <1>0, <1>1, AvailabilityRefined, BookingRefined, PaymentRefined DEF Handle
<1>2. ASSUME NEW p \in PaymentIds, Pay(p) PROVE UNCHANGED tables
  BY <1>2 DEF Pay, storeVars, tables
<1>3. CASE UNCHANGED vars
  BY <1>3 DEF vars, storeVars, tables
<1> QED
  BY <1>1, <1>2, <1>3, ArrivalsAreQuiet DEF Next

(***************************************************************************)
(* The theorems.                                                           *)
(***************************************************************************)

\* The interleaved handlers, with their locks, retries, lost answers and failures,
\* do to slots, bookings and invoices only what the serial ledger does.
THEOREM Refinement == Spec => ImplementsLedger
<1>1. Init => Ledger!Init
  BY InitRefined
<1>2. IInv /\ [Next]_vars => [Ledger!Next]_(Ledger!tables)
  BY NextRefined DEF tables, Ledger!tables
<1> QED
  BY <1>1, <1>2, Inductive, PTL DEF Spec, ImplementsLedger, Ledger!Spec


\* A cancelled or completed booking keeps its status, also against a status change
\* that was waiting for the row when it became so.
THEOREM StatusesAreFinal == Spec => TerminalIsFinal
<1>1. ASSUME TablesTypeOK, [Ledger!Next]_tables, NEW b \in BookingIds,
             bookings[b].status \in TerminalStatus
      PROVE  bookings'[b].status = bookings[b].status
  <2>1. \A x \in BookingIds, s \in SlotIds : Ledger!Reserve(x, s) => x # b /\ bookings'[b] = bookings[b]
    BY <1>1 DEF TablesTypeOK, TerminalStatus, Ledger!Reserve, Ledger!BookingExists
  <2>2. \A x \in BookingIds : Ledger!Progress(x) \/ Ledger!Cancel(x) => x # b /\ bookings'[b] = bookings[b]
    BY <1>1 DEF TablesTypeOK, TerminalStatus, Ledger!Progress, Ledger!Cancel
  <2>3. \A s \in SlotIds : Ledger!Publish(s) \/ Ledger!Move(s) \/ Ledger!Withdraw(s) => UNCHANGED bookings
    BY DEF Ledger!Publish, Ledger!Move, Ledger!Withdraw
  <2> QED
    BY <1>1, <2>1, <2>2, <2>3 DEF Ledger!Next, tables
<1>2. IInv /\ [Next]_vars =>
         [\A b \in BookingIds : bookings[b].status \in TerminalStatus =>
             bookings'[b].status = bookings[b].status]_vars
  BY <1>1, NextRefined DEF IInv, CoreInv, TypeOK, StoreTypeOK
<1> QED
  BY <1>2, Inductive, PTL DEF Spec, TerminalIsFinal

\* The slot of an uncancelled booking is not moved, handed over or deleted, also by
\* an edit that was waiting for the row when it was booked.
THEOREM BookingsFreezeSlots == Spec => BookedSlotIsFrozen
<1>1. ASSUME TablesTypeOK, Consistent, [Ledger!Next]_tables, NEW s \in SlotIds,
             slots[s].state = "booked"
      PROVE  /\ slots'[s].state # "deleted"
             /\ [slots'[s] EXCEPT !.state = "booked"] = slots[s]
  <2>0. slots[s] \in LiveSlot
    BY <1>1 DEF TablesTypeOK, NoSlot, DeletedSlot
  <2>1. [slots[s] EXCEPT !.state = "booked"] = slots[s]
    BY <1>1, <2>0 DEF LiveSlot
  <2>2. \A x \in SlotIds : Ledger!Publish(x) \/ Ledger!Move(x) \/ Ledger!Withdraw(x) =>
           slots'[s] = slots[s]
    BY <1>1 DEF TablesTypeOK, Ledger!Publish, Ledger!Move, Ledger!Withdraw
  <2>3. \A b \in BookingIds, x \in SlotIds : Ledger!Reserve(b, x) => slots'[s] = slots[s]
    BY <1>1 DEF TablesTypeOK, Ledger!Reserve
  <2>4. \A b \in BookingIds : Ledger!Progress(b) => slots'[s] = slots[s]
    BY DEF Ledger!Progress
  <2>5. \A b \in BookingIds : Ledger!Cancel(b) =>
           slots'[s] \in {slots[s], [slots[s] EXCEPT !.state = "open"]}
    BY <1>1 DEF TablesTypeOK, Ledger!Cancel
  <2>6. LET open == [slots[s] EXCEPT !.state = "open"]
        IN  open.state = "open" /\ [open EXCEPT !.state = "booked"] = slots[s]
    BY <1>1, <2>0 DEF LiveSlot
  <2> QED
    BY <1>1, <2>1, <2>2, <2>3, <2>4, <2>5, <2>6 DEF Ledger!Next, tables
<1>2. IInv /\ [Next]_vars =>
         [\A s \in SlotIds : slots[s].state = "booked" =>
             /\ slots'[s].state # "deleted"
             /\ [slots'[s] EXCEPT !.state = "booked"] = slots[s]]_vars
  BY <1>1, NextRefined DEF IInv, CoreInv, TypeOK, StoreTypeOK
<1> QED
  BY <1>2, Inductive, PTL DEF Spec, BookedSlotIsFrozen

(***************************************************************************)
(* Payments and the bookings they buy.                                     *)
(***************************************************************************)

\* A PaymentIntent that has been paid is for its slot for good.
LEMMA PaidStays ==
    ASSUME IInv, [Next]_vars, NEW p \in PaymentIds, payments[p].state \in {"paid", "settled"}
    PROVE  payments'[p].state \in {"paid", "settled"} /\ payments'[p].slot = payments[p].slot
<1> DEFINE Goal == /\ payments'[p].state \in {"paid", "settled"}
                   /\ payments'[p].slot = payments[p].slot
<1>0. payments \in [PaymentIds -> Intent \cup {NoPayment}]
  BY DEF IInv, CoreInv, TypeOK, PaymentsTypeOK
<1>1. payments[p] \in Intent /\ [payments[p] EXCEPT !.state = "settled"].slot = payments[p].slot
      /\ [payments[p] EXCEPT !.state = "settled"].state = "settled"
  BY <1>0 DEF NoPayment, Intent
<1>2. ASSUME NEW w \in Workers, Settle(w) PROVE Goal
  BY <1>0, <1>1, <1>2 DEF Settle
<1>3. ASSUME NEW w \in Workers, CreateIntent(w) PROVE Goal
  <2>1. payments[req[w].payment].state = "none"
    BY <1>3 DEF CreateIntent, At, IInv, PaymentsOK
  <2> QED
    BY <1>0, <1>3, <2>1 DEF CreateIntent
<1>4. ASSUME NEW w \in Workers, CommitCheckout(w) PROVE Goal
  <2>1. payments[req[w].payment].state = "created"
    BY <1>4 DEF CommitCheckout, At, IInv, PaymentsOK
  <2> QED
    BY <1>0, <1>4, <2>1 DEF CommitCheckout
<1>5. ASSUME NEW q \in PaymentIds, Pay(q) PROVE Goal
  BY <1>0, <1>5 DEF Pay
<1>6. CASE UNCHANGED payments
  BY <1>6
<1>7. ASSUME NEW w \in Workers, Arrive(w) PROVE UNCHANGED payments
  BY <1>7 DEF Arrive, RequestCheckout, DeliverEvent
<1>8. ASSUME NEW w \in Workers, Handle(w) \/ Break(w) PROVE Goal
  BY <1>2, <1>3, <1>4, <1>6, <1>8 DEF Handle, PaymentStep, LockForCheckout, LockForWebhook,
                                      InsertConfirmed, CommitConfirmed, Break
<1> QED
  BY <1>5, <1>6, <1>7, <1>8 DEF Next, vars

\* The slot and the payment of a booking come with its row and stay: the webhook's
\* from the event it serves.
Kept(b) ==
    \/ bookings'[b].paidBy = None
    \/ /\ BookingExists(b) => BookingExists(b)'
       /\ bookings'[b].paidBy = bookings[b].paidBy
       /\ bookings'[b].slot = bookings[b].slot
    \/ \E w \in Workers :
          /\ req[w].op = "webhook"
          /\ BookingExists(b)'
          /\ bookings'[b].paidBy = req[w].payment
          /\ bookings'[b].slot = req[w].slot

LEMMA RowsKept ==
    ASSUME IInv, [Next]_vars, NEW b \in BookingIds
    PROVE  Kept(b)
<1>0. CoreInv /\ bookings \in [BookingIds -> LiveBooking \cup {NoBooking}]
  BY DEF IInv, CoreInv, TypeOK, StoreTypeOK, TablesTypeOK
<1>1. CASE UNCHANGED tables
  BY <1>1 DEF Kept, tables, BookingExists
<1>2. ASSUME NEW w \in Workers, InsertSlot(w) \/ UpdateSlot(w) \/ DeleteSlot(w)
      PROVE  UNCHANGED bookings
  BY <1>2 DEF InsertSlot, UpdateSlot, DeleteSlot, Refuse, tables
<1>3. ASSUME NEW w \in Workers, CommitPending(w) \/ CommitConfirmed(w) PROVE Kept(b)
  <2>1. CASE CommitPending(w)
    BY <1>0, <2>1 DEF CommitPending, CommitBooking, Kept, BookingExists
  <2>2. CASE CommitConfirmed(w)
    BY <1>0, <2>2 DEF CommitConfirmed, CommitBooking, At, Kept, BookingExists
  <2> QED
    BY <1>3, <2>1, <2>2
<1>4. ASSUME NEW w \in Workers, CommitStatus(w) \/ CommitCancel(w) PROVE Kept(b)
  <2> DEFINE x == req[w].booking
  <2>1. x \in BookingIds /\ bookings[x] \in LiveBooking
        /\ req[w].status \in BookingStatus
    BY <1>0, <1>4, RequestFacts
       DEF CommitStatus, CommitCancel, At, PastLock, CoreInv, RequestsOK, Complete, NoRequest,
           BookingExists, NoBooking
  <2>2. PICK st \in BookingStatus :
           bookings' = [bookings EXCEPT ![x] = [bookings[x] EXCEPT !.status = st]]
    <3>1. CASE CommitStatus(w)
      BY <2>1, <3>1 DEF CommitStatus
    <3>2. CASE CommitCancel(w)
      BY <3>2 DEF CommitCancel, BookingStatus
    <3> QED
      BY <1>4, <3>1, <3>2
  <2>3. LET row == [bookings[x] EXCEPT !.status = st]
        IN  row.status = st /\ row.paidBy = bookings[x].paidBy /\ row.slot = bookings[x].slot
    BY <2>1 DEF LiveBooking
  <2>4. st # "none"
    BY DEF BookingStatus
  <2> QED
    BY <1>0, <2>1, <2>2, <2>3, <2>4 DEF Kept, BookingExists
<1>5. ASSUME NEW w \in Workers, AvailabilityStep(w) PROVE UNCHANGED bookings
  BY <1>2, <1>5, OpeningsAreQuiet DEF AvailabilityStep, RefuseCreate, CheckNewSlot,
     CheckMovedSlot, LockForUpdate, LockForDelete, Refuse, tables
<1>6. ASSUME NEW w \in Workers, BookingStep(w) PROVE Kept(b)
  BY <1>1, <1>3, <1>4, <1>6, OpeningsAreQuiet DEF BookingStep, LockForBooking, InsertPending,
     InsertBooking, LockBooking, ReleaseSlot, Refuse
<1>7. ASSUME NEW w \in Workers, PaymentStep(w) PROVE Kept(b)
  BY <1>1, <1>3, <1>7, OpeningsAreQuiet DEF PaymentStep, LockForCheckout, CreateIntent,
     CommitCheckout, LockForWebhook, InsertConfirmed, InsertBooking, Refuse
<1>8. UNCHANGED bookings => Kept(b)
  BY DEF Kept, BookingExists
<1>9. ASSUME NEW w \in Workers, Handle(w) PROVE Kept(b)
  BY <1>5, <1>6, <1>7, <1>8, <1>9 DEF Handle
<1>10. ASSUME NEW p \in PaymentIds, Pay(p) \/ UNCHANGED vars PROVE UNCHANGED bookings
  BY <1>10 DEF Pay, vars, storeVars
<1>11. CASE UNCHANGED vars
  BY <1>8, <1>11 DEF vars, storeVars
<1> QED
  BY <1>1, <1>8, <1>9, <1>10, <1>11, ArrivalsAreQuiet DEF Next

LEMMA NextPaidFor == IInv /\ PaidForOK /\ [Next]_vars => PaidForOK'
<1> SUFFICES ASSUME IInv, PaidForOK, [Next]_vars, NEW b \in BookingIds,
                    bookings'[b].paidBy # None
             PROVE  LET p == bookings'[b].paidBy
                    IN  /\ BookingExists(b)'
                        /\ p \in PaymentIds
                        /\ payments'[p].state \in {"paid", "settled"}
                        /\ payments'[p].slot = bookings'[b].slot
  BY DEF PaidForOK
<1>1. CASE /\ BookingExists(b) => BookingExists(b)'
           /\ bookings'[b].paidBy = bookings[b].paidBy
           /\ bookings'[b].slot = bookings[b].slot
  BY <1>1, PaidStays DEF PaidForOK
<1>2. CASE \E w \in Workers : /\ req[w].op = "webhook"
                              /\ BookingExists(b)'
                              /\ bookings'[b].paidBy = req[w].payment
                              /\ bookings'[b].slot = req[w].slot
  <2>1. PICK w \in Workers : /\ req[w].op = "webhook"
                             /\ BookingExists(b)'
                             /\ bookings'[b].paidBy = req[w].payment
                             /\ bookings'[b].slot = req[w].slot
    BY <1>2
  <2>2. /\ req[w].payment \in PaymentIds
        /\ payments[req[w].payment].state \in {"paid", "settled"}
        /\ payments[req[w].payment].slot = req[w].slot
    BY <2>1 DEF IInv, CoreInv, RequestsOK, Complete, NoRequest, PaymentsOK
  <2> QED
    BY <2>1, <2>2, PaidStays
<1> QED
  BY <1>1, <1>2, RowsKept DEF Kept

\* However often and in whatever order Stripe delivers its events, one payment never
\* buys two bookings.
THEOREM PaymentsBuyOnce == Spec => []OnePaymentOneBooking
<1>1. Init => PaidForOK
  BY DEF Init, InitStore, InitTables, PaidForOK, NoBooking
<1>2. IInv /\ PaidForOK => OnePaymentOneBooking
  BY DEF IInv, CoreInv, Consistent, OneBookingPerSlot, PaidForOK, OnePaymentOneBooking
<1> QED
  BY <1>1, <1>2, NextPaidFor, Inductive, PTL DEF Spec

=============================================================================
