-------------------------- MODULE BookingInvariant --------------------------
(***************************************************************************)
(* The inductive invariant of BookingEngine: what every transaction knows  *)
(* about the rows it has locked, and what follows for the tables.          *)
(***************************************************************************)
EXTENDS BookingEngine

\* The handlers that can stand at a label between two steps.
Reached(op, label) ==
    /\ label = "locked"  => op \in SlotOps \cup {"status"}
    /\ label = "checked" => op \in {"create", "update"}
    /\ label = "written" => op \in {"book", "checkout", "webhook", "status"}

\* The fields each kind of request has.
Complete(r) ==
    /\ r.tenant \in Tenants
    /\ r.op \in SlotOps \cup {"create"} => r.slot \in SlotIds
    /\ r.op \in {"book", "checkout", "webhook"} => r.user \in Customers
    /\ r.op \in {"checkout", "webhook"} => r.payment \in PaymentIds
    /\ r.op = "status" => r.booking \in BookingIds /\ r.status \in BookingStatus
    /\ r.op = "create" => r.from \in Times /\ r.to \in Times
    /\ r.role = "provider" => r.user \in Staff

RequestsOK ==
    \A w \in Workers :
        \/ pc[w] = "idle" /\ req[w] = NoRequest
        \/ /\ pc[w] # "idle"
           /\ req[w].op \in Ops
           /\ Reached(req[w].op, pc[w])
           /\ Complete(req[w])

\* What has passed the checks of create and update can be written.
EditsOK ==
    \A w \in Workers :
        /\ At(w, "create", "checked") => EffectiveStaff(w) \in Staff /\ req[w].from < req[w].to
        /\ req[w].op = "update" /\ pc[w] \in {"locked", "checked"} =>
              /\ req[w].staff \in Staff
              /\ req[w].staff = EffectiveStaff(w)
              /\ req[w].from \in Times /\ req[w].to \in Times
              /\ req[w].from < req[w].to

\* A slot id is minted by one INSERT.
FreshIdsOK ==
    \A w \in Workers : req[w].op = "create" =>
        /\ slots[req[w].slot].state = "none"
        /\ \A v \in Workers : req[v].op = "create" /\ req[v].slot = req[w].slot => v = w

PastLock(w) == pc[w] \in {"locked", "checked", "written"}

\* The rows that the progress of a handler says it has locked.
OwnsSlot(w, s) ==
    \/ req[w].op \in SlotOps /\ PastLock(w) /\ req[w].slot = s
    \/ At(w, "status", "written") /\ bookings[req[w].booking].slot = s

OwnsBooking(w, b) == req[w].op = "status" /\ PastLock(w) /\ req[w].booking = b

LocksOK ==
    /\ \A w \in Workers, s \in SlotIds : slotLock[s] = w <=> OwnsSlot(w, s)
    /\ \A w \in Workers, b \in BookingIds : bookingLock[b] = w <=> OwnsBooking(w, b)

\* What a handler read from a row it locked is still so.
ReadsOK ==
    \A w \in Workers :
        /\ req[w].op \in SlotOps /\ PastLock(w) =>
              /\ slots[req[w].slot].state = "open"
              /\ slots[req[w].slot].tenant = req[w].tenant
        /\ req[w].op = "update" /\ PastLock(w) => MayEdit(w)
        /\ req[w].op = "delete" /\ PastLock(w) => MayEdit(w)
        /\ req[w].op = "status" /\ PastLock(w) =>
              /\ bookings[req[w].booking].status \in {"pending", "confirmed"}
              /\ bookings[req[w].booking].tenant = req[w].tenant
        /\ At(w, "status", "written") => req[w].status = "cancelled"
        /\ req[w].op \in {"book", "webhook"} /\ pc[w] = "written" =>
              BookingsOn(req[w].slot) = {}

\* The tables, the locks and the transactions.
CoreInv ==
    /\ TypeOK
    /\ Consistent
    /\ RequestsOK
    /\ EditsOK
    /\ FreshIdsOK
    /\ LocksOK
    /\ ReadsOK

\* A checkout has its PaymentIntent to itself until it is answered, and a webhook
\* carries what the PaymentIntent was opened for and has not been answered.
PaymentsOK ==
    \A w \in Workers :
        /\ req[w].op = "checkout" =>
              /\ payments[req[w].payment].state =
                    (IF pc[w] = "written" THEN "created" ELSE "none")
              /\ \A v \in Workers :
                    req[v].op = "checkout" /\ req[v].payment = req[w].payment => v = w
        /\ req[w].op = "webhook" =>
              LET intent == payments[req[w].payment]
              IN  /\ reply[w] = "none"
                  /\ intent.state \in {"paid", "settled"}
                  /\ intent.slot = req[w].slot
                  /\ intent.tenant = req[w].tenant
                  /\ intent.customer = req[w].user

IInv == CoreInv /\ PaymentsOK

\* A booking that a payment bought is of the slot that payment was for.
PaidForOK ==
    \A b \in BookingIds :
        LET p == bookings[b].paidBy
        IN  p # None =>
              /\ BookingExists(b)
              /\ p \in PaymentIds
              /\ payments[p].state \in {"paid", "settled"}
              /\ payments[p].slot = bookings[b].slot

=============================================================================
