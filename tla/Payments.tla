------------------------------ MODULE Payments ------------------------------
(***************************************************************************)
(* Paying for a slot: createCheckoutSession opens a Stripe PaymentIntent   *)
(* that carries the booking's details as metadata, the customer pays it on *)
(* Stripe, and Stripe's payment_intent.succeeded event makes the webhook   *)
(* book the slot from that metadata.                                       *)
(*                                                                         *)
(* Stripe is external.  It delivers an event at least once: again and      *)
(* again until a delivery is answered 2xx, possibly to both replicas at    *)
(* the same time, and now and then after a 2xx as well.                    *)
(***************************************************************************)
EXTENDS BookingStore

VARIABLE payments    \* PaymentIds -> the PaymentIntent, as Stripe keeps it

(***************************************************************************)
(* "created" is an intent whose client secret has not reached a customer,  *)
(* "open" one that can be paid, "paid" one whose event is being delivered, *)
(* "settled" one whose delivery has been answered 2xx.                     *)
(***************************************************************************)
Intent == [state    : {"created", "open", "paid", "settled"},
           tenant   : Tenants,
           slot     : SlotIds,
           customer : Customers]

NoPayment == [state |-> "none", tenant |-> None, slot |-> None, customer |-> None]

PaymentsTypeOK == payments \in [PaymentIds -> Intent \cup {NoPayment}]

InitPayments == payments = [p \in PaymentIds |-> NoPayment]

Unused(p) ==
    /\ payments[p].state = "none"
    /\ \A v \in Workers : req[v].payment # p

RequestCheckout(w) ==
    /\ \E t \in Tenants, c \in Customers, s \in SlotIds, p \in PaymentIds :
          /\ Unused(p)
          /\ Begin(w, [NoRequest EXCEPT !.op = "checkout", !.tenant = t, !.user = c,
                                        !.slot = s, !.payment = p])
    /\ UNCHANGED payments

(***************************************************************************)
(* createCheckoutSession.  The slot stays locked while Stripe is called    *)
(* and nothing records the intent: COMMIT only gives the lock back.        *)
(***************************************************************************)
LockForCheckout(w) ==
    /\ At(w, "checkout", "begin")
    /\ LockOpenSlot(w)
    /\ UNCHANGED payments

\* Stripe creates the intent; a failed call is a Fail.
CreateIntent(w) ==
    /\ At(w, "checkout", "locked")
    /\ payments' = [payments EXCEPT ![req[w].payment] =
          [state |-> "created", tenant |-> req[w].tenant,
           slot |-> req[w].slot, customer |-> req[w].user]]
    /\ pc' = [pc EXCEPT ![w] = "written"]
    /\ UNCHANGED <<tables, locks, req, reply, faults>>

\* The client gets the secret only if the answer arrives.
CommitCheckout(w) ==
    /\ At(w, "checkout", "written")
    /\ Commit(w)
    /\ UNCHANGED tables
    /\ payments' = [payments EXCEPT ![req[w].payment].state =
                      IF reply'[w] = "ok" THEN "open" ELSE @]

\* The customer confirms the payment on Stripe's form.
Pay(p) ==
    /\ payments[p].state = "open"
    /\ payments' = [payments EXCEPT ![p].state = "paid"]
    /\ UNCHANGED storeVars

(***************************************************************************)
(* handleStripeWebhook, for an event whose metadata is complete, as        *)
(* createCheckoutSession leaves it.  Other events are acknowledged and     *)
(* change nothing.                                                         *)
(***************************************************************************)
DeliverEvent(w, p) ==
    /\ payments[p].state \in {"paid", "settled"}
    /\ Begin(w, [NoRequest EXCEPT !.op = "webhook", !.tenant = payments[p].tenant,
                                  !.user = payments[p].customer,
                                  !.slot = payments[p].slot, !.payment = p])
    /\ UNCHANGED payments

\* A handler that answers 200 from its catch block, to stop the retries.
Acknowledges_Faults(code) == code \in {"ok", "fault"}

\* The answers that Stripe takes as delivered.
Acknowledges(code) == code = "ok"

Settle(w) ==
    payments' = IF req[w].op = "webhook" /\ Acknowledges(reply'[w])
                THEN [payments EXCEPT ![req[w].payment].state = "settled"]
                ELSE payments

LockForWebhook(w) ==
    /\ At(w, "webhook", "begin")
    /\ LockOpenSlot(w)
    /\ Settle(w)

InsertConfirmed(w) ==
    /\ At(w, "webhook", "locked")
    /\ InsertBooking(w)
    /\ Settle(w)

CommitConfirmed(w) ==
    /\ At(w, "webhook", "written")
    /\ CommitBooking(w, [status |-> "confirmed", tenant |-> req[w].tenant,
                         customer |-> req[w].user, slot |-> req[w].slot,
                         paidBy |-> req[w].payment])
    /\ Settle(w)

PaymentStep(w) ==
    \/ LockForCheckout(w) \/ CreateIntent(w) \/ CommitCheckout(w)
    \/ LockForWebhook(w) \/ InsertConfirmed(w) \/ CommitConfirmed(w)

=============================================================================
