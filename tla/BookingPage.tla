---------------------------- MODULE BookingPage ----------------------------
(***************************************************************************)
(* BookingForm, StripeProvider and BookingFormInner.  StripeProvider       *)
(* returns its children bare until there is a client secret, and inside    *)
(* <Elements> from then on: another tree, in which React mounts a new      *)
(* BookingFormInner.                                                       *)
(*                                                                         *)
(* Stripe is external.  <Elements> keeps the secret it was mounted with,   *)
(* and an intent that is accepted is not confirmed again.  Everything      *)
(* after OpenBookingPage is of a page whose hooks give null outside of     *)
(* <Elements>, as its null checks expect.                                  *)
(***************************************************************************)
EXTENDS Tab

OpenBookingPage(s) ==
    /\ page = "dashboard"
    /\ ShowBooking(s)
    /\ UNCHANGED <<slots, role, zone, writes, typed, faults>>

\* Cancel and Back.  The other ways out end on the dashboard, as "/" does for members.
LeaveBookingPage ==
    /\ page = "book" /\ ~booking.loading
    /\ Leave
    /\ UNCHANGED <<slots, role, zone, writes, typed, faults>>

(***************************************************************************)
(* The slot, read once for each BookingFormInner.                          *)
(***************************************************************************)
AnswerSlot ==
    /\ booking.asking = "slot"
    /\ \/ booking' = [booking EXCEPT !.asking = "nothing", !.loading = FALSE,
             !.shown = IF Exists(booking.slot) THEN Mark(booking.slot) ELSE "missing"]
          /\ UNCHANGED faults
       \/ booking' = [booking EXCEPT !.asking = "nothing", !.loading = FALSE] /\ Faulty
    /\ UNCHANGED <<slots, role, zone, page, dash, form, intents, writes, typed>>

\* Offered after a network error or a 500, not after a 404.
RetryConnection ==
    /\ page = "book" /\ ~booking.loading
    /\ booking.shown = "none"
    /\ booking' = [booking EXCEPT !.asking = "slot", !.loading = TRUE]
    /\ UNCHANGED <<slots, role, zone, page, dash, form, intents, writes, typed, faults>>

(***************************************************************************)
(* The form.                                                               *)
(***************************************************************************)
FormOpen ==
    /\ page = "book" /\ ~booking.loading
    /\ booking.shown = "free" /\ ~booking.success

EnterAmount(a) ==
    /\ FormOpen /\ ~booking.ready
    /\ booking' = [booking EXCEPT !.amount = a]
    /\ UNCHANGED <<slots, role, zone, page, dash, form, intents, writes, typed, faults>>

HandleInitPayment ==
    /\ FormOpen /\ ~booking.ready /\ ~booking.submitting
    /\ booking.amount # None
    /\ Len(intents) < MaxIntents
    /\ booking' = [booking EXCEPT !.submitting = TRUE, !.asking = "checkout"]
    /\ UNCHANGED <<slots, role, zone, page, dash, form, intents, writes, typed, faults>>

\* <Elements> that would be mounted anew for each secret.
Elements_Latest(b, secret) == secret

\* The secret of <Elements> when BookingForm has this one.
Elements(b, secret) == IF b.elements = 0 THEN secret ELSE b.elements

\* The three setStates after a checkout: in the first tree BookingFormInner is
\* replaced, in the second it goes on to the payment.
AfterCheckout(b, secret) ==
    LET inside == [b EXCEPT !.secret = secret, !.elements = Elements(b, secret)]
    IN  IF b.secret = 0
        THEN FreshInner(inside)
        ELSE [inside EXCEPT !.ready = TRUE, !.submitting = FALSE, !.asking = "nothing"]

\* A handler without its finally block.
NoCheckout_Stuck ==
    /\ booking.asking = "checkout"
    /\ booking' = [booking EXCEPT !.asking = "nothing"]
    /\ UNCHANGED <<slots, role, zone, page, dash, form, writes, typed>>

NoCheckout ==
    /\ booking.asking = "checkout"
    /\ booking' = [booking EXCEPT !.submitting = FALSE, !.asking = "nothing"]
    /\ UNCHANGED <<slots, role, zone, page, dash, form, writes, typed>>

\* POST /bookings/checkout is for customers, and Stripe takes no amount of 0 cents.
Opens(cents) ==
    /\ cents \in Charged(booking.amount) /\ cents > 0
    /\ role = "customer" /\ Bookable(booking.slot)
    /\ intents' = Append(intents, [asked |-> booking.amount, cents |-> cents, status |-> "open"])

AnswerCheckout ==
    /\ booking.asking = "checkout"
    /\ \E cents \in Charged(booking.amount) : Opens(cents)
    /\ booking' = AfterCheckout(booking, Len(intents'))
    /\ UNCHANGED <<slots, role, zone, page, dash, form, writes, typed, faults>>

RefuseCheckout ==
    /\ NoCheckout
    /\ \/ role # "customer"
       \/ ~Bookable(booking.slot)
       \/ 0 \in Charged(booking.amount)
    /\ UNCHANGED <<intents, faults>>

\* The intent may have been created.
CheckoutFails ==
    /\ NoCheckout
    /\ Faulty
    /\ UNCHANGED intents \/ \E cents \in Charged(booking.amount) : Opens(cents)

\* The Back button works while the payment is submitted, too.
BackToAmount ==
    /\ FormOpen /\ booking.ready
    /\ booking' = [booking EXCEPT !.ready = FALSE]
    /\ UNCHANGED <<slots, role, zone, page, dash, form, intents, writes, typed, faults>>

\* handleSubmit
Pay ==
    /\ FormOpen /\ booking.ready /\ ~booking.submitting
    /\ booking.elements # 0
    /\ booking' = [booking EXCEPT !.submitting = TRUE, !.asking = "confirm"]
    /\ UNCHANGED <<slots, role, zone, page, dash, form, intents, writes, typed, faults>>

\* confirmPayment has resolved: the page looks for an error, and at nothing else.
Outcome(ok) ==
    booking' = [booking EXCEPT !.asking = "nothing", !.submitting = FALSE, !.success = ok]

\* Stripe takes the payment: at once, or for a decision it will make later.
Accept ==
    /\ intents[booking.elements].status = "open"
    /\ \E status \in {"processing", "paid"} :
          intents' = [intents EXCEPT ![booking.elements].status = status]

Confirming == booking.asking = "confirm" /\ UNCHANGED <<slots, role, zone, writes, typed>>

ConfirmAccepted ==
    /\ Confirming
    /\ Accept /\ Outcome(TRUE)
    /\ UNCHANGED <<page, dash, form, faults>>

\* A page of the bank, which comes back to /book/:slotId/success, where App has no
\* route.  The app is loaded anew: for a tab that awaits no other answer.
ConfirmRedirects ==
    /\ Confirming
    /\ intents[booking.elements].status = "open" /\ writes = {}
    /\ Leave
    /\ UNCHANGED faults

ConfirmRefused ==
    /\ Confirming
    /\ Outcome(FALSE)
    /\ UNCHANGED <<intents, page, dash, form, faults>>

\* Accepted, and the answer is lost.
ConfirmLost ==
    /\ Confirming
    /\ Faulty
    /\ Accept /\ Outcome(FALSE)
    /\ UNCHANGED <<page, dash, form>>

\* Back has unmounted the <PaymentElement>: the promise rejects, and nothing catches it
\* or enables the buttons again.
ConfirmRejected ==
    /\ Confirming
    /\ ~booking.ready
    /\ booking' = [booking EXCEPT !.asking = "nothing"]
    /\ UNCHANGED <<intents, page, dash, form, faults>>

\* Stripe decides on a payment that was processing.
Settle(i) ==
    /\ intents[i].status = "processing"
    /\ \E status \in {"open", "paid"} : intents' = [intents EXCEPT ![i].status = status]
    /\ UNCHANGED <<slots, role, zone, page, dash, form, booking, writes, typed, faults>>

=============================================================================
