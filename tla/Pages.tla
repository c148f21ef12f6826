------------------------------- MODULE Pages -------------------------------
(***************************************************************************)
(* A member's tab on slots, with other people booking and cancelling.      *)
(***************************************************************************)
EXTENDS Dashboard, BookingPage

Click ==
    \/ Refresh \/ NewSlot \/ GoToDashboard
    \/ \E s \in SlotIds : EditSlot(s) \/ DeleteSlot(s) \/ Submit(s) \/ OpenBookingPage(s)
    \/ \E t \in Times : TypeTime(t)
    \/ \E a \in Amounts : EnterAmount(a)
    \/ LeaveBookingPage \/ RetryConnection \/ HandleInitPayment \/ BackToAmount \/ Pay

DashboardAnswer == ReadSlots \/ ReadBookings \/ ListsArrive \/ FetchFails \/ AnswerForm

WriteAnswer(w) == AnswerDelete(w) \/ AnswerSave(w)

ConfirmAnswer ==
    \/ ConfirmAccepted \/ ConfirmRedirects \/ ConfirmRefused \/ ConfirmLost
    \/ ConfirmRejected

BookingAnswer ==
    \/ AnswerSlot \/ AnswerCheckout \/ RefuseCheckout \/ CheckoutFails \/ ConfirmAnswer

Next ==
    \/ Click \/ DashboardAnswer \/ BookingAnswer
    \/ \E w \in writes : WriteAnswer(w)
    \/ \E s \in SlotIds : OthersBook(s)
    \/ \E i \in DOMAIN intents : Settle(i)

Init == InitTab

Spec == Init /\ [][Next]_tabVars

(***************************************************************************)
(* Requests are answered or fail, each write on its own.  Nobody has to    *)
(* click, and Stripe may take its time to settle.                          *)
(***************************************************************************)
FairSpec ==
    /\ Spec
    /\ WF_tabVars(DashboardAnswer)
    /\ \A n \in 1 .. MaxWrites : WF_tabVars(\E w \in writes : w.no = n /\ WriteAnswer(w))
    /\ WF_tabVars(BookingAnswer)

TypeOK == TabTypeOK

(***************************************************************************)
(* Safety.                                                                 *)
(***************************************************************************)

\* As long as a dashboard is shown, a card disappears from it only if its slot is gone:
\* not for a DELETE that was refused or whose answer was lost, and by no list that
\* overlapped the writes of this or of an earlier dashboard.
CardsVanishWithSlots ==
    [][\A s \in SlotIds :
          dash.loaded /\ dash'.loaded /\ dash.list[s] # "absent" /\ dash'.list[s] = "absent"
             => slots'[s].state = "gone"]_tabVars

\* As long as nobody types a time, a slot is moved only by saves of untouched forms,
\* each of which makes it earlier by the offset of the browser's clock; a save that is
\* repeated because its answer was lost does nothing else.
UntouchedSavesShift ==
    ~typed => \A s \in SlotIds : \E n \in 0 .. MaxShift : slots[s].at = 0 - n * zone

\* Stripe has accepted the payment, and has not said otherwise since.
Accepted(i) == intents[i].status # "open"

\* Going back and forth between amount and payment, and trying again after a payment
\* whose answer was lost or that has failed later, never leaves two intents of one visit
\* accepted.
PaidOnce ==
    \A i, j \in DOMAIN intents : Accepted(i) /\ Accepted(j) => i = j

\* What Stripe charges is what the webhook will put on the invoice, or one cent less
\* if half a cent was asked for.
ChargedIsInvoiced == \A i \in DOMAIN intents : Agree(intents[i].asked, intents[i].cents)

(***************************************************************************)
(* Liveness.                                                               *)
(***************************************************************************)

\* The button that sent a save, and the one that asked for a PaymentIntent, come back
\* whatever the answer, or their page is left.  Not so the one that pays: a rejected
\* confirmPayment leaves it disabled.
ButtonsComeBack ==
    /\ form.submitting # 0 ~> form.submitting = 0
    /\ booking.submitting /\ booking.asking = "checkout" ~> ~booking.submitting

(***************************************************************************)
(* What comments say, and the code does not do.                            *)
(***************************************************************************)

\* AdminDashboard.jsx:51, "Deletes a slot after confirmation and updates local state":
\* a slot that is gone from the table and from the list of a dashboard does not come
\* back to that list.
GoneStaysUnlisted ==
    [][\A s \in SlotIds :
          dash.loaded /\ dash'.loaded /\ slots[s].state = "gone" /\ dash.list[s] = "absent"
             => dash'.list[s] = "absent"]_tabVars

=============================================================================
