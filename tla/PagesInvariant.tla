--------------------------- MODULE PagesInvariant ---------------------------
(***************************************************************************)
(* What the three pages know of the table, of Stripe and of their own      *)
(* requests: the inductive invariant behind the safety properties of Pages.*)
(***************************************************************************)
EXTENDS Pages

\* A page that is not shown has no state.
OnePage ==
    /\ page # "dashboard" => dash = NoDash
    /\ page # "book" => intents = <<>>
    /\ page \notin {"book", "blank"} => booking = NoBooking
    /\ page = "blank" => booking = [NoBooking EXCEPT !.slot = booking.slot]

\* What is listed has been in the table, and what a newer list leaves out is gone.
ListOK ==
    \A s \in SlotIds :
       /\ dash.list[s] # "absent" => slots[s].state # "unborn"
       /\ \A list \in dash.got :
             /\ list[s] # "absent" => slots[s].state # "unborn"
             /\ list[s] = "absent" /\ dash.list[s] # "absent" => slots[s].state = "gone"

\* A time that saves of an untouched form have made of the first one.
Shifted(t) == \E n \in 0 .. MaxShift : t = 0 - n * zone

\* Until somebody types, there are no other times: in the table, in the input and in
\* the requests.
TimesAreShifted ==
    ~typed =>
        /\ \A s \in SlotIds : Shifted(slots[s].at)
        /\ form.text # None => Shifted(form.text)
        /\ \A w \in writes : Shifted(w.at)

\* What the form loads is a slot.
FormOK == form.loading => form.slot # None

\* The one intent that may be accepted is that of the <Elements> mounted.  An answer of
\* Stripe that is awaited has its intent, and one of the checkout its amount.
PaymentOK ==
    /\ booking.elements <= Len(intents)
    /\ \A i \in DOMAIN intents :
          /\ Accepted(i) => booking.elements = i
          /\ Agree(intents[i].asked, intents[i].cents)
    /\ booking.asking = "confirm" => booking.elements # 0
    /\ booking.asking = "checkout" => booking.amount # None /\ Len(intents) < MaxIntents

PagesInv ==
    /\ TypeOK
    /\ OnePage
    /\ ListOK
    /\ TimesAreShifted
    /\ FormOK
    /\ PaymentOK

=============================================================================
