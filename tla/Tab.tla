-------------------------------- MODULE Tab --------------------------------
(***************************************************************************)
(* The pages of a signed-in member that work on slots: the dashboard, the  *)
(* slot form and the booking page.  A tab shows one of them; the state of  *)
(* the others is gone, and an answer to a request that a component sent    *)
(* before it was unmounted sets nothing in the one that is shown.          *)
(*                                                                         *)
(* This module holds the state, what the server does for these pages, and  *)
(* the navigation.  Slots are created and deleted by this tab only; other  *)
(* people book them and cancel.                                            *)
(***************************************************************************)
EXTENDS Money, Sequences, FiniteSets

CONSTANTS
    SlotIds,
    Amounts,      \* what a customer may type, in tenths of a cent
    Zones,        \* offsets of the browser's clock from UTC, in hours
    MaxShift,     \* bound on start times: hours from the first one
    MaxIntents,   \* bound on PaymentIntents of a visit
    MaxWrites,    \* bound on writes in flight
    MaxFaults,    \* bound on lost answers and 500s
    HooksThrow,   \* whether useStripe throws outside <Elements>, or gives null
    None

ASSUME NumbersAreNumbers == Zones \subseteq Int /\ MaxShift \in Nat /\ Amounts \subseteq Nat \ {0}

ASSUME NoneIsNoValue == None \notin SlotIds \cup Amounts

ASSUME BoundsAreNumbers == MaxIntents \in Nat /\ MaxFaults \in Nat /\ MaxWrites \in Nat

ASSUME HooksThrowOrNot == HooksThrow \in BOOLEAN

VARIABLES
    slots,      \* the table: state of a slot and its start_time in UTC
    role,       \* of the member in the active workspace
    zone,       \* of the browser
    page,       \* what the tab shows
    dash,       \* state of AdminDashboard
    form,       \* state of SlotForm
    booking,    \* state of BookingForm and the BookingFormInner it mounts
    intents,    \* PaymentIntents of this visit of the booking page
    writes,     \* DELETE, PUT and POST requests for slots in flight
    typed,      \* history: somebody has typed a time
    faults

tabVars == <<slots, role, zone, page, dash, form, booking, intents, writes, typed, faults>>

Roles == {"superadmin", "tenant_admin", "provider", "staff", "customer"}

Times == -MaxShift .. MaxShift

Slot == [state : {"unborn", "free", "booked", "released", "gone"}, at : Times]

\* A released slot is one whose booking was cancelled, and stays in the table.
Exists(s) == slots[s].state \in {"free", "booked", "released"}

\* is_booked is false.
Bookable(s) == slots[s].state \in {"free", "released"}

Mark(s) == IF Bookable(s) THEN "free" ELSE "booked"

(***************************************************************************)
(* The states of the three components.                                     *)
(***************************************************************************)

\* list: how each slot is shown; reading: the two requests of fetchData that are
\* out; got: what the first of them has read; deleting: the DELETE requests whose
\* answers it waits for.
DashState == [loading : BOOLEAN, loaded : BOOLEAN,
              list    : [SlotIds -> {"absent", "free", "booked"}],
              reading : SUBSET {"availabilities", "bookings"},
              got     : SUBSET [SlotIds -> {"absent", "free", "booked"}],
              deleting : SUBSET (1 .. MaxWrites)]

NothingListed == [s \in SlotIds |-> "absent"]

NoDash == [loading |-> FALSE, loaded |-> FALSE, list |-> NothingListed,
           reading |-> {}, got |-> {}, deleting |-> {}]

\* A dashboard in its first render, with fetchData called.
FreshDash == [NoDash EXCEPT !.loading = TRUE, !.reading = {"availabilities", "bookings"}]

\* text: the start time in the datetime-local input; submitting: the save whose answer
\* enables the button again, 0 for none.
FormState == [slot : SlotIds \cup {None}, text : Times \cup {None},
              loading : BOOLEAN, submitting : 0 .. MaxWrites]

NoForm == [slot |-> None, text |-> None, loading |-> FALSE, submitting |-> 0]

\* secret: the clientSecret of BookingForm, which outlives BookingFormInner;
\* elements: the one <Elements> was mounted with.  0: none.
BookingState == [slot : SlotIds \cup {None}, secret : 0 .. MaxIntents, elements : 0 .. MaxIntents,
                 shown : {"none", "missing", "free", "booked"}, amount : Amounts \cup {None},
                 asking : {"nothing", "slot", "checkout", "confirm"},
                 loading : BOOLEAN, ready : BOOLEAN, submitting : BOOLEAN, success : BOOLEAN]

NoBooking == [slot |-> None, secret |-> 0, elements |-> 0, shown |-> "none", amount |-> None,
              asking |-> "nothing", loading |-> FALSE, ready |-> FALSE, submitting |-> FALSE,
              success |-> FALSE]

\* BookingFormInner in its first render, which fetches the slot.
FreshInner(b) ==
    [NoBooking EXCEPT !.slot = b.slot, !.secret = b.secret, !.elements = b.elements,
                      !.asking = "slot", !.loading = TRUE]

\* A request, under the number its sender knows it by.
Write == [no : 1 .. MaxWrites, op : {"delete", "put", "post"}, slot : SlotIds, at : Times]

\* processing: Stripe has accepted the payment and will know later whether it is paid.
Intent == [asked : Amounts, cents : Nat, status : {"open", "processing", "paid"}]

TabTypeOK ==
    /\ slots \in [SlotIds -> Slot]
    /\ role \in Roles
    /\ zone \in Zones
    /\ page \in {"dashboard", "form", "book", "elsewhere", "blank"}
    /\ dash \in DashState
    /\ form \in FormState
    /\ booking \in BookingState
    /\ intents \in Seq(Intent)
    /\ Len(intents) <= MaxIntents
    /\ writes \subseteq Write
    /\ typed \in BOOLEAN
    /\ faults \in 0 .. MaxFaults

(***************************************************************************)
(* Navigation: what is left is unmounted, what is shown is mounted.        *)
(***************************************************************************)
Show(where, d, f, b) ==
    /\ page' = where
    /\ dash' = d
    /\ form' = f
    /\ booking' = b
    /\ intents' = <<>>

ShowDashboard ==
    IF page = "dashboard"
    THEN UNCHANGED <<page, dash, form, booking, intents>>
    ELSE Show("dashboard", FreshDash, NoForm, NoBooking)

\* The link of an edit button: the form fetches the slot.
ShowEdit(s) == Show("form", NoDash, [NoForm EXCEPT !.slot = s, !.loading = TRUE], NoBooking)

ShowNew == Show("form", NoDash, NoForm, NoBooking)

\* An error in the first render finds no error boundary, and React removes the whole
\* page.  No effect has run.
ShowBooking(s) ==
    LET visit == [NoBooking EXCEPT !.slot = s]
    IN  IF HooksThrow
        THEN Show("blank", NoDash, NoForm, visit)
        ELSE Show("book", NoDash, NoForm, FreshInner(visit))

Leave == Show("elsewhere", NoDash, NoForm, NoBooking)

Numbers == {w.no : w \in writes}

\* The first number that is not in use, if the bound leaves one.
Unused == {n \in (1 .. MaxWrites) \ Numbers : 1 .. (n - 1) \subseteq Numbers}

Faulty == faults < MaxFaults /\ faults' = faults + 1

InitTab ==
    /\ slots \in [SlotIds -> {[state |-> st, at |-> 0] : st \in {"unborn", "free"}}]
    /\ role \in Roles
    /\ zone \in Zones
    /\ page = "dashboard"
    /\ dash = FreshDash
    /\ form = NoForm
    /\ booking = NoBooking
    /\ intents = <<>>
    /\ writes = {}
    /\ typed = FALSE
    /\ faults = 0

\* Others book a free slot, and cancel.  The row of a cancelled booking keeps the slot
\* from being booked again.
OthersBook(s) ==
    /\ slots[s].state \in {"free", "booked"}
    /\ slots' = [slots EXCEPT ![s].state = IF @ = "free" THEN "booked" ELSE "released"]
    /\ UNCHANGED <<role, zone, page, dash, form, booking, intents, writes, typed, faults>>

=============================================================================
