----------------------------- MODULE Dashboard -----------------------------
(***************************************************************************)
(* AdminDashboard and SlotForm: a list that is read once and patched by    *)
(* hand, and a form that saves a slot and returns to the list.             *)
(***************************************************************************)
EXTENDS Tab

(***************************************************************************)
(* fetchData: two requests, and the lists are set when both are answered.  *)
(***************************************************************************)
Refresh ==
    /\ page = "dashboard" /\ ~dash.loading
    /\ dash' = [dash EXCEPT !.loading = TRUE, !.reading = FreshDash.reading]
    /\ UNCHANGED <<slots, role, zone, page, form, booking, intents, writes, typed, faults>>

\* A query that finds other rows as well.
Listed_All == [s \in SlotIds |-> Mark(s)]

\* The rows of listAvailabilities.
Listed == [s \in SlotIds |-> IF Exists(s) THEN Mark(s) ELSE "absent"]

\* GET /availabilities is executed.
ReadSlots ==
    /\ "availabilities" \in dash.reading
    /\ dash' = [dash EXCEPT !.reading = @ \ {"availabilities"}, !.got = {Listed}]
    /\ UNCHANGED <<slots, role, zone, page, form, booking, intents, writes, typed, faults>>

ReadBookings ==
    /\ "bookings" \in dash.reading
    /\ dash' = [dash EXCEPT !.reading = @ \ {"bookings"}]
    /\ UNCHANGED <<slots, role, zone, page, form, booking, intents, writes, typed, faults>>

\* setSlots: the list of before is forgotten, what has been filtered included.
ListsArrive ==
    /\ dash.loading /\ dash.reading = {}
    /\ \E list \in dash.got :
          dash' = [NoDash EXCEPT !.loaded = TRUE, !.list = list, !.deleting = dash.deleting]
    /\ UNCHANGED <<slots, role, zone, page, form, booking, intents, writes, typed, faults>>

\* The first request that fails ends the loading; the lists stay as they are.
FetchFails ==
    /\ dash.loading
    /\ Faulty
    /\ dash' = [dash EXCEPT !.loading = FALSE, !.reading = {}, !.got = {}]
    /\ UNCHANGED <<slots, role, zone, page, form, booking, intents, writes, typed>>

(***************************************************************************)
(* The actions of a SlotCard.  They are offered to every role; a provider  *)
(* does not see them on a booked slot.                                     *)
(***************************************************************************)
CardShown(s) == page = "dashboard" /\ ~dash.loading /\ dash.list[s] # "absent"

EditSlot(s) ==
    /\ CardShown(s)
    /\ ~(role = "provider" /\ dash.list[s] = "booked")
    \* ProtectedRoute: others get /unauthorized
    /\ IF role \in {"tenant_admin", "staff", "provider"} THEN ShowEdit(s) ELSE Leave
    /\ UNCHANGED <<slots, role, zone, writes, typed, faults>>

NewSlot ==
    /\ page = "dashboard"
    /\ role \in {"tenant_admin", "provider"}
    /\ ShowNew
    /\ UNCHANGED <<slots, role, zone, writes, typed, faults>>

DeleteSlot(s) ==
    /\ CardShown(s)
    /\ dash.list[s] = "free"
    /\ \E n \in Unused :
          /\ writes' = writes \cup {[no |-> n, op |-> "delete", slot |-> s, at |-> 0]}
          /\ dash' = [dash EXCEPT !.deleting = @ \cup {n}]
    /\ UNCHANGED <<slots, role, zone, page, form, booking, intents, typed, faults>>

MayEdit == role \in {"tenant_admin", "provider"}

\* A handler that removes the card before it knows the answer.
Shorter_Always(s, ok) == [dash.list EXCEPT ![s] = "absent"]

\* The list after the answer to a DELETE: filtered if it was 200.
Shorter(s, ok) == IF ok THEN [dash.list EXCEPT ![s] = "absent"] ELSE dash.list

\* The answer arrives.  A dashboard that was mounted later has not sent the request,
\* and its list is left alone.
HearDeleted(w, ok) ==
    dash' = IF w.no \in dash.deleting
            THEN [dash EXCEPT !.list = Shorter(w.slot, ok), !.deleting = @ \ {w.no}]
            ELSE dash

\* DELETE is executed and answered: 200, or 403, 404, 409.  A provider deletes no
\* slot of somebody else, and the booking of a released slot refuses with a 500.
AnswerDelete(w) ==
    /\ w \in writes /\ w.op = "delete"
    /\ writes' = writes \ {w}
    /\ \E ok \in {MayEdit /\ slots[w.slot].state = "free", FALSE} :
          /\ ok \/ role # "tenant_admin" \/ slots[w.slot].state # "free"
          /\ slots' = IF ok THEN [slots EXCEPT ![w.slot].state = "gone"] ELSE slots
          /\ \/ HearDeleted(w, ok) /\ UNCHANGED faults
             \/ Faulty /\ dash' = [dash EXCEPT !.deleting = @ \ {w.no}]
    /\ UNCHANGED <<role, zone, page, form, booking, intents, typed>>

(***************************************************************************)
(* SlotForm.  Times are hours; both ends of a slot are converted alike.    *)
(***************************************************************************)

\* slice(0, 16) of the ISO string: the digits of UTC, in an input of local time.
ShownInForm(utc) == utc

\* A conversion in the other direction.
SentToApi_Ahead(local) == local + zone

\* new Date(text).toISOString().
SentToApi(local) == local - zone

FormShown == page = "form" /\ ~form.loading

AnswerForm ==
    /\ page = "form" /\ form.loading
    /\ \/ /\ Exists(form.slot)
          /\ form' = [form EXCEPT !.loading = FALSE, !.text = ShownInForm(slots[form.slot].at)]
          /\ UNCHANGED faults
       \/ /\ ~Exists(form.slot)
          /\ form' = [form EXCEPT !.loading = FALSE]
          /\ UNCHANGED faults
       \/ /\ Faulty
          /\ form' = [form EXCEPT !.loading = FALSE]
    /\ UNCHANGED <<slots, role, zone, page, dash, booking, intents, writes, typed>>

TypeTime(t) ==
    /\ FormShown
    /\ form' = [form EXCEPT !.text = t]
    /\ typed' = TRUE
    /\ UNCHANGED <<slots, role, zone, page, dash, booking, intents, writes, faults>>

\* The button is disabled while a save is out.
Submit(s) ==
    /\ FormShown /\ form.submitting = 0
    /\ form.text # None
    /\ s = form.slot \/ (form.slot = None /\ slots[s].state = "unborn")
    /\ SentToApi(form.text) \in Times   \* bound
    /\ \E n \in Unused :
          /\ writes' = writes \cup {[no |-> n, op |-> IF form.slot = None THEN "post" ELSE "put",
                                     slot |-> s, at |-> SentToApi(form.text)]}
          /\ form' = [form EXCEPT !.submitting = n]
    /\ UNCHANGED <<slots, role, zone, page, dash, booking, intents, typed, faults>>

\* Cancel, the link of the navigation bar, or the button of a paid booking.
GoToDashboard ==
    /\ page \notin {"dashboard", "blank"}
    /\ ShowDashboard
    /\ UNCHANGED <<slots, role, zone, writes, typed, faults>>

\* PUT or POST is executed.  Staff are let into the form, but not to the route.
Saves(w) ==
    /\ MayEdit
    /\ IF w.op = "post" THEN slots[w.slot].state = "unborn" ELSE Bookable(w.slot)

Saved(w) ==
    slots' = [slots EXCEPT ![w.slot] =
                 [state |-> IF w.op = "post" THEN "free" ELSE @.state, at |-> w.at]]

\* A handler that leaves the button disabled when the save has failed.
NotSaved_Stuck(w) == UNCHANGED form

\* The button of the form that sent the save; a form mounted later has its own.
NotSaved(w) == form' = IF form.submitting = w.no THEN [form EXCEPT !.submitting = 0] ELSE form

\* A refusal may also be for an overlap with a slot of somebody else.  A save that
\* is answered goes to the dashboard, wherever the tab is by then.
AnswerSave(w) ==
    /\ w \in writes /\ w.op \in {"put", "post"}
    /\ writes' = writes \ {w}
    /\ \/ /\ Saves(w) /\ Saved(w)
          /\ IF page = "blank" THEN UNCHANGED <<page, dash, form, booking, intents>>
                              ELSE ShowDashboard
          /\ UNCHANGED faults
       \/ /\ NotSaved(w)
          /\ UNCHANGED <<slots, page, dash, booking, intents, faults>>
       \/ /\ Faulty
          /\ Saves(w) /\ Saved(w)
          /\ NotSaved(w)
          /\ UNCHANGED <<page, dash, booking, intents>>
    /\ UNCHANGED <<role, zone, typed>>

=============================================================================
