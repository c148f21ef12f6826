---------------------------- MODULE PagesProofs ----------------------------
(***************************************************************************)
(* Proofs about Pages for every set of slots, zones and amounts and every  *)
(* bound: PagesInv is inductive, and what follows from it.                 *)
(***************************************************************************)
EXTENDS PagesInvariant

USE NumbersAreNumbers, BoundsAreNumbers

(***************************************************************************)
(* The invariant by components, for steps that leave some of them alone.   *)
(***************************************************************************)
TableSafe ==
    /\ slots \in [SlotIds -> Slot]
    /\ ~typed => \A s \in SlotIds : Shifted(slots[s].at)

RestSafe ==
    /\ role \in Roles
    /\ zone \in Zones
    /\ page \in {"dashboard", "form", "book", "elsewhere", "blank"}
    /\ typed \in BOOLEAN
    /\ faults \in 0 .. MaxFaults

DashSafe ==
    /\ dash \in DashState
    /\ page # "dashboard" => dash = NoDash
    /\ ListOK

FormSafe ==
    /\ form \in FormState
    /\ FormOK
    /\ ~typed /\ form.text # None => Shifted(form.text)

WritesSafe ==
    /\ writes \subseteq Write
    /\ ~typed => \A w \in writes : Shifted(w.at)

BookingSafe ==
    /\ booking \in BookingState
    /\ intents \in Seq(Intent)
    /\ Len(intents) <= MaxIntents
    /\ page # "book" => intents = <<>>
    /\ page \notin {"book", "blank"} => booking = NoBooking
    /\ page = "blank" => booking = [NoBooking EXCEPT !.slot = booking.slot]
    /\ PaymentOK

LEMMA PartsOfPagesInv ==
    PagesInv <=> TableSafe /\ RestSafe /\ DashSafe /\ FormSafe /\ WritesSafe /\ BookingSafe
  BY DEF PagesInv, TypeOK, TabTypeOK, TableSafe, RestSafe, DashSafe, FormSafe, WritesSafe,
         BookingSafe, OnePage, TimesAreShifted

LEMMA PartsOfPagesInvNext ==
    PagesInv' <=> TableSafe' /\ RestSafe' /\ DashSafe' /\ FormSafe' /\ WritesSafe' /\ BookingSafe'
  BY PartsOfPagesInv, PTL

(***************************************************************************)
(* What is left alone stays safe.                                          *)
(***************************************************************************)
LEMMA TableKept ==
    ASSUME PagesInv, UNCHANGED <<slots, zone>>, typed => typed'
    PROVE  TableSafe'
  BY PartsOfPagesInv DEF TableSafe, Shifted

LEMMA RestKept ==
    ASSUME PagesInv, UNCHANGED <<role, zone, page, typed>>, faults' = faults \/ Faulty
    PROVE  RestSafe'
  BY PartsOfPagesInv DEF RestSafe, Faulty

\* A slot that has been in the table has been there, and one that is gone is gone.
Onward ==
    \A s \in SlotIds : /\ slots[s].state # "unborn" => slots'[s].state # "unborn"
                       /\ slots[s].state = "gone" => slots'[s].state = "gone"

LEMMA DashKept ==
    ASSUME PagesInv, UNCHANGED <<page, dash>>, Onward
    PROVE  DashSafe'
  BY PartsOfPagesInv DEF DashSafe, ListOK, Onward

LEMMA FormKept ==
    ASSUME PagesInv, UNCHANGED <<form, zone>>, typed => typed'
    PROVE  FormSafe'
  BY PartsOfPagesInv DEF FormSafe, FormOK, Shifted

LEMMA WritesKept ==
    ASSUME PagesInv, writes' \subseteq writes, UNCHANGED zone, typed => typed'
    PROVE  WritesSafe'
  BY PartsOfPagesInv DEF WritesSafe, Shifted

LEMMA BookingKept ==
    ASSUME PagesInv, UNCHANGED <<page, booking, intents>>
    PROVE  BookingSafe'
  BY PartsOfPagesInv DEF BookingSafe, PaymentOK, Accepted

LEMMA SameTable ==
    ASSUME UNCHANGED slots
    PROVE  Onward
  BY DEF Onward

LEMMA InitPagesInv == Init => PagesInv
<1> SUFFICES ASSUME Init PROVE PagesInv
  OBVIOUS
<1> USE DEF Init, InitTab
<1>1. TableSafe
  <2>1. 0 \in Times /\ zone \in Int
    BY DEF Times
  <2>2. Shifted(0)
    <3>1. 0 \in 0 .. MaxShift /\ 0 = 0 - 0 * zone
      BY <2>1
    <3> QED
      BY <3>1 DEF Shifted
  <2>3. \A s \in SlotIds : slots[s].state \in {"unborn", "free"} /\ slots[s].at = 0
    OBVIOUS
  <2>4. slots \in [SlotIds -> Slot]
    BY <2>1 DEF Slot
  <2> QED
    BY <2>2, <2>3, <2>4 DEF TableSafe
<1>2. RestSafe
  <2>1. faults \in 0 .. MaxFaults
    OBVIOUS
  <2> QED
    BY <2>1 DEF RestSafe
<1>3. WritesSafe
  BY DEF WritesSafe
<1>4. DashSafe
  BY DEF DashSafe, DashState, ListOK, FreshDash, NoDash, NothingListed
<1>5. FormSafe
  BY DEF FormSafe, FormState, FormOK, NoForm
<1>6. BookingSafe
  <2>1. booking \in BookingState
    BY DEF BookingState, NoBooking
  <2>2. intents = <<>> /\ Len(intents) = 0 /\ DOMAIN intents = {}
    OBVIOUS
  <2>3. PaymentOK
    BY <2>2 DEF PaymentOK, NoBooking
  <2>4. intents \in Seq(Intent)
    OBVIOUS
  <2> QED
    BY <2>1, <2>2, <2>3, <2>4 DEF BookingSafe
<1> QED
  BY <1>1, <1>2, <1>3, <1>4, <1>5, <1>6, PartsOfPagesInv

(***************************************************************************)
(* Navigation: a page starts without what the others have left.            *)
(***************************************************************************)
LEMMA FreshStates ==
    /\ NoDash \in DashState /\ ~NoDash.loaded
    /\ FreshDash \in DashState /\ ~FreshDash.loaded
    /\ NoForm \in FormState /\ NoForm.text = None /\ ~NoForm.loading
    /\ NoBooking \in BookingState /\ NoBooking.elements = 0 /\ NoBooking.asking = "nothing"
<1>1. NoDash \in DashState /\ ~NoDash.loaded /\ FreshDash \in DashState /\ ~FreshDash.loaded
  BY DEF DashState, FreshDash, NoDash, NothingListed
<1>2. NoForm \in FormState /\ NoForm.text = None /\ ~NoForm.loading
  BY DEF FormState, NoForm
<1>3. NoBooking \in BookingState /\ NoBooking.elements = 0 /\ NoBooking.asking = "nothing"
  BY DEF BookingState, NoBooking
<1> QED
  BY <1>1, <1>2, <1>3

LEMMA NothingIsListed ==
    ASSUME NEW d \in {NoDash, FreshDash}
    PROVE  /\ d \in DashState /\ ~d.loaded /\ d.got = {}
           /\ \A s \in SlotIds : d.list[s] = "absent"
<1>1. /\ NoDash \in DashState /\ ~NoDash.loaded /\ NoDash.got = {}
      /\ NoDash.list = NothingListed
  BY FreshStates DEF NoDash
<1>2. /\ FreshDash \in DashState /\ ~FreshDash.loaded /\ FreshDash.got = {}
      /\ FreshDash.list = NothingListed
  BY FreshStates DEF FreshDash, NoDash
<1>3. \A s \in SlotIds : NothingListed[s] = "absent"
  BY DEF NothingListed
<1> QED
  BY <1>1, <1>2, <1>3

LEMMA ShowKeeps ==
    ASSUME NEW where \in {"dashboard", "form", "book", "elsewhere", "blank"},
           NEW d \in {NoDash, FreshDash}, where # "dashboard" => d = NoDash,
           NEW f \in FormState, f.text = None, f.loading => f.slot # None,
           NEW b \in BookingState, where \notin {"book", "blank"} => b = NoBooking,
           where = "blank" => b = [NoBooking EXCEPT !.slot = b.slot],
           b.elements = 0, b.asking \notin {"confirm", "checkout"},
           Show(where, d, f, b)
    PROVE  page' = where /\ ~dash'.loaded /\ DashSafe' /\ FormSafe' /\ BookingSafe'
<1> USE DEF Show
<1>1. DashSafe' /\ ~dash'.loaded
  BY NothingIsListed DEF DashSafe, ListOK
<1>2. FormSafe'
  BY DEF FormSafe, FormOK
<1>3. BookingSafe'
  <2>1. intents' = <<>> /\ Len(intents') = 0 /\ DOMAIN intents' = {}
    OBVIOUS
  <2>2. PaymentOK'
    BY <2>1 DEF PaymentOK
  <2>3. intents' \in Seq(Intent)
    OBVIOUS
  <2> QED
    BY <2>1, <2>2, <2>3 DEF BookingSafe
<1> QED
  BY <1>1, <1>2, <1>3

LEMMA ShowDashboardKeeps ==
    ASSUME page # "dashboard", ShowDashboard
    PROVE  page' = "dashboard" /\ ~dash'.loaded /\ DashSafe' /\ FormSafe' /\ BookingSafe'
  BY ShowKeeps, FreshStates DEF ShowDashboard

LEMMA LeaveKeeps ==
    ASSUME Leave
    PROVE  page' = "elsewhere" /\ ~dash'.loaded /\ DashSafe' /\ FormSafe' /\ BookingSafe'
  BY ShowKeeps, FreshStates DEF Leave

LEMMA ShowNewKeeps ==
    ASSUME ShowNew
    PROVE  page' = "form" /\ ~dash'.loaded /\ DashSafe' /\ FormSafe' /\ BookingSafe'
  BY ShowKeeps, FreshStates DEF ShowNew

LEMMA ShowEditKeeps ==
    ASSUME NEW s \in SlotIds, s # None, ShowEdit(s)
    PROVE  page' = "form" /\ ~dash'.loaded /\ DashSafe' /\ FormSafe' /\ BookingSafe'
<1>1. PICK f : f = [NoForm EXCEPT !.slot = s, !.loading = TRUE]
  OBVIOUS
<1>2. f \in FormState /\ f.text = None /\ f.slot = s
  <2>1. NoForm \in FormState /\ NoForm.text = None
    BY FreshStates
  <2> QED
    BY <1>1, <2>1 DEF FormState
<1> QED
  BY <1>1, <1>2, ShowKeeps, FreshStates DEF ShowEdit

\* A BookingFormInner that is mounted keeps what BookingForm holds.
LEMMA FreshInnerTyped ==
    ASSUME NEW b \in BookingState
    PROVE  /\ FreshInner(b) \in BookingState
           /\ FreshInner(b).elements = b.elements
           /\ FreshInner(b).secret = b.secret
           /\ FreshInner(b).asking = "slot"
<1>1. b.slot \in SlotIds \cup {None} /\ b.secret \in 0 .. MaxIntents /\ b.elements \in 0 .. MaxIntents
  BY DEF BookingState
<1>2. PICK x : x = FreshInner(b)
  OBVIOUS
<1>3. /\ x.slot = b.slot /\ x.secret = b.secret /\ x.elements = b.elements
      /\ x.shown = "none" /\ x.amount = None /\ x.asking = "slot"
      /\ x.loading = TRUE /\ x.ready = FALSE /\ x.submitting = FALSE /\ x.success = FALSE
  BY <1>2 DEF FreshInner, NoBooking
<1>4. x = [NoBooking EXCEPT !.slot = b.slot, !.secret = b.secret, !.elements = b.elements,
                            !.asking = "slot", !.loading = TRUE]
  BY <1>2 DEF FreshInner
<1>5. x \in BookingState
  BY <1>1, <1>4, FreshStates DEF BookingState
<1> QED
  BY <1>2, <1>3, <1>5

LEMMA ShowBookingKeeps ==
    ASSUME NEW s \in SlotIds, ShowBooking(s)
    PROVE  /\ page' \in {"book", "blank"}
           /\ ~dash'.loaded /\ DashSafe' /\ FormSafe' /\ BookingSafe'
<1>1. PICK b : b = [NoBooking EXCEPT !.slot = s]
  OBVIOUS
<1>2. /\ b \in BookingState /\ b.elements = 0 /\ b.asking = "nothing"
      /\ b = [NoBooking EXCEPT !.slot = b.slot]
  BY <1>1, FreshStates DEF BookingState
<1>3. PICK x : x = FreshInner(b)
  OBVIOUS
<1>4. x \in BookingState /\ x.elements = 0 /\ x.asking = "slot"
  BY <1>2, <1>3, FreshInnerTyped
<1>5. CASE Show("blank", NoDash, NoForm, b)
  BY <1>2, <1>5, ShowKeeps, FreshStates
<1>6. CASE Show("book", NoDash, NoForm, x)
  BY <1>4, <1>6, ShowKeeps, FreshStates
<1> QED
  BY <1>1, <1>3, <1>5, <1>6 DEF ShowBooking

\* A click that shows another page.
LEMMA PageShown ==
    ASSUME PagesInv, UNCHANGED <<slots, role, zone, writes, typed, faults>>,
           page' \in {"dashboard", "form", "book", "elsewhere", "blank"},
           DashSafe', FormSafe', BookingSafe'
    PROVE  PagesInv'
  BY TableKept, WritesKept, PartsOfPagesInv, PartsOfPagesInvNext DEF RestSafe

LEMMA GoToDashboardKeeps ==
    ASSUME PagesInv, GoToDashboard
    PROVE  PagesInv'
  BY ShowDashboardKeeps, PageShown DEF GoToDashboard

LEMMA LeaveBookingPageKeeps ==
    ASSUME PagesInv, LeaveBookingPage
    PROVE  PagesInv'
  BY LeaveKeeps, PageShown DEF LeaveBookingPage

LEMMA NewSlotKeeps ==
    ASSUME PagesInv, NewSlot
    PROVE  PagesInv'
  BY ShowNewKeeps, PageShown DEF NewSlot

LEMMA EditSlotKeeps ==
    ASSUME PagesInv, NEW s \in SlotIds, EditSlot(s)
    PROVE  PagesInv'
  BY NoneIsNoValue, LeaveKeeps, ShowEditKeeps, PageShown DEF EditSlot

LEMMA OpenBookingPageKeeps ==
    ASSUME PagesInv, NEW s \in SlotIds, OpenBookingPage(s)
    PROVE  PagesInv'
  BY ShowBookingKeeps, PageShown DEF OpenBookingPage

(***************************************************************************)
(* The times of untouched forms.                                           *)
(***************************************************************************)
LEMMA StartIsShifted ==
    ASSUME zone \in Int
    PROVE  Shifted(0)
<1>1. 0 \in 0 .. MaxShift /\ 0 = 0 - 0 * zone
  OBVIOUS
<1> QED
  BY <1>1 DEF Shifted

\* One more save makes one more shift, and within the bound on times there are no more
\* shifts than hours, unless a shift is nothing.
LEMMA SaveShifts ==
    ASSUME zone \in Int, NEW t \in Int, Shifted(t), SentToApi(t) \in Times
    PROVE  Shifted(SentToApi(t))
<1>1. PICK n \in 0 .. MaxShift : t = 0 - n * zone
  BY DEF Shifted
<1>2. SentToApi(t) = 0 - (n + 1) * zone
  BY <1>1 DEF SentToApi
<1>3. CASE zone = 0
  <2>1. SentToApi(t) = 0
    BY <1>2, <1>3
  <2> QED
    BY <2>1, StartIsShifted
<1>4. CASE zone # 0
  <2>1. (n + 1) * zone >= -MaxShift /\ (n + 1) * zone <= MaxShift
    BY <1>2 DEF Times
  <2>2. n + 1 <= MaxShift
    <3>1. CASE zone >= 1
      <4>1. (n + 1) * zone >= n + 1
        BY <3>1
      <4> QED
        BY <2>1, <4>1
    <3>2. CASE zone <= -1
      <4>1. (n + 1) * zone <= -(n + 1)
        BY <3>2
      <4> QED
        BY <2>1, <4>1
    <3> QED
      BY <1>4, <3>1, <3>2
  <2>3. n + 1 \in 0 .. MaxShift
    BY <2>2
  <2> QED
    BY <1>2, <2>3 DEF Shifted
<1> QED
  BY <1>3, <1>4

(***************************************************************************)
(* The dashboard.                                                          *)
(***************************************************************************)

\* Steps of the dashboard's own state.
LEMMA DashStep ==
    ASSUME PagesInv, UNCHANGED <<slots, role, zone, page, form, booking, intents, typed>>,
           writes' \subseteq writes, faults' = faults \/ Faulty, DashSafe'
    PROVE  PagesInv'
  BY TableKept, RestKept, FormKept, WritesKept, BookingKept, PartsOfPagesInvNext

\* A dashboard that is waiting is shown.
LEMMA DashShown ==
    ASSUME PagesInv, dash.reading # {} \/ dash.loading
    PROVE  page = "dashboard"
  BY PartsOfPagesInv DEF DashSafe, NoDash

\* Steps that leave the list and read nothing new.
LEMMA ListLeft ==
    ASSUME PagesInv, page = "dashboard", UNCHANGED <<slots, page>>, dash' \in DashState,
           dash'.list = dash.list, dash'.got \subseteq dash.got
    PROVE  DashSafe'
  BY PartsOfPagesInv DEF DashSafe, ListOK

LEMMA RefreshKeeps ==
    ASSUME PagesInv, Refresh
    PROVE  PagesInv' /\ dash'.list = dash.list
<1> USE DEF Refresh
<1>1. dash' \in DashState /\ dash'.list = dash.list /\ dash'.got = dash.got
  BY PartsOfPagesInv DEF DashSafe, DashState, FreshDash, NoDash
<1>2. DashSafe'
  BY <1>1, ListLeft
<1> QED
  BY <1>1, <1>2, DashStep

\* What has been listed and is not read again is gone.
LEMMA ReadSlotsKeeps ==
    ASSUME PagesInv, ReadSlots
    PROVE  PagesInv' /\ dash'.list = dash.list
<1> USE DEF ReadSlots
<1>1. slots \in [SlotIds -> Slot]
  BY PartsOfPagesInv DEF TableSafe
<1>2. /\ Listed \in [SlotIds -> {"absent", "free", "booked"}]
      /\ \A s \in SlotIds : Listed[s] = "absent" <=> slots[s].state \in {"unborn", "gone"}
  BY <1>1 DEF Listed, Mark, Exists, Bookable, Slot
<1>3. dash' \in DashState /\ dash'.list = dash.list /\ dash'.got = {Listed}
  BY <1>2, PartsOfPagesInv DEF DashSafe, DashState
<1>4. page = "dashboard"
  BY DashShown
<1>5. ListOK'
  BY <1>2, <1>3, PartsOfPagesInv DEF DashSafe, ListOK
<1>6. DashSafe'
  BY <1>3, <1>4, <1>5 DEF DashSafe
<1> QED
  BY <1>3, <1>6, DashStep

LEMMA ReadBookingsKeeps ==
    ASSUME PagesInv, ReadBookings
    PROVE  PagesInv' /\ dash'.list = dash.list
<1> USE DEF ReadBookings
<1>1. dash' \in DashState /\ dash'.list = dash.list /\ dash'.got = dash.got
  BY PartsOfPagesInv DEF DashSafe, DashState
<1>2. page = "dashboard"
  BY DashShown
<1>3. DashSafe'
  BY <1>1, <1>2, ListLeft
<1> QED
  BY <1>1, <1>3, DashStep

LEMMA ListsArriveKeeps ==
    ASSUME PagesInv, ListsArrive
    PROVE  PagesInv' /\ dash'.list \in dash.got
<1> USE DEF ListsArrive
<1>1. PICK list \in dash.got :
         dash' = [NoDash EXCEPT !.loaded = TRUE, !.list = list, !.deleting = dash.deleting]
  OBVIOUS
<1>2. /\ list \in [SlotIds -> {"absent", "free", "booked"}]
      /\ dash.deleting \in SUBSET (1 .. MaxWrites)
  BY PartsOfPagesInv DEF DashSafe, DashState
<1>3. dash' \in DashState /\ dash'.list = list /\ dash'.got = {}
  BY <1>1, <1>2 DEF DashState, NoDash, NothingListed
<1>4. page = "dashboard"
  BY DashShown
<1>5. ListOK'
  BY <1>3, PartsOfPagesInv DEF DashSafe, ListOK
<1>6. DashSafe'
  BY <1>3, <1>4, <1>5 DEF DashSafe
<1> QED
  BY <1>3, <1>6, DashStep

LEMMA FetchFailsKeeps ==
    ASSUME PagesInv, FetchFails
    PROVE  PagesInv' /\ dash'.list = dash.list
<1> USE DEF FetchFails
<1>1. dash' \in DashState /\ dash'.list = dash.list /\ dash'.got = {}
  BY PartsOfPagesInv DEF DashSafe, DashState
<1>2. page = "dashboard"
  BY DashShown
<1>3. DashSafe'
  BY <1>1, <1>2, ListLeft
<1> QED
  BY <1>1, <1>3, DashStep

LEMMA WritesAdded ==
    ASSUME PagesInv, NEW w \in Write, writes' = writes \cup {w}, UNCHANGED <<zone, typed>>,
           ~typed => Shifted(w.at)
    PROVE  WritesSafe'
  BY PartsOfPagesInv DEF WritesSafe, Shifted

LEMMA DeleteSlotKeeps ==
    ASSUME PagesInv, NEW s \in SlotIds, DeleteSlot(s)
    PROVE  PagesInv' /\ dash'.list = dash.list
<1> USE DEF DeleteSlot
<1>1. zone \in Int /\ zone' = zone
  BY PartsOfPagesInv DEF RestSafe
<1>2. PICK n \in 1 .. MaxWrites :
         /\ writes' = writes \cup {[no |-> n, op |-> "delete", slot |-> s, at |-> 0]}
         /\ dash' = [dash EXCEPT !.deleting = @ \cup {n}]
  BY DEF Unused
<1>3. PICK w : w = [no |-> n, op |-> "delete", slot |-> s, at |-> 0]
  OBVIOUS
<1>4. w \in Write /\ w.at = 0
  BY <1>3 DEF Write, Times
<1>5. WritesSafe'
  BY <1>1, <1>2, <1>3, <1>4, StartIsShifted, WritesAdded
<1>6. dash' \in DashState /\ dash'.list = dash.list /\ dash'.got = dash.got
  BY <1>2, PartsOfPagesInv DEF DashSafe, DashState
<1>7. DashSafe'
  BY <1>6, ListLeft DEF CardShown
<1> QED
  BY <1>5, <1>6, <1>7, TableKept, RestKept, FormKept, BookingKept, PartsOfPagesInvNext

\* The card that is filtered out is that of a slot that has gone.
LEMMA AnswerDeleteKeeps ==
    ASSUME PagesInv, NEW w \in writes, AnswerDelete(w)
    PROVE  /\ PagesInv'
           /\ \A s \in SlotIds : dash'.list[s] = dash.list[s] \/ slots'[s].state = "gone"
<1> USE DEF AnswerDelete
<1>1. PICK ok \in BOOLEAN :
         /\ ok => slots[w.slot].state = "free"
         /\ slots' = IF ok THEN [slots EXCEPT ![w.slot].state = "gone"] ELSE slots
         /\ \/ HearDeleted(w, ok) /\ UNCHANGED faults
            \/ Faulty /\ dash' = [dash EXCEPT !.deleting = @ \ {w.no}]
  BY DEF MayEdit
<1>2. slots \in [SlotIds -> Slot] /\ w.slot \in SlotIds
  BY PartsOfPagesInv DEF TableSafe, WritesSafe, Write
<1>3. /\ slots' \in [SlotIds -> Slot]
      /\ \A t \in SlotIds : slots'[t].at = slots[t].at
      /\ \A t \in SlotIds \ {w.slot} : slots'[t].state = slots[t].state
      /\ slots'[w.slot].state = IF ok THEN "gone" ELSE slots[w.slot].state
  BY <1>1, <1>2 DEF Slot
<1>4. TableSafe'
  BY <1>3, PartsOfPagesInv DEF TableSafe, Shifted
<1>5. dash \in DashState /\ dash.list \in [SlotIds -> {"absent", "free", "booked"}]
  BY PartsOfPagesInv DEF DashSafe, DashState
<1>6. /\ dash' = dash \/ (dash' \in DashState /\ dash'.got = dash.got)
      /\ \/ dash'.list = dash.list
         \/ ok /\ dash'.list = [dash.list EXCEPT ![w.slot] = "absent"]
  <2>1. CASE dash' = dash
    BY <2>1
  <2>2. CASE dash' = [dash EXCEPT !.deleting = @ \ {w.no}]
    BY <1>5, <2>2 DEF DashState
  <2>3. CASE dash' = [dash EXCEPT !.list = Shorter(w.slot, ok), !.deleting = @ \ {w.no}]
    <3>1. PICK shorter \in [SlotIds -> {"absent", "free", "booked"}] :
             /\ shorter = Shorter(w.slot, ok)
             /\ \/ shorter = dash.list
                \/ ok /\ shorter = [dash.list EXCEPT ![w.slot] = "absent"]
      BY <1>5 DEF Shorter
    <3>2. dash' = [dash EXCEPT !.list = shorter, !.deleting = @ \ {w.no}]
      BY <2>3, <3>1
    <3>3. dash' \in DashState /\ dash'.got = dash.got /\ dash'.list = shorter
      BY <1>5, <3>2 DEF DashState
    <3> QED
      BY <3>1, <3>3
  <2> QED
    BY <1>1, <2>1, <2>2, <2>3 DEF HearDeleted
<1>7. dash' \in DashState /\ dash'.got = dash.got
  BY <1>5, <1>6
<1>8. \A s \in SlotIds : /\ dash'.list[s] \in {dash.list[s], "absent"}
                         /\ dash'.list[s] = dash.list[s] \/ slots'[s].state = "gone"
  BY <1>3, <1>5, <1>6
<1>9. Onward
  BY <1>1, <1>3 DEF Onward
<1>10. ListOK'
  BY <1>7, <1>8, <1>9, PartsOfPagesInv DEF DashSafe, ListOK, Onward
<1>11. page # "dashboard" => dash' = NoDash
  <2>1. SUFFICES ASSUME page # "dashboard" PROVE dash' = NoDash
    OBVIOUS
  <2>2. dash = NoDash /\ w.no \notin dash.deleting
    BY <2>1, PartsOfPagesInv DEF DashSafe, NoDash
  <2>3. [dash EXCEPT !.deleting = @ \ {w.no}] = dash
    BY <2>2 DEF NoDash
  <2> QED
    BY <1>1, <2>2, <2>3 DEF HearDeleted
<1>12. DashSafe'
  BY <1>7, <1>10, <1>11 DEF DashSafe
<1>13. faults' = faults \/ Faulty
  BY <1>1
<1> QED
  BY <1>4, <1>8, <1>12, <1>13, RestKept, FormKept, WritesKept, BookingKept,
     PartsOfPagesInvNext

(***************************************************************************)
(* The slot form.                                                          *)
(***************************************************************************)

\* Steps of the form's own state.
LEMMA FormStep ==
    ASSUME PagesInv, UNCHANGED <<slots, role, zone, page, dash, booking, intents, writes, typed>>,
           faults' = faults \/ Faulty, FormSafe'
    PROVE  PagesInv'
  BY SameTable, TableKept, RestKept, DashKept, WritesKept, BookingKept, PartsOfPagesInvNext

\* The form shows the start time as it is in the table.
LEMMA AnswerFormKeeps ==
    ASSUME PagesInv, AnswerForm
    PROVE  PagesInv'
<1>1. /\ form' \in {[form EXCEPT !.loading = FALSE, !.text = ShownInForm(slots[form.slot].at)],
                    [form EXCEPT !.loading = FALSE]}
      /\ form.loading
      /\ UNCHANGED <<slots, role, zone, page, dash, booking, intents, writes, typed>>
      /\ faults' = faults \/ Faulty
  BY DEF AnswerForm
<1>2. form \in FormState /\ form.slot \in SlotIds
  BY <1>1, PartsOfPagesInv DEF FormSafe, FormOK, FormState
<1>3. PICK t : t = slots[form.slot].at
  OBVIOUS
<1>4. t \in Times /\ (~typed => Shifted(t))
  BY <1>2, <1>3, PartsOfPagesInv DEF TableSafe, Slot
<1>5. ASSUME form' = [form EXCEPT !.loading = FALSE, !.text = ShownInForm(slots[form.slot].at)]
      PROVE  FormSafe'
  <2>1. form' = [form EXCEPT !.loading = FALSE, !.text = t]
    BY <1>3, <1>5 DEF ShownInForm
  <2>2. form' \in FormState /\ form'.text = t /\ form'.loading = FALSE
    BY <1>2, <1>4, <2>1 DEF FormState
  <2> QED
    BY <1>1, <1>4, <2>2 DEF FormSafe, FormOK, Shifted
<1>6. ASSUME form' = [form EXCEPT !.loading = FALSE]
      PROVE  FormSafe'
  <2>1. form' \in FormState /\ form'.text = form.text /\ form'.loading = FALSE
    BY <1>2, <1>6 DEF FormState
  <2> QED
    BY <1>1, <2>1, PartsOfPagesInv DEF FormSafe, FormOK, Shifted
<1> QED
  BY <1>1, <1>5, <1>6, FormStep

LEMMA TypeTimeKeeps ==
    ASSUME PagesInv, NEW t \in Times, TypeTime(t)
    PROVE  PagesInv'
<1> USE DEF TypeTime
<1>1. form' \in FormState /\ form'.loading = form.loading /\ form'.slot = form.slot
  BY PartsOfPagesInv DEF FormSafe, FormState
<1>2. FormSafe'
  BY <1>1, PartsOfPagesInv DEF FormSafe, FormOK
<1>3. RestSafe'
  BY PartsOfPagesInv DEF RestSafe
<1>4. WritesSafe' /\ TableSafe'
  BY PartsOfPagesInv DEF WritesSafe, TableSafe
<1> QED
  BY <1>2, <1>3, <1>4, SameTable, DashKept, BookingKept, PartsOfPagesInvNext

\* A form that is saved untouched sends the time one shift earlier.
LEMMA SubmitKeeps ==
    ASSUME PagesInv, NEW s \in SlotIds, Submit(s)
    PROVE  PagesInv'
<1> USE DEF Submit
<1>1. form \in FormState /\ form.text \in Times /\ zone \in Int
  BY PartsOfPagesInv DEF FormSafe, FormState, RestSafe
<1>2. PICK n \in 1 .. MaxWrites :
         /\ writes' = writes \cup {[no |-> n, op |-> IF form.slot = None THEN "post" ELSE "put",
                                    slot |-> s, at |-> SentToApi(form.text)]}
         /\ form' = [form EXCEPT !.submitting = n]
  BY DEF Unused
<1>3. /\ form' \in FormState /\ form'.text = form.text /\ form'.loading = form.loading
      /\ form'.slot = form.slot
  BY <1>1, <1>2 DEF FormState
<1>4. PICK w : w = [no |-> n, op |-> IF form.slot = None THEN "post" ELSE "put",
                    slot |-> s, at |-> SentToApi(form.text)]
  OBVIOUS
<1>5. w \in Write /\ w.at = SentToApi(form.text)
  BY <1>4 DEF Write
<1>6. ~typed => Shifted(w.at)
  <2>1. form.text # None
    OBVIOUS
  <2>2. form.text \in Int
    BY <1>1 DEF Times
  <2>3. SentToApi(form.text) \in Times
    OBVIOUS
  <2> QED
    BY <1>1, <1>5, <2>1, <2>2, <2>3, SaveShifts, PartsOfPagesInv DEF FormSafe
<1>7. WritesSafe'
  BY <1>2, <1>4, <1>5, <1>6, WritesAdded
<1>8. FormSafe'
  BY <1>3, PartsOfPagesInv DEF FormSafe, FormOK, Shifted
<1> QED
  BY <1>7, <1>8, SameTable, TableKept, RestKept, DashKept, BookingKept, PartsOfPagesInvNext

LEMMA NotSavedKeeps ==
    ASSUME PagesInv, NEW w, NotSaved(w), UNCHANGED <<zone, typed>>
    PROVE  FormSafe'
<1>1. CASE form' = [form EXCEPT !.submitting = 0]
  <2>1. /\ form' \in FormState
        /\ form'.text = form.text /\ form'.loading = form.loading /\ form'.slot = form.slot
    BY <1>1, PartsOfPagesInv DEF FormSafe, FormState
  <2> QED
    BY <2>1, PartsOfPagesInv DEF FormSafe, FormOK, Shifted
<1>2. CASE form' = form
  BY <1>2, FormKept
<1> QED
  BY <1>1, <1>2 DEF NotSaved

\* What a save does to the table: one slot has the time that was sent, and it is new
\* if it was a POST.
LEMMA SavedKeeps ==
    ASSUME PagesInv, NEW w \in writes, Saves(w), Saved(w), UNCHANGED <<zone, typed>>
    PROVE  TableSafe' /\ Onward
<1>1. w \in Write /\ w.slot \in SlotIds /\ w.at \in Times /\ (~typed => Shifted(w.at))
  BY PartsOfPagesInv DEF WritesSafe, Write
<1>2. slots \in [SlotIds -> Slot] /\ slots[w.slot].state # "gone"
  BY <1>1, PartsOfPagesInv DEF TableSafe, Saves, Bookable
<1>3. PICK new : new = [state |-> IF w.op = "post" THEN "free" ELSE slots[w.slot].state,
                        at |-> w.at]
  OBVIOUS
<1>4. /\ new \in Slot /\ new.at = w.at
      /\ slots[w.slot].state # "unborn" => new.state # "unborn"
  BY <1>1, <1>2, <1>3 DEF Slot
<1>5. /\ slots' \in [SlotIds -> Slot]
      /\ slots'[w.slot] = new
      /\ \A s \in SlotIds \ {w.slot} : slots'[s] = slots[s]
  <2>1. slots' = [slots EXCEPT ![w.slot] = new]
    BY <1>3 DEF Saved
  <2> QED
    BY <1>1, <1>2, <1>4, <2>1
<1>6. TableSafe'
  BY <1>1, <1>4, <1>5, PartsOfPagesInv DEF TableSafe, Shifted
<1>7. Onward
  BY <1>2, <1>4, <1>5 DEF Onward
<1> QED
  BY <1>6, <1>7

LEMMA AnswerSaveKeeps ==
    ASSUME PagesInv, NEW w \in writes, AnswerSave(w)
    PROVE  PagesInv' /\ (dash' = dash \/ ~dash'.loaded)
<1> USE DEF AnswerSave
<1>1. WritesSafe'
  BY WritesKept
<1>2. CASE /\ Saves(w) /\ Saved(w)
           /\ UNCHANGED <<page, dash, form, booking, intents>>
           /\ UNCHANGED faults
  <2>1. TableSafe' /\ Onward
    BY <1>2, SavedKeeps
  <2> QED
    BY <1>1, <1>2, <2>1, RestKept, DashKept, FormKept, BookingKept, PartsOfPagesInvNext
<1>3. CASE /\ Saves(w) /\ Saved(w)
           /\ page # "dashboard" /\ ShowDashboard
           /\ UNCHANGED faults
  <2>1. TableSafe'
    BY <1>3, SavedKeeps
  <2>2. page' = "dashboard" /\ ~dash'.loaded /\ DashSafe' /\ FormSafe' /\ BookingSafe'
    BY <1>3, ShowDashboardKeeps
  <2>3. RestSafe'
    BY <1>3, <2>2, PartsOfPagesInv DEF RestSafe
  <2> QED
    BY <1>1, <2>1, <2>2, <2>3, PartsOfPagesInvNext
<1>4. CASE NotSaved(w) /\ UNCHANGED <<slots, page, dash, booking, intents, faults>>
  <2>1. FormSafe'
    BY <1>4, NotSavedKeeps
  <2> QED
    BY <1>1, <1>4, <2>1, SameTable, TableKept, RestKept, DashKept, BookingKept,
       PartsOfPagesInvNext
<1>5. CASE /\ Faulty
           /\ Saves(w) /\ Saved(w)
           /\ NotSaved(w)
           /\ UNCHANGED <<page, dash, booking, intents>>
  <2>1. TableSafe' /\ Onward
    BY <1>5, SavedKeeps
  <2>2. FormSafe'
    BY <1>5, NotSavedKeeps
  <2> QED
    BY <1>1, <1>5, <2>1, <2>2, RestKept, DashKept, BookingKept, PartsOfPagesInvNext
<1> QED
  BY <1>2, <1>3, <1>4, <1>5 DEF ShowDashboard

\* Other people book slots and cancel; they create and delete none.
LEMMA OthersBookKeeps ==
    ASSUME PagesInv, NEW s \in SlotIds, OthersBook(s)
    PROVE  PagesInv'
<1> USE DEF OthersBook
<1>1. slots \in [SlotIds -> Slot]
  BY PartsOfPagesInv DEF TableSafe
<1>2. /\ slots' \in [SlotIds -> Slot]
      /\ slots'[s].state \in {"booked", "released"}
      /\ \A t \in SlotIds : slots'[t].at = slots[t].at
      /\ \A t \in SlotIds \ {s} : slots'[t].state = slots[t].state
  BY <1>1 DEF Slot
<1>3. TableSafe'
  BY <1>2, PartsOfPagesInv DEF TableSafe, Shifted
<1>4. Onward
  BY <1>2 DEF Onward
<1> QED
  BY <1>3, <1>4, RestKept, DashKept, FormKept, WritesKept, BookingKept, PartsOfPagesInvNext

(***************************************************************************)
(* The booking page.                                                       *)
(***************************************************************************)

\* Steps of the booking page's own state.
LEMMA BookingStep ==
    ASSUME PagesInv, UNCHANGED <<slots, role, zone, page, dash, form, writes, typed>>,
           faults' = faults \/ Faulty, BookingSafe'
    PROVE  PagesInv'
  BY SameTable, TableKept, RestKept, DashKept, FormKept, WritesKept, PartsOfPagesInvNext

\* A page that waits for an answer or has a form is the booking page.
LEMMA BookingShown ==
    ASSUME PagesInv, booking.asking # "nothing"
    PROVE  page = "book"
<1>1. CASE page \notin {"book", "blank"}
  BY <1>1, PartsOfPagesInv, FreshStates DEF BookingSafe
<1>2. CASE page = "blank"
  BY <1>2, PartsOfPagesInv DEF BookingSafe, NoBooking
<1> QED
  BY <1>1, <1>2

\* Changes of the form that do not concern the payment.
LEMMA FormChange ==
    ASSUME PagesInv, UNCHANGED <<page, intents>>, page = "book", booking' \in BookingState,
           booking'.elements = booking.elements,
           booking'.asking \in {booking.asking, "nothing", "slot"},
           booking'.asking = "checkout" => booking'.amount # None
    PROVE  BookingSafe'
  BY PartsOfPagesInv DEF BookingSafe, PaymentOK, Accepted

LEMMA AnswerSlotKeeps ==
    ASSUME PagesInv, AnswerSlot
    PROVE  PagesInv'
<1> USE DEF AnswerSlot
<1>1. booking \in BookingState /\ page = "book"
  BY BookingShown, PartsOfPagesInv DEF BookingSafe
<1>2. PICK shown \in {booking.shown, "missing", "free", "booked"} :
         booking' = [booking EXCEPT !.asking = "nothing", !.loading = FALSE, !.shown = shown]
  <2>1. CASE booking' = [booking EXCEPT !.asking = "nothing", !.loading = FALSE,
                 !.shown = IF Exists(booking.slot) THEN Mark(booking.slot) ELSE "missing"]
    BY <2>1 DEF Mark
  <2>2. CASE booking' = [booking EXCEPT !.asking = "nothing", !.loading = FALSE]
    <3>1. booking' = [booking EXCEPT !.asking = "nothing", !.loading = FALSE,
                                     !.shown = booking.shown]
      BY <1>1, <2>2 DEF BookingState
    <3> QED
      BY <3>1
  <2> QED
    BY <2>1, <2>2
<1>3. shown \in {"none", "missing", "free", "booked"}
  BY <1>1, <1>2 DEF BookingState
<1>4. /\ booking' \in BookingState /\ booking'.asking = "nothing"
      /\ booking'.elements = booking.elements
  BY <1>1, <1>2, <1>3 DEF BookingState
<1>5. BookingSafe'
  BY <1>1, <1>4, FormChange
<1> QED
  BY <1>5, BookingStep

LEMMA RetryConnectionKeeps ==
    ASSUME PagesInv, RetryConnection
    PROVE  PagesInv'
<1> USE DEF RetryConnection
<1>1. booking \in BookingState
  BY PartsOfPagesInv DEF BookingSafe
<1>2. /\ booking' \in BookingState /\ booking'.asking = "slot"
      /\ booking'.elements = booking.elements
  BY <1>1 DEF BookingState
<1>3. BookingSafe'
  BY <1>2, FormChange
<1> QED
  BY <1>3, BookingStep

LEMMA EnterAmountKeeps ==
    ASSUME PagesInv, NEW a \in Amounts, EnterAmount(a)
    PROVE  PagesInv'
<1> USE DEF EnterAmount
<1>1. booking \in BookingState /\ a # None
  BY NoneIsNoValue, PartsOfPagesInv DEF BookingSafe
<1>2. /\ booking' \in BookingState /\ booking'.asking = booking.asking /\ booking'.amount = a
      /\ booking'.elements = booking.elements
  BY <1>1 DEF BookingState
<1>3. BookingSafe'
  BY <1>1, <1>2, FormChange DEF FormOpen
<1> QED
  BY <1>3, BookingStep

LEMMA BackToAmountKeeps ==
    ASSUME PagesInv, BackToAmount
    PROVE  PagesInv'
<1> USE DEF BackToAmount
<1>1. booking \in BookingState
  BY PartsOfPagesInv DEF BookingSafe
<1>2. /\ booking' \in BookingState /\ booking'.asking = booking.asking
      /\ booking'.amount = booking.amount
      /\ booking'.elements = booking.elements
  BY <1>1 DEF BookingState
<1>3. BookingSafe'
  BY <1>2, FormChange, PartsOfPagesInv DEF FormOpen, BookingSafe, PaymentOK, Accepted
<1> QED
  BY <1>3, BookingStep

LEMMA HandleInitPaymentKeeps ==
    ASSUME PagesInv, HandleInitPayment
    PROVE  PagesInv'
<1> USE DEF HandleInitPayment
<1>1. booking \in BookingState
  BY PartsOfPagesInv DEF BookingSafe
<1>2. /\ booking' \in BookingState /\ booking'.asking = "checkout"
      /\ booking'.amount = booking.amount
      /\ booking'.elements = booking.elements
  BY <1>1 DEF BookingState
<1>3. BookingSafe'
  BY <1>2, PartsOfPagesInv DEF FormOpen, BookingSafe, PaymentOK, Accepted
<1> QED
  BY <1>3, BookingStep

LEMMA PayKeeps ==
    ASSUME PagesInv, Pay
    PROVE  PagesInv'
<1> USE DEF Pay
<1>1. booking \in BookingState
  BY PartsOfPagesInv DEF BookingSafe
<1>2. /\ booking' \in BookingState /\ booking'.asking = "confirm"
      /\ booking'.elements = booking.elements
  BY <1>1 DEF BookingState
<1>3. BookingSafe'
  BY <1>2, PartsOfPagesInv DEF FormOpen, BookingSafe, PaymentOK, Accepted
<1> QED
  BY <1>3, BookingStep

(***************************************************************************)
(* Checkout.                                                               *)
(***************************************************************************)

\* A new intent is open, and of the amount that was entered.
LEMMA OpensKeeps ==
    ASSUME PagesInv, booking.asking = "checkout", NEW cents, Opens(cents)
    PROVE  /\ intents' \in Seq(Intent)
           /\ Len(intents') = Len(intents) + 1 /\ Len(intents') <= MaxIntents
           /\ \A i \in DOMAIN intents : i \in DOMAIN intents' /\ intents'[i] = intents[i]
           /\ \A i \in DOMAIN intents' : i \in DOMAIN intents \/ intents'[i].status = "open"
           /\ \A i \in DOMAIN intents' : Agree(intents'[i].asked, intents'[i].cents)
<1> USE DEF Opens
<1>1. /\ booking \in BookingState
      /\ intents \in Seq(Intent)
      /\ Len(intents) < MaxIntents /\ booking.amount # None
      /\ \A i \in DOMAIN intents : Agree(intents[i].asked, intents[i].cents)
  BY PartsOfPagesInv DEF BookingSafe, PaymentOK, Accepted
<1>2. booking.amount \in Amounts /\ booking.amount \in Nat
  BY <1>1 DEF BookingState
<1>3. Agree(booking.amount, cents)
  BY <1>2, ChargeMatchesInvoice
<1>4. cents \in Nat
  <2>1. cents \in Int
    BY <1>2 DEF Charged
  <2> QED
    BY <2>1
<1>5. PICK new : new = [asked |-> booking.amount, cents |-> cents, status |-> "open"]
  OBVIOUS
<1>6. /\ new \in Intent
      /\ new.status = "open" /\ new.asked = booking.amount /\ new.cents = cents
  BY <1>2, <1>4, <1>5 DEF Intent
<1>7. intents' = Append(intents, new)
  BY <1>5
<1>8. /\ intents' \in Seq(Intent)
      /\ Len(intents') = Len(intents) + 1
      /\ \A i \in 1 .. Len(intents) : intents'[i] = intents[i]
      /\ intents'[Len(intents) + 1] = new
  BY <1>1, <1>6, <1>7
<1>9. DOMAIN intents = 1 .. Len(intents) /\ DOMAIN intents' = 1 .. Len(intents')
  BY <1>1, <1>8
<1> QED
  BY <1>1, <1>3, <1>6, <1>8, <1>9

LEMMA AnswerCheckoutKeeps ==
    ASSUME PagesInv, AnswerCheckout
    PROVE  PagesInv'
<1> USE DEF AnswerCheckout
<1>1. booking \in BookingState /\ page = "book" /\ PaymentOK
  BY BookingShown, PartsOfPagesInv DEF BookingSafe
<1>2. /\ intents' \in Seq(Intent)
      /\ Len(intents') = Len(intents) + 1 /\ Len(intents') <= MaxIntents
      /\ \A i \in DOMAIN intents : i \in DOMAIN intents' /\ intents'[i] = intents[i]
      /\ \A i \in DOMAIN intents' : i \in DOMAIN intents \/ intents'[i].status = "open"
      /\ \A i \in DOMAIN intents' : Agree(intents'[i].asked, intents'[i].cents)
  BY OpensKeeps
<1>3. Len(intents) \in Nat /\ Len(intents') \in 1 .. MaxIntents
  BY <1>2, PartsOfPagesInv DEF BookingSafe
<1>4. PICK secret \in 1 .. MaxIntents : secret = Len(intents')
  BY <1>3
<1>5. booking.elements \in 0 .. MaxIntents /\ booking.elements <= Len(intents)
  BY <1>1 DEF BookingState, PaymentOK
<1>6. PICK mounted \in 0 .. MaxIntents :
         /\ mounted = Elements(booking, secret)
         /\ mounted <= Len(intents')
         /\ booking.elements # 0 => mounted = booking.elements
  BY <1>2, <1>3, <1>4, <1>5 DEF Elements
<1>7. PICK b : b = [booking EXCEPT !.secret = secret, !.elements = mounted]
  OBVIOUS
<1>8. b \in BookingState /\ b.elements = mounted
  <2> HIDE DEF AnswerCheckout
  <2>1. secret \in 0 .. MaxIntents /\ mounted \in 0 .. MaxIntents
    BY <1>3
  <2>2. b \in BookingState
    BY <1>1, <1>7, <2>1 DEF BookingState
  <2>3. b.elements = mounted
    BY <1>1, <1>7 DEF BookingState
  <2> QED
    BY <2>2, <2>3
<1>9. /\ booking' \in BookingState
      /\ booking'.elements = b.elements
      /\ booking'.asking \in {"slot", "nothing"}
  <2>1. CASE booking.secret = 0
    <3>1. booking' = FreshInner(b)
      BY <1>4, <1>6, <1>7, <2>1 DEF AfterCheckout
    <3> QED
      BY <1>8, <3>1, FreshInnerTyped
  <2>2. CASE booking.secret # 0
    <3>1. booking' = [b EXCEPT !.ready = TRUE, !.submitting = FALSE, !.asking = "nothing"]
      BY <1>4, <1>6, <1>7, <2>2 DEF AfterCheckout
    <3> QED
      BY <1>8, <3>1 DEF BookingState
  <2> QED
    BY <2>1, <2>2
<1>10. \A i \in DOMAIN intents' : Accepted(i)' => booking'.elements = i
  <2>1. SUFFICES ASSUME NEW i \in DOMAIN intents', Accepted(i)'
                 PROVE  booking'.elements = i
    OBVIOUS
  <2>2. i \in DOMAIN intents /\ Accepted(i)
    BY <1>2, <2>1 DEF Accepted
  <2>3. booking.elements = i /\ i # 0
    BY <1>1, <2>2, PartsOfPagesInv DEF PaymentOK, BookingSafe
  <2> QED
    BY <1>6, <1>8, <1>9, <2>3
<1>11. PaymentOK'
  BY <1>1, <1>2, <1>6, <1>8, <1>9, <1>10 DEF PaymentOK
<1>12. BookingSafe'
  BY <1>1, <1>2, <1>9, <1>11 DEF BookingSafe
<1> QED
  BY <1>12, BookingStep

LEMMA NoCheckoutKeeps ==
    ASSUME PagesInv, NoCheckout, intents' = intents \/ \E cents : Opens(cents)
    PROVE  BookingSafe'
<1> USE DEF NoCheckout
<1>1. booking \in BookingState /\ page = "book"
  BY BookingShown, PartsOfPagesInv DEF BookingSafe
<1>2. /\ booking' \in BookingState /\ booking'.asking = "nothing"
      /\ booking'.elements = booking.elements
  BY <1>1 DEF BookingState
<1>3. CASE intents' = intents
  BY <1>1, <1>2, <1>3, FormChange
<1>4. CASE \E cents : Opens(cents)
  <2>1. /\ intents' \in Seq(Intent)
        /\ Len(intents') = Len(intents) + 1 /\ Len(intents') <= MaxIntents
        /\ \A i \in DOMAIN intents : i \in DOMAIN intents' /\ intents'[i] = intents[i]
        /\ \A i \in DOMAIN intents' : i \in DOMAIN intents \/ intents'[i].status = "open"
        /\ \A i \in DOMAIN intents' : Agree(intents'[i].asked, intents'[i].cents)
    BY <1>4, OpensKeeps
  <2>2. /\ booking.elements \in Nat /\ Len(intents) \in Nat /\ booking.elements <= Len(intents)
        /\ \A i \in DOMAIN intents : Accepted(i) => booking.elements = i
    BY <1>1, PartsOfPagesInv DEF BookingSafe, BookingState, PaymentOK
  <2>3. PaymentOK'
    BY <1>2, <2>1, <2>2 DEF PaymentOK, Accepted
  <2> QED
    BY <1>1, <1>2, <2>1, <2>3 DEF BookingSafe
<1> QED
  BY <1>3, <1>4

LEMMA RefuseCheckoutKeeps ==
    ASSUME PagesInv, RefuseCheckout
    PROVE  PagesInv'
  BY NoCheckoutKeeps, BookingStep DEF RefuseCheckout, NoCheckout

LEMMA CheckoutFailsKeeps ==
    ASSUME PagesInv, CheckoutFails
    PROVE  PagesInv'
  BY NoCheckoutKeeps, BookingStep DEF CheckoutFails, NoCheckout

(***************************************************************************)
(* Confirmation.                                                           *)
(***************************************************************************)

\* An intent that is the accepted one, or becomes it, is that of <Elements>.
LEMMA StatusKeeps ==
    ASSUME PagesInv, page = "book", UNCHANGED page, NEW e \in DOMAIN intents,
           NEW status \in {"open", "processing", "paid"}, e = booking.elements,
           intents' = [intents EXCEPT ![e].status = status],
           booking' \in BookingState, booking'.elements = booking.elements,
           booking'.asking \in {"nothing", booking.asking}, booking'.amount = booking.amount
    PROVE  BookingSafe'
<1>1. booking \in BookingState /\ PaymentOK /\ intents \in Seq(Intent) /\ Len(intents) <= MaxIntents
  BY PartsOfPagesInv DEF BookingSafe
<1>2. PICK old, new : old = intents[e] /\ new = [old EXCEPT !.status = status]
  OBVIOUS
<1>3. old \in Intent
  BY <1>1, <1>2
<1>4. new \in Intent /\ new.asked = old.asked /\ new.cents = old.cents
  BY <1>2, <1>3 DEF Intent
<1>5. intents' = [intents EXCEPT ![e] = new]
  BY <1>2
<1>6. /\ intents' \in Seq(Intent)
      /\ Len(intents') = Len(intents) /\ DOMAIN intents' = DOMAIN intents
  BY <1>1, <1>4, <1>5
<1>7. /\ \A i \in DOMAIN intents \ {e} : intents'[i] = intents[i]
      /\ intents'[e] = new
  BY <1>1, <1>5
<1>8. \A i \in DOMAIN intents' : Accepted(i)' => booking'.elements = i
  BY <1>1, <1>6, <1>7 DEF PaymentOK, Accepted
<1>9. \A i \in DOMAIN intents' : Agree(intents'[i].asked, intents'[i].cents)
  BY <1>1, <1>2, <1>4, <1>6, <1>7 DEF PaymentOK
<1>10. PaymentOK'
  BY <1>1, <1>6, <1>8, <1>9 DEF PaymentOK
<1> QED
  BY <1>1, <1>6, <1>10 DEF BookingSafe

\* Stripe accepts the intent of <Elements>, and none was accepted before.
LEMMA AcceptKeeps ==
    ASSUME PagesInv, booking.asking = "confirm", NEW ok \in BOOLEAN, Accept, Outcome(ok),
           UNCHANGED page
    PROVE  BookingSafe'
<1>1. booking \in BookingState /\ page = "book" /\ PaymentOK /\ intents \in Seq(Intent)
  BY BookingShown, PartsOfPagesInv DEF BookingSafe
<1>2. PICK e \in DOMAIN intents : e = booking.elements
  BY <1>1 DEF PaymentOK, BookingState
<1>3. PICK status \in {"processing", "paid"} : intents' = [intents EXCEPT ![e].status = status]
  BY <1>2 DEF Accept
<1>4. /\ booking' \in BookingState /\ booking'.asking = "nothing"
      /\ booking'.elements = booking.elements /\ booking'.amount = booking.amount
  BY <1>1 DEF Outcome, BookingState
<1> QED
  BY <1>1, <1>2, <1>3, <1>4, StatusKeeps

LEMMA ConfirmAcceptedKeeps ==
    ASSUME PagesInv, ConfirmAccepted
    PROVE  PagesInv'
  BY AcceptKeeps, BookingStep DEF ConfirmAccepted, Confirming

LEMMA ConfirmLostKeeps ==
    ASSUME PagesInv, ConfirmLost
    PROVE  PagesInv'
  BY AcceptKeeps, BookingStep DEF ConfirmLost, Confirming

LEMMA ConfirmRedirectsKeeps ==
    ASSUME PagesInv, ConfirmRedirects
    PROVE  PagesInv'
  BY LeaveKeeps, PageShown DEF ConfirmRedirects, Confirming

LEMMA ConfirmRefusedKeeps ==
    ASSUME PagesInv, ConfirmRefused
    PROVE  PagesInv'
<1> USE DEF ConfirmRefused, Confirming
<1>1. booking \in BookingState /\ page = "book"
  BY BookingShown, PartsOfPagesInv DEF BookingSafe
<1>2. /\ booking' \in BookingState /\ booking'.asking = "nothing"
      /\ booking'.elements = booking.elements
  BY <1>1 DEF Outcome, BookingState
<1>3. BookingSafe'
  BY <1>1, <1>2, FormChange
<1> QED
  BY <1>3, BookingStep

LEMMA ConfirmRejectedKeeps ==
    ASSUME PagesInv, ConfirmRejected
    PROVE  PagesInv'
<1> USE DEF ConfirmRejected, Confirming
<1>1. booking \in BookingState /\ page = "book"
  BY BookingShown, PartsOfPagesInv DEF BookingSafe
<1>2. /\ booking' \in BookingState /\ booking'.asking = "nothing"
      /\ booking'.elements = booking.elements
  BY <1>1 DEF BookingState
<1>3. BookingSafe'
  BY <1>1, <1>2, FormChange
<1> QED
  BY <1>3, BookingStep

\* What was processing had been accepted.
LEMMA SettleKeeps ==
    ASSUME PagesInv, NEW i \in DOMAIN intents, Settle(i)
    PROVE  PagesInv'
<1> USE DEF Settle
<1>1. booking \in BookingState /\ PaymentOK /\ i = booking.elements
  BY PartsOfPagesInv DEF BookingSafe, PaymentOK, Accepted
<1>2. page = "book"
  BY PartsOfPagesInv DEF BookingSafe
<1>3. PICK status \in {"open", "paid"} : intents' = [intents EXCEPT ![i].status = status]
  OBVIOUS
<1>4. BookingSafe'
  BY <1>1, <1>2, <1>3, StatusKeeps
<1> QED
  BY <1>4, BookingStep

(***************************************************************************)
(* The theorems.                                                           *)
(***************************************************************************)
LEMMA NextKeepsPagesInv ==
    ASSUME PagesInv, [Next]_tabVars
    PROVE  PagesInv'
<1>1. CASE Click
  BY <1>1, RefreshKeeps, NewSlotKeeps, GoToDashboardKeeps, EditSlotKeeps, DeleteSlotKeeps,
     SubmitKeeps, OpenBookingPageKeeps, TypeTimeKeeps, EnterAmountKeeps, LeaveBookingPageKeeps,
     RetryConnectionKeeps, HandleInitPaymentKeeps, BackToAmountKeeps, PayKeeps
  DEF Click
<1>2. CASE DashboardAnswer
  BY <1>2, ReadSlotsKeeps, ReadBookingsKeeps, ListsArriveKeeps, FetchFailsKeeps,
     AnswerFormKeeps
  DEF DashboardAnswer
<1>3. CASE \E w \in writes : WriteAnswer(w)
  BY <1>3, AnswerDeleteKeeps, AnswerSaveKeeps DEF WriteAnswer
<1>4. CASE BookingAnswer
  BY <1>4, AnswerSlotKeeps, AnswerCheckoutKeeps, RefuseCheckoutKeeps, CheckoutFailsKeeps,
     ConfirmAcceptedKeeps, ConfirmRedirectsKeeps, ConfirmRefusedKeeps, ConfirmLostKeeps,
     ConfirmRejectedKeeps
  DEF BookingAnswer, ConfirmAnswer
<1>5. CASE \E s \in SlotIds : OthersBook(s)
  BY <1>5, OthersBookKeeps
<1>6. CASE \E i \in DOMAIN intents : Settle(i)
  BY <1>6, SettleKeeps
<1>7. CASE UNCHANGED tabVars
  BY <1>7, SameTable, TableKept, RestKept, DashKept, FormKept, WritesKept, BookingKept,
     PartsOfPagesInvNext
  DEF tabVars
<1> QED
  BY <1>1, <1>2, <1>3, <1>4, <1>5, <1>6, <1>7 DEF Next

\* Whatever is clicked, and whenever answers arrive or fail, the pages know of the
\* table, of Stripe and of their own requests what PagesInv says.
THEOREM PagesAreRight == Spec => []PagesInv
<1>1. PagesInv /\ [Next]_tabVars => PagesInv'
  BY NextKeepsPagesInv
<1> QED
  BY InitPagesInv, <1>1, PTL DEF Spec

\* The state of the three components, the PaymentIntents and the requests are what
\* their readers take them for.
THEOREM PageTypes == Spec => []TypeOK
<1>1. PagesInv => TypeOK
  BY DEF PagesInv
<1> QED
  BY PagesAreRight, <1>1, PTL

\* Steps that touch no card, steps that mount another page, lists that are read again,
\* and answers to DELETE.
LEMMA CardsStay ==
    ASSUME PagesInv, [Next]_tabVars, dash.loaded, dash'.loaded, NEW s \in SlotIds,
           dash.list[s] # "absent", dash'.list[s] = "absent"
    PROVE  slots'[s].state = "gone"
<1>1. CASE ListsArrive
  <2>1. dash'.list \in dash.got /\ slots[s].state = "gone"
    BY <1>1, ListsArriveKeeps, PartsOfPagesInv DEF DashSafe, ListOK
  <2> QED
    BY <1>1, <2>1 DEF ListsArrive
<1>2. CASE \E w \in writes : WriteAnswer(w)
  BY <1>2, AnswerDeleteKeeps, AnswerSaveKeeps DEF WriteAnswer
<1>3. CASE Click
  <2>1. Refresh \/ (\E t \in SlotIds : DeleteSlot(t)) => dash'.list = dash.list
    BY RefreshKeeps, DeleteSlotKeeps
  <2>2. NewSlot \/ GoToDashboard \/ LeaveBookingPage => ~dash'.loaded
    BY ShowNewKeeps, ShowDashboardKeeps, LeaveKeeps DEF NewSlot, GoToDashboard, LeaveBookingPage
  <2>3. (\E t \in SlotIds : EditSlot(t) \/ OpenBookingPage(t)) => ~dash'.loaded
    BY NoneIsNoValue, ShowEditKeeps, ShowBookingKeeps, LeaveKeeps DEF EditSlot, OpenBookingPage
  <2>4. (\E t \in SlotIds : Submit(t)) \/ (\E t \in Times : TypeTime(t)) => dash' = dash
    BY DEF Submit, TypeTime
  <2>5. (\E a \in Amounts : EnterAmount(a)) \/ RetryConnection \/ HandleInitPayment
           \/ BackToAmount \/ Pay => dash' = dash
    BY DEF EnterAmount, RetryConnection, HandleInitPayment, BackToAmount, Pay
  <2> QED
    BY <1>3, <2>1, <2>2, <2>3, <2>4, <2>5 DEF Click
<1>4. CASE ReadSlots \/ ReadBookings \/ FetchFails \/ AnswerForm
  BY <1>4, ReadSlotsKeeps, ReadBookingsKeeps, FetchFailsKeeps DEF AnswerForm
<1>5. CASE BookingAnswer
  <2>1. AnswerSlot \/ AnswerCheckout \/ RefuseCheckout \/ CheckoutFails => dash' = dash
    BY DEF AnswerSlot, AnswerCheckout, RefuseCheckout, CheckoutFails, NoCheckout
  <2>2. ConfirmRedirects => ~dash'.loaded
    BY LeaveKeeps DEF ConfirmRedirects
  <2>3. ConfirmAccepted \/ ConfirmRefused \/ ConfirmLost \/ ConfirmRejected => dash' = dash
    BY DEF ConfirmAccepted, ConfirmRefused, ConfirmLost, ConfirmRejected
  <2> QED
    BY <1>5, <2>1, <2>2, <2>3 DEF BookingAnswer, ConfirmAnswer
<1>6. CASE \/ \E t \in SlotIds : OthersBook(t)
           \/ \E i \in DOMAIN intents : Settle(i)
           \/ UNCHANGED tabVars
  BY <1>6 DEF OthersBook, Settle, tabVars
<1> QED
  BY <1>1, <1>2, <1>3, <1>4, <1>5, <1>6 DEF Next, DashboardAnswer

\* However reads and writes overlap, and whichever dashboard sent them: a card leaves
\* the list of AdminDashboard only with its slot.
THEOREM CardsGoWithSlots == Spec => CardsVanishWithSlots
<1>1. PagesInv /\ [Next]_tabVars =>
         [\A s \in SlotIds :
             dash.loaded /\ dash'.loaded /\ dash.list[s] # "absent" /\ dash'.list[s] = "absent"
                => slots'[s].state = "gone"]_tabVars
  BY CardsStay
<1> QED
  BY PagesAreRight, <1>1, PTL DEF Spec, CardsVanishWithSlots

\* Saving a form in which no time was typed moves its slot by the offset of the clock
\* of the browser, each time, and by nothing else.
THEOREM UntouchedFormsShift == Spec => []UntouchedSavesShift
<1>1. PagesInv => UntouchedSavesShift
  BY DEF PagesInv, TimesAreShifted, Shifted, UntouchedSavesShift
<1> QED
  BY PagesAreRight, <1>1, PTL

\* The intent of the <Elements> that stays mounted is the only one of a visit that is
\* accepted.
THEOREM VisitsPayOnce == Spec => []PaidOnce
<1>1. PagesInv => PaidOnce
  BY DEF PagesInv, PaymentOK, PaidOnce
<1> QED
  BY PagesAreRight, <1>1, PTL

\* The cents of every PaymentIntent agree with the invoice, whatever was typed and
\* whenever the checkout was answered.
THEOREM ChargesAreInvoiced == Spec => []ChargedIsInvoiced
<1>1. PagesInv => ChargedIsInvoiced
  BY DEF PagesInv, PaymentOK, ChargedIsInvoiced
<1> QED
  BY PagesAreRight, <1>1, PTL

=============================================================================
