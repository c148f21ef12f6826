------------------------------- MODULE Schema -------------------------------
(***************************************************************************)
(* The tables of the booking database (src/backend/src/__tests__/          *)
(* schema.sql) that the booking core reads and writes: availabilities,     *)
(* bookings and invoices, in their committed state.                        *)
(*                                                                         *)
(* A row is a function value at its primary key; a key that no INSERT has  *)
(* minted yet has a row whose state (or status) is "none".  UUIDs are not  *)
(* reused, so a deleted slot keeps its key.  Left out: amounts, currency,  *)
(* timestamps and the Stripe columns, which no handler of the core reads   *)
(* back.                                                                   *)
(***************************************************************************)
EXTENDS Integers, FiniteSets

CONSTANTS
    SlotIds,      \* primary keys of availabilities
    BookingIds,   \* primary keys of bookings
    PaymentIds,   \* Stripe PaymentIntent ids
    Tenants,      \* primary keys of tenants
    Staff,        \* users who can own a slot
    Customers,    \* users who can book one
    Times,        \* instants a slot can start or end at
    None          \* SQL NULL, an absent field, a lock nobody holds

ASSUME NoneIsNoId ==
    None \notin SlotIds \cup BookingIds \cup PaymentIds \cup Tenants \cup Staff \cup Customers

ASSUME TimesAreInstants == Times \subseteq Nat /\ None \notin Times

VARIABLES
    slots,      \* SlotIds -> row of availabilities
    bookings,   \* BookingIds -> row of bookings
    invoices    \* BookingIds -> status of the one invoice of a booking

tables == <<slots, bookings, invoices>>

(***************************************************************************)
(* Rows.  "open" is is_booked = false, "booked" is is_booked = true.       *)
(* paidBy is a history field: the PaymentIntent whose webhook inserted the *)
(* booking, None when createBooking did.  The code stores no such link.    *)
(***************************************************************************)
BookingStatus == {"pending", "confirmed", "cancelled", "completed"}

InvoiceStatus == {"draft", "unpaid", "paid", "void", "refunded"}

NoSlot == [state |-> "none", tenant |-> None, staff |-> None, from |-> None, to |-> None]

DeletedSlot == [NoSlot EXCEPT !.state = "deleted"]

\* NOT NULL columns and CHECK (end_time > start_time).
LiveSlot == {row \in [state : {"open", "booked"}, tenant : Tenants, staff : Staff,
                      from : Times, to : Times] : row.from < row.to}

NoBooking == [status |-> "none", tenant |-> None, customer |-> None,
              slot |-> None, paidBy |-> None]

LiveBooking == [status   : BookingStatus,
                tenant   : Tenants,
                customer : Customers,
                slot     : SlotIds,
                paidBy   : PaymentIds \cup {None}]

OpenSlot(t, st, f, e) ==
    [state |-> "open", tenant |-> t, staff |-> st, from |-> f, to |-> e]

TablesTypeOK ==
    /\ slots \in [SlotIds -> LiveSlot \cup {NoSlot, DeletedSlot}]
    /\ bookings \in [BookingIds -> LiveBooking \cup {NoBooking}]
    /\ invoices \in [BookingIds -> InvoiceStatus \cup {"none"}]

(***************************************************************************)
(* What the queries ask of the tables.                                     *)
(***************************************************************************)
SlotExists(s) == slots[s].state \in {"open", "booked"}

BookingExists(b) == bookings[b].status # "none"

\* The rows the UNIQUE and REFERENCES constraints of availability_id look for.
BookingsOn(s) == {b \in BookingIds : BookingExists(b) /\ bookings[b].slot = s}

\* updateBookingStatus refuses to leave these.
TerminalStatus == {"cancelled", "completed"}

\* A booking whose slot must stay taken.
IsActive(b) == bookings[b].status \in BookingStatus \ {"cancelled"}

\* start_time < new_end AND end_time > new_start
Overlaps(row, f, e) == row.from < e /\ row.to > f

\* The unbooked slots of one staff member that a time range would overlap.
UnbookedOverlaps(t, st, f, e) ==
    {s \in SlotIds : /\ slots[s].state = "open"
                     /\ slots[s].tenant = t
                     /\ slots[s].staff = st
                     /\ Overlaps(slots[s], f, e)}

\* availabilityRoutes.js:31-32, "Overlapping unbooked slots are rejected": no
\* instant is offered twice by the same staff member.
NoUnbookedOverlap ==
    \A s1, s2 \in SlotIds :
        /\ slots[s1].state = "open" /\ slots[s2].state = "open"
        /\ slots[s1].tenant = slots[s2].tenant /\ slots[s1].staff = slots[s2].staff
        /\ \E x \in Times : /\ slots[s1].from <= x /\ x < slots[s1].to
                            /\ slots[s2].from <= x /\ x < slots[s2].to
        => s1 = s2

(***************************************************************************)
(* A database in which slots have been published, one createAvailability   *)
(* after another, and nothing has been booked yet.                         *)
(***************************************************************************)
InitTables ==
    /\ slots \in [SlotIds -> {row \in LiveSlot : row.state = "open"} \cup {NoSlot}]
    /\ NoUnbookedOverlap
    /\ bookings = [b \in BookingIds |-> NoBooking]
    /\ invoices = [b \in BookingIds |-> "none"]

(***************************************************************************)
(* What keeps the three tables in agreement, stated of the tables alone:   *)
(* BookingLedger and BookingEngine have the same invariants.               *)
(***************************************************************************)

\* A slot is marked booked exactly while an uncancelled booking refers to it.
SlotMatchesBookings ==
    \A s \in SlotIds :
        slots[s].state = "booked" <=> \E b \in BookingsOn(s) : IsActive(b)

\* Each booking has its invoice, void exactly when the booking is cancelled.
InvoiceFollowsBooking ==
    \A b \in BookingIds :
        /\ ~BookingExists(b) <=> invoices[b] = "none"
        /\ bookings[b].status = "cancelled" <=> invoices[b] = "void"

\* A booking refers to a slot that exists, in the booking's own tenant.
BookingStaysInTenant ==
    \A b \in BookingIds : BookingExists(b) =>
        /\ bookings[b].slot \in SlotIds
        /\ SlotExists(bookings[b].slot)
        /\ slots[bookings[b].slot].tenant = bookings[b].tenant

\* No two bookings ever refer to the same slot, cancelled ones included.
OneBookingPerSlot ==
    \A b1, b2 \in BookingIds :
        BookingExists(b1) /\ BookingExists(b2) /\ bookings[b1].slot = bookings[b2].slot
        => b1 = b2

Consistent ==
    /\ SlotMatchesBookings
    /\ InvoiceFollowsBooking
    /\ BookingStaysInTenant
    /\ OneBookingPerSlot

=============================================================================
