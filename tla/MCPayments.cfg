SPECIFICATION Spec
CONSTANTS
    None = None
    SlotIds = {s1, s2}
    BookingIds = {b1, b2, b3}
    PaymentIds = {p1, p2}
    Tenants = {t1, t2}
    Staff = {u1}
    Customers = {c1}
    Times = {0, 1}
    Workers = {w1, w2}
    MaxFaults = 1
    Offered = {"checkout", "status", "book"}
SYMMETRY Symmetry
INVARIANTS
    OnePaymentOneBooking
    OneBookingPerSlot
    BookingStaysInTenant
    SlotMatchesBookings
    InvoiceFollowsBooking
PROPERTIES
    TerminalIsFinal
    LosersGetConflict
    IntentsAreForOpenSlots
