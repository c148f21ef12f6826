SPECIFICATION FairSpec
CONSTANTS
    None = None
    SlotIds = {s1}
    BookingIds = {b1, b2}
    PaymentIds = {p1, p2}
    Tenants = {t1}
    Staff = {u1}
    Customers = {c1}
    Times = {0, 1}
    Workers = {w1, w2}
    MaxFaults = 0
    Offered = {"checkout"}
PROPERTIES
    PaidLeadsToBooking
