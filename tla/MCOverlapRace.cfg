SPECIFICATION Spec
CONSTANTS
    None = None
    SlotIds = {s1, s2}
    BookingIds = {b1}
    PaymentIds = {p1}
    Tenants = {t1}
    Staff = {u1}
    Customers = {c1}
    Times = {0, 1, 2}
    Workers = {w1, w2}
    MaxFaults = 0
    Offered = {"create"}
CHECK_DEADLOCK FALSE
INVARIANTS
    NoUnbookedOverlap
