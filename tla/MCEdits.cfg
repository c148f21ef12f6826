SPECIFICATION Spec
CONSTANTS
    None = None
    SlotIds = {s1, s2}
    BookingIds = {b1, b2, b3}
    PaymentIds = {p1}
    Tenants = {t1}
    Staff = {u1, u2}
    Customers = {c1}
    Times = {0, 1}
    Workers = {w1, w2}
    MaxFaults = 0
    Offered = {"create", "update", "delete", "book"}
SYMMETRY Symmetry
INVARIANTS
    IInv
PROPERTIES
    BookedSlotIsFrozen
    ProviderEditsOwnSlots
    OverlapsAreRefused
