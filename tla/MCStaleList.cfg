\* A tab whose booking page is blank has nothing left to do.
SPECIFICATION Spec
CHECK_DEADLOCK FALSE
CONSTANTS
    None = None
    s1 = s1
    SlotIds = {s1}
    Zones = {1}
    Amounts = {20}
    MaxShift = 1
    MaxIntents = 1
    MaxWrites = 1
    MaxFaults = 0
    HooksThrow = TRUE
PROPERTIES
    GoneStaysUnlisted
