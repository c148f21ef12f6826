SPECIFICATION FairSpec
CONSTANTS
    None = None
    s1 = s1
    SlotIds = {s1}
    Zones = {1}
    Amounts = {4, 15, 20}
    MaxShift = 2
    MaxIntents = 3
    MaxWrites = 2
    MaxFaults = 1
    HooksThrow = FALSE
INVARIANTS
    PagesInv
    UntouchedSavesShift
    PaidOnce
    ChargedIsInvoiced
PROPERTIES
    CardsVanishWithSlots
    ButtonsComeBack
