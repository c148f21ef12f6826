SPECIFICATION FairSpec
CONSTANTS
    None = None
    ann = ann
    bob = bob
    t1 = t1
    t2 = t2
    Users <- MCUsers
    Tenants <- MCTenants
    Invitee = ann
    Inviting = t2
    MaxCalls = 3
    MaxFaults = 2
INVARIANTS
    SessionInv
    TokenIsOfShownUser
    ActiveIsListed
    AcceptsOnce
PROPERTIES
    GhostsLeave
