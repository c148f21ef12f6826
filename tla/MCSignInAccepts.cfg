SPECIFICATION FairSpec
CONSTANTS
    None = None
    ann = ann
    bob = bob
    t1 = t1
    t2 = t2
    Users <- MCUsers
    Tenants <- MCTenants
    Invitee = ann
    Inviting = t2
    MaxCalls = 2
    MaxFaults = 0
PROPERTIES
    SignInAccepts
