SPECIFICATION Spec
CONSTANTS
    None = None
    Slugs = {t1, t2}
    Emails <- MCEmails
    Lower <- MCLower
    InviteIds = {i1, i2}
    InviteRoles = {"provider", "customer"}
    Workers = {w1, w2}
    MaxFaults = 1
    Offered = {"invite", "accept", "join", "register"}
SYMMETRY Symmetry
VIEW View
INVARIANTS
    WInv
    InvitationUsedOnce
    AcceptedMeansMember
    NoWaitCycle
PROPERTIES
    MembersAreInvited
    RolesAreKept
