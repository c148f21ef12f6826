SPECIFICATION FairSpec
CONSTANTS
    None = None
    Requests = {r1, r2}
    Clients = {c1, c2}
    Endpoints <- ApiEndpoints
    Route <- ApiRoute
    Handler <- ApiHandler
    Callers <- MCCallers
INVARIANTS
    NobodyHoldsAndWaits
    CleanClients
    NoClientLeaks
    WorkIsAuthorised
PROPERTIES
    AnswersAreDocumented
    EveryRequestAnswered
