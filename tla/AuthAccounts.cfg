CONSTANTS
    e1 = e1
    f1 = f1
    x1 = x1
    p1 = p1
    h1 = h1
    h2 = h2
    None = None
    Email = {e1}
    Phone = {f1}
    Identity = {x1}
    Provider = {p1}
    ProviderOf <- OneProvider
    EmailOf <- OneEmail
    OAuthConfig <- OneEnabled
    Handler = {h1, h2}
    MaxUsers = 2
    MaxStates = 2
    MaxAsking = 1
    MaxChanges = 1
    MaxFailures = 2
SPECIFICATION MCSpec
SYMMETRY Symmetry
CHECK_DEADLOCK FALSE
INVARIANTS
    IssuedToOwner
    StateUsesBounded
PROPERTIES
    NeverReassigned
