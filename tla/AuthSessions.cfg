CONSTANTS
    alice = alice
    mail = mail
    phone = phone
    h1 = h1
    h2 = h2
    Nobody = Nobody
    User = {alice}
    Contact = {mail, phone}
    OwnerOf <- Owner
    Handler = {h1, h2}
    Bearers = {"access"}
    Refreshers = {"refresh"}
    MaxCodes = 2
    MaxGrants = 3
    MaxRevocations = 1
    MaxFailures = 1
    MaxAged = 1
SPECIFICATION MCSpec
SYMMETRY Symmetric
CHECK_DEADLOCK FALSE
INVARIANTS
    SingleUse
    ForksBounded
    LoginsAreRecorded
