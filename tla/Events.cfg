CONSTANTS
    a = a
    b = b
    c = c
    p1 = p1
    p2 = p2
    None = None
    Sub = {a, b, c}
    CodeOf <- DistinctCode
    Publisher = {p1, p2}
    Closable = TRUE
    n1 = n1
    n2 = n2
    s1 = s1
    s2 = s2
    s3 = s3
    t1 = t1
    Notice = {n1, n2}
    EmailProviders <- MCEmailProviders
    SMSProviders <- MCSMSProviders
    Sandboxed = {s3}
    DefaultLocale = "es"
    Languages = {"", "en", "fr", "e;n"}
    Unparsable = {"e;n"}
    Written = {"magic_code_email", "welcome_email", "receipt"}
    MaxAdds = 2
    k1 = k1
    k2 = k2
    alice = alice
    root = root
    nobody = nobody
    Call = {k1, k2}
    Method = {"Register", "UpdateProfile", "GetProfile"}
    Guards <- MCGuards
    RolePermissions <- MCRolePermissions
    Token <- MCToken
    Sent <- MCSent
    Failures = {"NOT_RESOURCE_OWNER"}
    Nobody = nobody
SPECIFICATION MCSpec
CHECK_DEADLOCK FALSE
SYMMETRY MCSymmetry
INVARIANTS
    PublicationsAreExact
    MessagesArriveAsAsked
    AddedRenders
    AuditTrail
