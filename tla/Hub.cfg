CONSTANTS
    a = a
    b = b
    intruder = intruder
    alice = alice
    m1 = m1
    m2 = m2
    m3 = m3
    Nobody = Nobody
    Conn = {a, b, intruder}
    User = {alice}
    Message = {m1, m2, m3}
    Env = "prod"
    HasVerifier = TRUE
    AllowedOrigins = {"https://app"}
    Handshake <- MCHandshake
    NoToken = NoToken
    Forged = Forged
    Refused = Refused
    Event <- MCEvent
    SendCap = 1
    BroadcastCap = 1
SPECIFICATION FairHubSpec
CHECK_DEADLOCK FALSE
INVARIANTS
    NoSendOnClosed
    TargetingIsExact
PROPERTIES
    ConnectionsAreReleased
    SendersReturn
