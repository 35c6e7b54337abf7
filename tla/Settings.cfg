CONSTANTS
    p1 = p1
    p2 = p2
    u1 = u1
    u2 = u2
    Process = {p1, p2}
    User = {u1, u2}
    Rows <- MCRows
    Assignments <- MCAssignments
    SeedUsers <- MCSeedUsers
    Plans <- MCPlans
    MaxLaunches = 3
    MaxFaults = 1
    v0 = v0
    v1 = v1
    v50 = v50
    v51 = v51
    v99 = v99
    anonymous = anonymous
    o1 = o1
    f1 = f1
    f2 = f2
    FlagName = {f1, f2}
    Operator = {o1}
    Bucket <- MCBucket
    NoUser = anonymous
    Percentages = {0, 1, 50, 100}
    RuleLists <- MCRuleLists
    Contexts <- MCContexts
    TableMap <- MCTableMap
    Tables = {"admin.system_config", "kyc.kyc_config"}
    MaxSets = 3
SPECIFICATION MCSpec
CHECK_DEADLOCK FALSE
INVARIANTS
    LoadIsExplained
    RolesAreSeeded
PROPERTIES
    SeedingHeals
    NobodyFallsOut
