CONSTANTS
    owner = owner
    root = root
    sub1 = sub1
    sub2 = sub2
    sub3 = sub3
    ticket = ticket
    lstm1 = lstm1
    lstm2 = lstm2
    Event <- MCEvent
    MaxLog = 2
    MaxLogged = 4
    Email = {"admin", "new"}
    Seed <- MCSeed
    Role = {"SUPER_ADMIN", "NETWORK_ADMIN", "IT_STAFF"}
    DbUser = {owner}
    MaxFailedAttempts = 2
    LockoutDuration = 2
    TypedTimestamps = TRUE
    MaxTime = 4
    Subject = {owner, root}
    Admin = {root}
    AppUser = {owner, root}
    Plan <- MCPlan
    SubId = {sub1, sub2, sub3}
    TicketId = {ticket}
    ModelId = {lstm1, lstm2}
    SeedSubs <- MCSeedSubs
    SeedModel = lstm1
    MaxRequests = 7

SPECIFICATION ServerSpec
CHECK_DEADLOCK FALSE

INVARIANTS
    AlarmMeansEviction
    LockMeansFailures
    PrivilegeStaysSeeded
    RevenueIsWhatIsShown
    RowLockMeansFailures
