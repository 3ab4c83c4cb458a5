CONSTANTS
    UserSlot = {1, 2}
    PollSlot = {3}
    MaxFailures = 1
    PageLink = {"broadband-secondary"}
    PageClass = {"voip"}
    MaxReports = 2
    MaxDeploys = 2
    Text = {"throttle", "gibberish", "drop"}
    Short = {"drop"}
    Parsable = {"throttle", "drop"}
    MaxIntents = 1
    PanelApp = {"zoom", "netflix"}
    Address = {"10.0.0.1", "127.0.0.1"}
    Candidate = {"10.0.0.1"}
    BadAddress = {"127.0.0.1"}
    MaxStarted = 1
    QueueApp = {"zoom"}
    PageClasses = {"NORMAL", "BLOCKED"}
    Hook = {"h1", "h2"}
    MaxVersion = 2
    MaxDrops = 2
    OneAtATime = {"sandbox", "console", "panel"}
    OwnerAccount = {"owner"}
    AdminAccount = {"admin"}

SPECIFICATION Spec

INVARIANTS
    DeployedIsPassed
    TokenIsThePages

PROPERTIES
    PagesCatchUp
    BusyEnds
