CONSTANTS
    i1 = i1
    App = {"zoom", "skype"}
    Signed = {"zoom"}
    Intent = {i1}
    Radix = 2
    MaxPolicies = 2
    MaxCounter = 3

SPECIFICATION ShaperSpec
CHECK_DEADLOCK FALSE

INVARIANT
    HostIsAccountedFor
