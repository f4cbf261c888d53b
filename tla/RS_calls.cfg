SPECIFICATION FairRemoteSpec
CONSTANTS
    c1 = c1
    c2 = c2
    Messages = {c1, c2}
    Fields <- RemoteFields
    Recipients = 1
    DsnPrefs <- AnyPrefs
    MaxRetries = 0
    MaxSends = 1
    Requests <- RemoteRequests
    UserPrefs <- TheUsers
INVARIANTS
    RemoteTypeOK
    DsnAsRequested
    CallSettled
PROPERTIES
    CallReturns
CHECK_DEADLOCK FALSE
