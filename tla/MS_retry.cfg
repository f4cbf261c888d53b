SPECIFICATION Spec
CONSTANTS
    m1 = m1
    Messages = {m1}
    Fields <- NoCopyFields
    Recipients = 1
    DsnPrefs <- OnePreference
    MaxRetries = 1
    MaxSends = 1
INVARIANTS
    ClosedMeansKept
CHECK_DEADLOCK FALSE
