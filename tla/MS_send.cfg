SPECIFICATION Spec
CONSTANTS
    m1 = m1
    Messages = {m1}
    Fields <- AllFields
    Recipients = 1
    DsnPrefs <- OnePreference
    MaxRetries = 3
    MaxSends = 2
INVARIANTS
    TypeOK
    SentAsTold
    ClosedKeepsMail
    FiledAsTold
PROPERTIES
    NeverSentAgain
CHECK_DEADLOCK FALSE
