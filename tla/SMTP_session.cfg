SPECIFICATION PatientSpec
CONSTANTS
    Recipients = 2
    Settings <- SessionSettings
    DsnPrefs <- SomePreferences
    Offers <- SessionOffers
INVARIANTS
    TypeOK
    SentMeansAccepted
    NothingInClear
    OfferedOnChannel
    FallsBack
    LineInDialogue
PROPERTIES
    SessionKept
    
CHECK_DEADLOCK FALSE
