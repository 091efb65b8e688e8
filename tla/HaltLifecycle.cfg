SPECIFICATION Spec
CONSTANTS
    MaxDay = 3
    MaxOpen = 2
INVARIANTS
    TypeOK
    HaltHasCause
PROPERTIES
    ManualHaltHolds
    DailyHaltHolds
