SPECIFICATION Spec
CONSTANTS
    MaxDay = 2
    MaxOpen = 1
PROPERTY LimitHaltsDay
