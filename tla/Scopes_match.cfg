SPECIFICATION ScopesSpec
CONSTANTS
    MaxNames = 2
    MaxText = 4
    MaxFns = 3
    MaxSlots = 7
INVARIANTS
    SlotsHoldTheirVariables
CHECK_DEADLOCK FALSE
