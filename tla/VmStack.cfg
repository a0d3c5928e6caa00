SPECIFICATION Spec
CONSTANTS
    t1 = t1
    t2 = t2
    c1 = c1
    c2 = c2
    v1 = v1
    v2 = v2
    Tasks = {t1, t2}
    RootTask = t1
    NoTask = none
    Cells = {c1, c2}
    Values = {v1, v2}
    Unset = v1
    InitialCapacity = 2
    MinCapacity = 1
    MaxSlots <- MCMaxSlots
    MaxFrames = 2
    MaxHandlers <- MCMaxHandlers
    MaxArgs = 1
CONSTRAINT AloneOrSmall
INVARIANTS
    WellFormed
    PointersAreCurrent
    OpenUpvaluesAreLocals
    VariablesAreShared
SYMMETRY Symmetry
CHECK_DEADLOCK FALSE
