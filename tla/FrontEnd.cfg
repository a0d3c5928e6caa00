SPECIFICATION FrontEndSpec
CONSTANTS
    f0 = f0
    f1 = f1
    f2 = f2
    f3 = f3
    main = main
    worker = worker
    Modules <- MCModules
    Entry = f0
    Missing = missing
    Programs <- MCPrograms
    Compiled <- MCCompiled
    MaxDepth = 4
    MaxNames = 2
    MaxText = 4
    MaxFns = 3
    MaxSlots = 7
    MaxCode = 5
    MaxJumps = 3
    MaxStack = 2
    Threads <- MCThreads
    Repl = main
    ClassPrograms <- MCClassPrograms
    MaxCompiles = 3
    Annotations <- MCAnnotations
    DataValues <- MCDataValues
    Generic <- MCGeneric
INVARIANTS
    WellFormed
    LoadedInOrder
    NamesAreBound
    PlainExitsAreRight
    SafeRewritesKeepMeaning
    NamesMeanTheirVariables
    CapturedAreClosed
    TypesAreKnown
    ChecksAgree
PROPERTIES
    Terminates
CHECK_DEADLOCK FALSE
