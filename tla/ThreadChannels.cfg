SPECIFICATION ChannelsSpec
CONSTANTS
    Threads = {m, t1, t2, t3}
    Main = m
    NoThread = none
    Channels = {a}
    MaxMessages = 3
INVARIANTS
    ChannelsWellFormed
    ReceivedOnceInOrder
    SleepersWillBeWoken
PROPERTIES
    CloseReleasesReceivers
CHECK_DEADLOCK FALSE
