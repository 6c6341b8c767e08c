CONSTANTS
    f = f
    g = g
    c = c
    d = d
    Files = {f, g}
    Configs = {c, d}
    PartNumOf <- MCPartNumOf
    ReceiverTask <- MCReceiverTask
    Threshold = 1
    SpinDefault = 0
    MaxRestarts = 1
SPECIFICATION FairSpec
INVARIANTS TypeOK Shown NothingSkipped FailuresExplained
PROPERTIES Delivered
CHECK_DEADLOCK FALSE
