\* Kills anywhere, every disk fault.
CONSTANTS
    right = right
    less = less
    least = least
    wrong = wrong
    NoConfig = NoConfig
    Configs = {right, less, least, wrong}
    SenderConfig = right
    Decoding = {right, less, least}
    PartNumOf <- MCPartNumOf
    StatusByte = 2
    FlushEvery = 2
    KillPoints <- AnyStep
    MaxMishaps = 3
    MaxDone = 5
    DiskFaults = {"allocate", "write"}
SPECIFICATION FairSpec
INVARIANTS NothingMissing ExactOrFault IInv
PROPERTIES AbstractSpec Delivered
