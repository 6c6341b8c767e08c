\* The process is killed between the task file and the last part in Flush.
CONSTANTS
    right = right
    less = less
    least = least
    wrong = wrong
    NoConfig = NoConfig
    Configs = {right, wrong}
    SenderConfig = right
    Decoding = {right}
    PartNumOf <- MCPartNumOf
    StatusByte = 2
    FlushEvery = 2
    KillPoints = {"close_blob"}
    MaxMishaps = 1
    MaxDone = 5
    DiskFaults = {}
SPECIFICATION Spec
INVARIANT OutputIsTarget
