\* The process is killed between resize_file and rename in Finalize.
CONSTANTS
    right = right
    less = less
    least = least
    wrong = wrong
    NoConfig = NoConfig
    Configs = {right, wrong}
    SenderConfig = right
    Decoding = {right}
    PartNumOf <- MCPartNumOf
    StatusByte = 2
    FlushEvery = 2
    KillPoints = {"rename"}
    MaxMishaps = 1
    MaxDone = 5
    DiskFaults = {}
SPECIFICATION Spec
INVARIANT OutputIsTarget
