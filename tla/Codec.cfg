CONSTANTS
    Dark = {1, 2, 3, 6}
    Setups <- MCSetups
    MisreadAt = {0, 45, 149}
    MaxMisread = 1
    Memory = {0, 1}
    PublishPeriod = 2
SPECIFICATION Spec
INVARIANTS CrcTells KeptIsSent SeenIsRead StatusTold
CHECK_DEADLOCK FALSE
