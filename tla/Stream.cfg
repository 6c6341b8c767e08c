CONSTANTS
    Kinds = {"camera", "pipe", "socket"}
    BufferSize = 2
    FrameBound = 5
SPECIFICATION FairSpec
INVARIANTS TypeOK NoLostWakeup NoWorkerLeft
PROPERTIES AbstractSpec FramesInOrder StopEnds
CHECK_DEADLOCK FALSE
