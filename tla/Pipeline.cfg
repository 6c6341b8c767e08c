CONSTANTS
    Decoders = {d1}
    FrameMax = 3
    PartMax = 2
SPECIFICATION FairSpec
INVARIANTS TypeOK NullsAfterWork CleanStop
PROPERTIES StopEnds DecodersKeepUp
