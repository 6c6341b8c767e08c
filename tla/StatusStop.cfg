CONSTANTS
    Protocols = {"tcp", "http"}
    Clients = {c1}
    PartNum = 2
    PublishPeriod = 2
SPECIFICATION FairSpec
PROPERTIES StopEnds
CHECK_DEADLOCK FALSE
