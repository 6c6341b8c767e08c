CONSTANTS
    Protocols = {"tcp", "http"}
    Clients = {c1}
    PartNum = 3
    PublishPeriod = 2
SPECIFICATION PolledSpec
INVARIANTS TypeOK FreshAnswer NothingWithheld NoServerLeft
PROPERTIES StopEnds
CHECK_DEADLOCK FALSE
