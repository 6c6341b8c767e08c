CONSTANT MaxPosted = 2
SPECIFICATION FairSpec
INVARIANTS FailuresExplained OneKindOfWork BackToRest
PROPERTIES Settles
CHECK_DEADLOCK FALSE
