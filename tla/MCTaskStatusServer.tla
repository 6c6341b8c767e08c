------------------------- MODULE MCTaskStatusServer -------------------------
EXTENDS TaskStatusServer
=============================================================================
