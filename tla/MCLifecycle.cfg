CONSTANTS
    Generations = 2
    Clients <- MCClients
SPECIFICATION Spec
INVARIANTS TypeOK CloseAnswersAll StartedWritesFinish SomeoneListens
PROPERTIES ShutdownEnds
\* The model stops when the last worker is gone.
CHECK_DEADLOCK FALSE
