CONSTANTS
    r1 = r1
    r2 = r2
    r3 = r3
    NoTask = NoTask
    Connections = {"c1", "c2"}
    Requests = {r1, r2, r3}
    Workloads <- LiveWorkloads
    Parallel = 2
SPECIFICATION FairSpec
PROPERTIES EveryRequestIsAnswered
\* The model stops when every request has been served.
CHECK_DEADLOCK FALSE
