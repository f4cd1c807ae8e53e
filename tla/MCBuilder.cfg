SPECIFICATION LiveSpec
CONSTANTS
    Jobs = {j1, j2}
    Watched = {j1}
    Followers = {f1}
    NoJob = NoJob
    MaxBuilds = 1
    Capacity = 1
    MaxLines <- MCLines
    Lines = 1
INVARIANTS CargoContained LogReplayed
PROPERTIES JobsMoveForward BuildsEnd
\* The service is idle once every job is done.
CHECK_DEADLOCK FALSE
