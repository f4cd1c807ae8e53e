SPECIFICATION Spec
CONSTANTS
    Reqs = {r1, r2}
    Nobody = Nobody
    Size = 3
    ChunkSizes = {3, 4}
    Patches <- Overlapping
SYMMETRY ReqSymmetry
INVARIANTS StagedWhole RetriesLeaveAWholeChunk NoSelfDeadlock
PROPERTIES FailedCommitKeepsChunks
\* The session is over once its directory is gone.
CHECK_DEADLOCK FALSE
