CONSTANTS
    Requests = {r1, r2}
    Names = {n1}
    Nothing = Nothing
    MaxCrashes = 0
SPECIFICATION FaultFreeSpec
INVARIANT
    RowAndFileTogether
CHECK_DEADLOCK FALSE
