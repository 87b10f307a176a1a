SPECIFICATION Spec
CONSTANTS
    Runs = {r1}
    NoRun = NoRun
    Limits <- LimitsTwoRecoveries
PROPERTIES
    VersionInsertsOnce
CHECK_DEADLOCK FALSE
