SPECIFICATION Spec
CONSTANTS
    Runs = {r1}
    NoRun = NoRun
    Limits <- LimitsRecoverDelete
PROPERTIES
    DeletedNotDispatched
CHECK_DEADLOCK FALSE
