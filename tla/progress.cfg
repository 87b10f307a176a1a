SPECIFICATION FairSpec
CONSTANTS
    Runs = {r1}
    NoRun = NoRun
    Limits <- LimitsProgress
PROPERTIES
    ProcessingEnds
CHECK_DEADLOCK FALSE
