SPECIFICATION FairSpec
CONSTANTS
    Runs = {r1, r2}
    NoRun = NoRun
    Limits <- LimitsCalm
PROPERTIES
    WaitingEnds
CHECK_DEADLOCK FALSE
