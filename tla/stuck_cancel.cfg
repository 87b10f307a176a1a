SPECIFICATION FairSpec
CONSTANTS
    Runs = {r1}
    NoRun = NoRun
    Limits <- LimitsOneCancel
PROPERTIES
    CancelEndsWaiting
CHECK_DEADLOCK FALSE
