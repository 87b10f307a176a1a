SPECIFICATION Spec
CONSTANTS
    Runs = {r1}
    NoRun = NoRun
    Limits <- LimitsHazards
INVARIANTS
    TypeOK
    WriteAheadClaim
    DoneMeansTyped
    OneAttemptAtATime
    StatusTellsClaims
PROPERTIES
    NoSilentDuplicate
    SettledStays
    LedgerKept
CHECK_DEADLOCK FALSE
