SPECIFICATION Spec
CONSTANTS
    Runs = {r1, r2}
    NoRun = NoRun
    Limits <- LimitsCancel
SYMMETRY Symmetry
PROPERTIES
    CancelIsObeyed
    DeletedNotDelivered
CHECK_DEADLOCK FALSE
