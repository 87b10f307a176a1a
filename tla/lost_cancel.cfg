SPECIFICATION Spec
CONSTANTS
    Runs = {r1}
    NoRun = NoRun
    Limits <- LimitsCancelRecover
PROPERTIES
    CancelSuppressesDispatch
CHECK_DEADLOCK FALSE
