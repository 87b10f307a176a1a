SPECIFICATION FairSpec
CONSTANTS
    Parts = {"slot", "released", "overlay", "ending"}
    Runs = {1, 2}
    Requests = {1, 2}
    NoRun = 0
    Limits <- DeletionLimits
    Captures = {1, 2}
    Tests = {1}
    NoCapture = 0
    QueueMax = 1
    StartMax = 0
    Keys <- Keyboard
    NameOf <- Names
    Modifiers = {"ctrl", "shift"}
    DictateBy <- DictationKeys
    CancelBy <- CancelKeys
    PostedMax = 3
    KeyLimits <- FewKeyEvents
    Calls = {1, 2}
    Chain <- ThreeModels
    Budget = 5
    Attempt = 3
    Cooldown = 2
    Windows = {"w1", "w2"}
    Tabs = {"t1", "t2", "t3"}
    Fields = {"f", "g", "h", "k"}
    WindowOf <- TabWindows
    TabOf <- FieldTabs
    None = None
    MoveMax = 2
PROPERTIES
    DeletedIsOver
    StartAnsweredOnce
    MicrophoneReturned
    OverlayIsTrue
CHECK_DEADLOCK FALSE
