SPECIFICATION Spec
CONSTANTS
    Parts = {"slot", "blocks", "tests", "shortcuts", "overlay", "cleanup", "typing", "speech"}
    Runs = {1, 2, 3}
    Requests = {1, 2, 3}
    NoRun = 0
    Limits <- RepeatLimits
    Captures = {1, 2, 3, 4}
    Tests = {1, 2, 3}
    NoCapture = 0
    QueueMax = 1
    StartMax = 2
    Keys <- Keyboard
    NameOf <- Names
    Modifiers = {"ctrl", "shift"}
    DictateBy <- DictationKeys
    CancelBy <- CancelKeys
    PostedMax = 3
    KeyLimits <- FewKeyEvents
    Calls = {1, 2}
    Chain <- ThreeModels
    Budget = 5
    Attempt = 3
    Cooldown = 2
    Windows = {"w1", "w2"}
    Tabs = {"t1", "t2", "t3"}
    Fields = {"f", "g", "h", "k"}
    WindowOf <- TabWindows
    TabOf <- FieldTabs
    None = None
    MoveMax = 2
INVARIANTS
    TypeOK
    SlotIsOwned
    NoneStarved
    OutcomeIsTrue
    BorrowedGivenBack
    SpeechIsSent
PROPERTIES
    MicrophoneIsOwned
    ShortcutsAreFollowed
    CancelledIsOver
CHECK_DEADLOCK FALSE
