SPECIFICATION AppSpec
CONSTANTS
    Machines = {"processes", "edits", "database", "history", "rows", "text", "settings", "secret"}
    none = none
    Processes = {1, 2}
    NoProcess = 0
    Models = {"m1", "m2"}
    Editors = {"e1", "e2"}
    Requests <- Editing
    Initial <- Local
    FailMax = 1
    UnloadMax = 0
    Runs = {1, 2, 3}
    Ops = {1, 2}
    NoRun = 0
    Max = 2
    Limit = 2
    Sweep = 1
    Horizon = 3
    Workloads <- Histories
    Writes = {a, b}
    Parts = {1, 2}
    Shipped = {1, 2}
    Idle = Idle
    Migrating = Migrating
    Closing = Closing
    Values <- FieldValues
    Default <- Preferred
    Canonical <- Formats
    SttModels = {"whisper", "other"}
    Replaced <- Voxtral
    MaxBackups = 2
    Others <- Foreign
    Patches <- Edited
    NoSettings = none
    LaunchMax = 5
    EditMax = 2
    Keys = {"k1", "k2"}
    NoKey = none
    Torn = "torn"
    CallMax = 3
    CrashMax = 2
    Spellings = {"x", "y", "z"}
    MaxImportEntries = 3
    MaxId = 4
    Entries <- TypedEntries
    OtherFiles <- GivenFiles
INVARIANTS
    AllTypesOK
    ProcessesTakeTurns
    EntriesAreSound
    FollowsTheRules
    OldOrNewKey
PROPERTIES
    EditsAreKept
    SchemaIsKept
    Implements
    FilesFollowRows
    AgeDecides
    NeverCrowded
    SettingsSurvive
CHECK_DEADLOCK FALSE
