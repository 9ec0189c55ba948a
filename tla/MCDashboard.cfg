SPECIFICATION FairSpec
CONSTANTS
    None = None
    MaxCalls = 2
    MaxClicks = 2
    Keys = {"admin", "tenant"}
    Sessions = {1, 2}
    Forms = 2
    Accounts = 1
    MaxJobs = 2
    Accts = {1, 2}
    Names = {"a", "b"}
    MaxOps = 1
    MaxListed = 3
    MaxRows = 4
    ScrollTops <- DashTops
    ViewHeights = {88, 300}
    Rows <- DashRows
    Handled = {1}
    Items = {1, 2}
    Prompts = 3
    Pieces = 2
    MaxMessages = 4
    Selections = {1, 2}
    MaxAttachments = 2
    MaxFileSize = 2
    MaxTotalSize = 3
    Entries = 3
    ListLimit = 1
    MaxShown = 2
    Scenes = {"shell", "device", "browser", "bulk", "add", "connections", "cards", "rules", "admin", "chat", "pictures", "logs", "system"}
INVARIANTS
    GateConsistent
    
    OnboardingSound
    ListsSettle
    AttentionAgrees
    ModelListsSound
    TargetsSound
    ListShowsAll
    
    TurnsInOrder
    PicturesFit
PROPERTIES
    PollingEnds
    QueuesDrain
    SecretsShown
CHECK_DEADLOCK FALSE
