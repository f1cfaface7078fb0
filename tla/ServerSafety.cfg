SPECIFICATION Spec
CONSTANTS
    h1 = h1
    h2 = h2
    poller = poller
    p1 = p1
    nowhere = nowhere
    directory = directory
    Handlers <- MCHandlers
    Poller = poller
    Leavers <- OneLeaver
    Photos <- MCPhotos
    NoPhoto = nowhere
    Directory = directory
    Names <- AllNames
    Options <- AllOptions
    Blocks = 2
    NullCompare = {"trap", "equal", "differ"}
INVARIANTS
    TypeOK
    SemaphoreAccounts
    TransferIsStable
    RefusalIsHonest
PROPERTY
    ImplementsMonitor
\* The process may end: nothing restarts it.
CHECK_DEADLOCK FALSE
