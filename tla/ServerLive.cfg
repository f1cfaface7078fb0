SPECIFICATION FairSpec
CONSTANTS
    h1 = h1
    h2 = h2
    poller = poller
    p1 = p1
    nowhere = nowhere
    directory = directory
    Handlers <- MCHandlers
    Poller = poller
    Leavers <- OneLeaver
    Photos <- MCPhotos
    NoPhoto = nowhere
    Directory = directory
    Names <- AllNames
    Options <- TwoOptions
    Blocks = 1
    NullCompare = {"trap", "equal", "differ"}
PROPERTIES
    PollingGoesOn
    WaiterIsServed
\* The process may end: nothing restarts it.
CHECK_DEADLOCK FALSE
