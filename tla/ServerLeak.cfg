SPECIFICATION FairSpec
CONSTANTS
    h1 = h1
    h2 = h2
    poller = poller
    p1 = p1
    nowhere = nowhere
    directory = directory
    Handlers <- OneLeaver
    Poller = poller
    Leavers <- OneLeaver
    Photos <- MCPhotos
    NoPhoto = nowhere
    Directory = directory
    Names <- PhotoNames
    Options <- AllOptions
    Blocks = 2
    NullCompare = {"trap", "equal", "differ"}
PROPERTIES
    PicturesArePeriodic
\* The process may end: nothing restarts it.
CHECK_DEADLOCK FALSE
