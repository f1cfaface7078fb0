SPECIFICATION FairSpec
CONSTANTS
    Root <- MCRoot
    Names <- MCNames
    Folders <- MCFolders
    Files <- MCFiles
    Terms <- MCTerms
    Matching <- MCMatching
    BadPatterns <- MCBadPatterns
    BadEscapes <- MCBadEscapes
    Bookmarks <- MCBookmarks
    Entered <- MCEntered
    MaxHistory = 3
    MaxEvents = 2
    MaxCrumbs = 4
INVARIANTS
    TypeOK
    FolderIsShown
    NothingIsMissing
    CrumbsLead
PROPERTIES
    FolderAppears
    ImplementsViewer
\* A page opened at a malformed search has no handlers; history is bounded.
CHECK_DEADLOCK FALSE
