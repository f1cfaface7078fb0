SPECIFICATION Spec
CONSTANTS
    Root <- MCRoot
    Names <- MCNames
    Folders <- MCFolders
    Files <- MCFiles
    Terms <- MCTerms
    Matching <- MCMatching
    BadPatterns <- MCBadPatterns
    BadEscapes <- MCBadEscapes
    Bookmarks <- MCBookmarks
    Entered = {}
    MaxHistory = 3
    MaxEvents = 1
    MaxCrumbs = 4
INVARIANTS
    ResultsAreExact
CHECK_DEADLOCK FALSE
