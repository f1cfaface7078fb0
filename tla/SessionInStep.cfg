SPECIFICATION FairSpec
CONSTANTS
    Coalesce = TRUE
    Split = TRUE
    NameTexts <- AllNames
    SettingTexts <- AllSettings
    ValueTexts <- AllValues
    AngleTexts <- AllAngles
    Blocks = 2
    MaxUnread = 1
INVARIANTS
    TypeOK
    InStep
    PictureIsWhole
PROPERTIES
    MessagesAreUnderstood
    OrderlyRecvsAreAnswered
\* The session ends with quit.
CHECK_DEADLOCK FALSE
