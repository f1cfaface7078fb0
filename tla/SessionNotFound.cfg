SPECIFICATION FairSpec
CONSTANTS
    Coalesce = TRUE
    Split = FALSE
    NameTexts <- MCNames
    SettingTexts <- Settings
    ValueTexts <- MCValues
    AngleTexts <- MCValues
    Blocks = 3
    MaxUnread = 1
PROPERTY
    EveryRecvIsAnswered
\* The session ends with quit.
CHECK_DEADLOCK FALSE
